--------------------------- MODULE DirectoryProofs ---------------------------
(***************************************************************************)
(* For any number of clients, directories, names and files: what a leader  *)
(* has of a directory, and the pool with the journals, are what the        *)
(* operations made of it; the root can be loaded, a file has one name at   *)
(* most, and goes only in the ways FileKept lists, with the exceptions     *)
(* that Directory names.                                                   *)
(***************************************************************************)
EXTENDS Directory, FiniteSetTheorems, TLAPS

(* Tables tb are held by the leaders ld only. *)
Led(tb, ld) ==
  \A i \in Client, d \in Dir : tb[i][d].loc = "LOCAL" => ld[d] = i

Leaders == [Dir -> Client \cup {Nil}]

Shaped(tb) == tb = [i \in Client |-> [d \in Dir |-> tb[i][d]]]

(* Only the holder of the unexpired lease has a valid table with entries:  *)
(* the tables of others are dropped, or say who leads.                     *)
OneTable == Led(table, leader)

(* It is inductive together with what the variables it speaks of           *)
(* are functions of.                                                       *)
IInv == leader \in Leaders /\ Shaped(table) /\ OneTable

Kinds == NoTable.loc = "none" /\ (\A k : LocalTable(k).loc = "LOCAL")
           /\ (\A s : RemoteTable(s).loc = "REMOTE")

(* The three kinds of table differ in loc.                                 *)
LEMMA TableKinds == Kinds
BY DEF Kinds, NoTable, LocalTable, RemoteTable

(* Taking a lease never makes a second leader.  (lease_client::acquire)    *)
LEMMA LeasedType ==
  ASSUME IInv, NEW c \in Client, NEW D
  PROVE  Leased(c, D) \in Leaders
BY DEF IInv, Leaders, Leased

(* After the tables of D are fetched whoever has entries leads: a table is *)
(* loaded only with the lease.  (directory_table::get_dentry_table)        *)
LEMMA FetchedLed ==
  ASSUME IInv, NEW c \in Client, NEW D
  PROVE  Shaped(Fetched(c, D)) /\ Led(Fetched(c, D), Leased(c, D))
<1>1. \A d \in Dir : Fetched(c, D)[c][d] = IF d \in D THEN get_dentry_table(c, d) ELSE table[c][d]
  BY DEF Fetched, IInv, Shaped
<1>2. \A i \in Client \ {c}, d \in Dir : Fetched(c, D)[i][d] = table[i][d]
  BY DEF Fetched, IInv, Shaped
<1>3. Shaped(Fetched(c, D))
  BY DEF Fetched, IInv, Shaped
<1>4. ASSUME NEW i \in Client, NEW d \in Dir, Fetched(c, D)[i][d].loc = "LOCAL"
      PROVE  Leased(c, D)[d] = i
  <2>1. Leased(c, D)[d] = IF d \in D /\ table[c][d] = NoTable /\ leader[d] = Nil
                            THEN c ELSE leader[d]
    BY DEF Leased
  <2>2. CASE i # c
    BY <1>2, <1>4, <2>1, <2>2, DistinctAssumption DEF IInv, OneTable, Led
  <2>3. CASE i = c /\ (d \notin D \/ table[c][d] # NoTable)
    BY <1>1, <1>4, <2>1, <2>3 DEF IInv, OneTable, Led, get_dentry_table
  <2>4. CASE i = c /\ d \in D /\ table[c][d] = NoTable
    <3>1. lease_dentry_table(c, d).loc = "LOCAL"
      BY <1>1, <1>4, <2>4 DEF get_dentry_table
    <3>2. leader[d] \in {Nil, c}
      BY <3>1, TableKinds DEF lease_dentry_table, Kinds
    <3> QED BY <3>2, <2>1, <2>4
  <2> QED BY <2>2, <2>3, <2>4
<1> QED BY <1>3, <1>4 DEF Led

(* A step that leaves tables tb in the end, and kills processes, leaves    *)
(* only tables of the leaders if tb has no others.                         *)
LEMMA SettleLed ==
  ASSUME NEW c \in Client, NEW o, NEW dead, NEW tb, NEW pe, NEW sp,
         Shaped(tb), Led(tb, leader'), leader' \in Leaders,
         Settle(c, o, dead, tb, pe, sp)
  PROVE  IInv'
<1>1. \A i \in Client : table'[i] = IF i \in dead THEN [d \in Dir |-> NoTable] ELSE tb[i]
  BY DEF Settle
<1>2. Shaped(table)'
  BY <1>1 DEF Settle, Shaped
<1>3. OneTable'
  <2> SUFFICES ASSUME NEW i \in Client, NEW d \in Dir, table'[i][d].loc = "LOCAL"
               PROVE  leader'[d] = i
    BY DEF OneTable, Led
  <2>1. i \notin dead
    BY <1>1, TableKinds DEF Kinds
  <2> QED BY <1>1, <2>1 DEF Led
<1> QED BY <1>2, <1>3 DEF IInv

(* A change leaves the client that does it with its table, or without.     *)
LEMMA ChangeLed ==
  ASSUME NEW c \in Client, NEW s, NEW d, NEW k, NEW held, NEW tb, NEW sp,
         NEW lost \in BOOLEAN,
         Shaped(tb), Led(tb, leader'), leader' \in Leaders,
         held = {} /\ s \in Client /\ d \in Dir => tb[s][d].loc = "LOCAL",
         Change(c, s, d, k, held, tb, sp, lost)
  PROVE  IInv'
<1> DEFINE o == op[c]
           r == Serve(o, k)
           top == o.k = "rmdir" /\ o.ph = "one"
           tn == [i \in Client |-> [e \in Dir |->
              IF i # s THEN tb[i][e]
              ELSE IF e = d /\ top THEN NoTable
              ELSE IF e = d /\ held = {} THEN LocalTable(r.kids)
              ELSE IF o.k = "rmdir" /\ o.ph = "two" /\ e = o.d1 THEN NoTable
              ELSE tb[i][e]]]
<1>1. PICK oo, dead, pe, sq : Settle(c, oo, dead, tn, pe, sq)
  BY Zenon DEF Change
<1>2. Shaped(tn)
  BY DEF Shaped
<1>3. Led(tn, leader')
  <2> SUFFICES ASSUME NEW i \in Client, NEW e \in Dir, tn[i][e].loc = "LOCAL"
               PROVE  leader'[e] = i
    BY DEF Led
  <2>1. tb[i][e].loc = "LOCAL"
    BY TableKinds DEF Kinds
  <2> QED BY <2>1 DEF Led
<1> HIDE DEF tn
<1> QED BY <1>1, <1>2, <1>3, SettleLed

(* A handler that works with another leader's address leaves the tables.   *)
LEMMA MisuseLed ==
  ASSUME NEW c \in Client, NEW s, NEW d, NEW t, NEW tb, NEW sp,
         Shaped(tb), Led(tb, leader'), leader' \in Leaders,
         Misuse(c, s, d, t, tb, sp)
  PROVE  IInv'
<1>1. PICK oo, dead, pe, sq : Settle(c, oo, dead, tb, pe, sq)
  BY Zenon DEF Misuse
<1> QED BY <1>1, SettleLed

-----------------------------------------------------------------------------
(* Nobody has a table, nobody leads. *)
LEMMA InitLed == Init => IInv
BY TableKinds DEF Init, IInv, Leaders, Shaped, OneTable, Led, Kinds

(* A step that leaves tables and leases as they were.                      *)
LEMMA SameLed ==
  ASSUME IInv, UNCHANGED <<leader, table>>
  PROVE  IInv'
BY DEF IInv, Leaders, Shaped, OneTable, Led

(* Looking directories up.  (path_traversal, and what follows it)          *)
LEMMA TraverseLed ==
  ASSUME IInv, NEW c \in Client, NEW D, NEW o, NEW dead, Traverse(c, D, o, dead)
  PROVE  IInv'
BY LeasedType, FetchedLed, SettleLed DEF Traverse

(* What an operation starts with: the tables in memory are the leaders'.   *)
LEMMA TableLed == IInv => Shaped(table) /\ Led(table, leader) /\ leader \in Leaders
BY DEF IInv, OneTable, Led

(* A change done by the client itself.                                     *)
LEMMA LocalLed ==
  ASSUME IInv, NEW c \in Client, local_op(c)
  PROVE  IInv'
<1> DEFINE d == Stage(op[c])
           tb == Fetched(c, {d})
           sp == spoilt \cup Overtaken(c, {d})
<1>1. leader' = Leased(c, {d})
  BY DEF local_op
<1>2. Shaped(tb) /\ Led(tb, leader') /\ leader' \in Leaders
  BY <1>1, LeasedType, FetchedLed
<1>3. d \in Dir => tb[c][d] = get_dentry_table(c, d)
  BY DEF Fetched, IInv, Shaped
<1>4. \/ \E o, dead : Settle(c, o, dead, tb, pend, sp)
      \/ Misuse(c, c, d, get_dentry_table(c, d), tb, sp)
      \/ get_dentry_table(c, d).loc = "LOCAL"
         /\ Change(c, c, d, get_dentry_table(c, d).kids, {}, tb, sp, FALSE)
  BY Zenon DEF local_op
<1> HIDE DEF d, tb, sp
<1>5. CASE \E o, dead : Settle(c, o, dead, tb, pend, sp)
  BY <1>2, <1>5, SettleLed
<1>6. CASE Misuse(c, c, d, get_dentry_table(c, d), tb, sp)
  BY <1>2, <1>6, MisuseLed
<1>7. CASE get_dentry_table(c, d).loc = "LOCAL"
           /\ Change(c, c, d, get_dentry_table(c, d).kids, {}, tb, sp, FALSE)
  BY <1>2, <1>3, <1>7, ChangeLed
<1> QED BY <1>4, <1>5, <1>6, <1>7

(* A request that arrives, and work on a dropped table.  The handler never *)
(* takes a lease.                                                          *)
LEMMA RemoteLed ==
  ASSUME IInv, NEW c \in Client, remote_op(c) \/ late_op(c) \/ Lose(c)
  PROVE  IInv'
<1> DEFINE d == Stage(op[c])
           Acts(s) ==
             \/ \E o, dead : Settle(c, o, dead, table, pend, spoilt)
             \/ \E t : Misuse(c, s, d, t, table, spoilt)
             \/ \E lost \in BOOLEAN : \E k, held :
                  /\ held = {} => table[s][d].loc = "LOCAL"
                  /\ Change(c, s, d, k, held, table, spoilt, lost)
<1>1. leader' = leader
  BY DEF remote_op, late_op, Lose
<1>2. Shaped(table) /\ Led(table, leader') /\ leader' \in Leaders
  BY <1>1, TableLed
<1>3. \E s : Acts(s)
  <2>1. CASE remote_op(c)
    BY <2>1, Zenon DEF remote_op
  <2>2. CASE late_op(c)
    <3>1. \E t \in op[c].old : \E s :
             \/ Misuse(c, s, d, t, table, spoilt)
             \/ Change(c, s, d, t.kids, {t}, table, spoilt, FALSE)
             \/ \E dead : Settle(c, Idle, dead, table, pend, spoilt)
      BY <2>2, Zenon DEF late_op
    <3>2. PICK t \in op[c].old : \E s :
             \/ Misuse(c, s, d, t, table, spoilt)
             \/ Change(c, s, d, t.kids, {t}, table, spoilt, FALSE)
             \/ \E dead : Settle(c, Idle, dead, table, pend, spoilt)
      BY <3>1
    <3>3. {t} # {}
      OBVIOUS
    <3> QED BY <3>2, <3>3, Zenon
  <2>3. CASE Lose(c)
    <3>1. \/ Settle(c, Idle, Victims(c), table, pend, spoilt)
          \/ \E s : /\ table[s][d].loc = "LOCAL"
                    /\ Change(c, s, d, table[s][d].kids, {}, table, spoilt, TRUE)
          \/ \E s, u : Change(c, s, d, u.kids, {u}, table, spoilt, TRUE)
      BY <2>3, Zenon DEF Lose
    <3>2. \A u : {u} # {}
      OBVIOUS
    <3> QED BY <3>1, <3>2, Zenon
  <2> QED BY <2>1, <2>2, <2>3
<1>4. PICK s : Acts(s)
  BY <1>3
<1> HIDE DEF d
<1>5. CASE \E o, dead : Settle(c, o, dead, table, pend, spoilt)
  BY <1>2, <1>5, SettleLed
<1>6. CASE \E t : Misuse(c, s, d, t, table, spoilt)
  BY <1>2, <1>6, MisuseLed
<1>7. CASE \E lost \in BOOLEAN : \E k, held :
             /\ held = {} => table[s][d].loc = "LOCAL"
             /\ Change(c, s, d, k, held, table, spoilt, lost)
  BY <1>2, <1>7, ChangeLed
<1> QED BY <1>4, <1>5, <1>6, <1>7

(* Asking for the leader again.                                            *)
LEMMA AgainLed ==
  ASSUME IInv, NEW c \in Client, find_remote_dentry_table_again(c)
  PROVE  IInv'
<1> DEFINE d == Stage(op[c])
<1>1. CASE UNCHANGED <<leader, table>>
  BY <1>1, SameLed
<1>2. CASE ~UNCHANGED <<leader, table>>
  <2>1. leader' = Leased(c, {d})
        /\ \E o : Settle(c, o, {}, Fetched(c, {d}), pend, spoilt \cup Overtaken(c, {d}))
    BY <1>2, Zenon DEF find_remote_dentry_table_again
  <2> HIDE DEF d
  <2> QED BY <2>1, LeasedType, FetchedLed, SettleLed
<1> QED BY <1>1, <1>2

(* The maker of a directory puts an empty table in memory only with the    *)
(* lease.                                                                  *)
LEMMA MkdirLed ==
  ASSUME IInv, NEW c \in Client, lease_dentry_table_mkdir(c)
  PROVE  IInv'
<1> DEFINE x == op[c].x
           tn == IF table[c][x] = NoTable
                   THEN [table EXCEPT ![c][x] = LocalTable(NoKids)] ELSE table
<1>1. CASE leader[x] \in {Nil, c}
  <2>1. leader' = [leader EXCEPT ![x] = c] /\ \E sp : Settle(c, Idle, {}, tn, pend, sp)
    BY <1>1, Zenon DEF lease_dentry_table_mkdir
  <2>2. leader' \in Leaders
    BY <2>1 DEF IInv, Leaders
  <2>3. Shaped(tn)
    BY DEF IInv, Shaped
  <2>4. ASSUME NEW i \in Client, NEW e \in Dir, tn[i][e].loc = "LOCAL"
        PROVE  leader'[e] = i
    <3>1. CASE i = c /\ e = x
      BY <2>1, <3>1 DEF IInv, Leaders
    <3>2. CASE ~(i = c /\ e = x)
      <4>1. tn[i][e] = table[i][e]
        BY <3>2 DEF IInv, Shaped
      <4>2. leader[e] = i
        BY <2>4, <4>1 DEF IInv, OneTable, Led
      <4>3. e # x
        BY <1>1, <3>2, <4>2, DistinctAssumption
      <4> QED BY <2>1, <4>2, <4>3 DEF IInv, Leaders
    <3> QED BY <3>1, <3>2
  <2>5. Led(tn, leader')
    BY <2>4 DEF Led
  <2> HIDE DEF tn
  <2> QED BY <2>1, <2>2, <2>3, <2>5, SettleLed
<1>2. CASE leader[x] \notin {Nil, c}
  BY <1>2, TableLed, SettleLed DEF lease_dentry_table_mkdir
<1> QED BY <1>1, <1>2

(* A lease that runs out takes the table with it.                          *)
LEMMA LapseLed ==
  ASSUME IInv, NEW d \in Dir, Lapse(d)
  PROVE  IInv'
<1>1. \A i \in Client, e \in Dir : table'[i][e] = IF e = d THEN NoTable ELSE table[i][e]
  BY DEF Lapse, IInv, Shaped
<1>2. leader' \in Leaders /\ Shaped(table)'
  BY DEF Lapse, IInv, Leaders, Shaped
<1>3. OneTable'
  BY <1>1, TableKinds DEF Lapse, IInv, Leaders, OneTable, Led, Kinds
<1> QED BY <1>2, <1>3 DEF IInv

(* A refusal with the client's own address is no lease.                    *)
LEMMA BehindLed ==
  ASSUME IInv, NEW c \in Client, acquire_behind(c)
  PROVE  IInv'
<1>1. PICK d \in fresh : table' = [table EXCEPT ![c][d] = RemoteTable(c)]
  BY DEF acquire_behind
<1>2. leader' = leader
  BY DEF acquire_behind
<1>3. Shaped(table)'
  BY <1>1 DEF IInv, Shaped
<1>4. ASSUME NEW i \in Client, NEW e \in Dir, table'[i][e].loc = "LOCAL"
      PROVE  table[i][e].loc = "LOCAL"
  BY <1>1, <1>4, TableKinds DEF IInv, Shaped, Kinds
<1> QED BY <1>2, <1>3, <1>4 DEF IInv, OneTable, Led

(* A client that mounts again.  (the constructor of directory_table)       *)
LEMMA MountLed ==
  ASSUME IInv, NEW c \in Client, directory_table(c)
  PROVE  IInv'
BY LeasedType, FetchedLed DEF directory_table, IInv, Led, OneTable

(* Every step of the clients, whatever they do and whoever dies.           *)
LEMMA NextLed == IInv /\ [Next]_vars => IInv'
<1> SUFFICES ASSUME IInv, [Next]_vars PROVE IInv'
  OBVIOUS
<1>1. ASSUME NEW c \in Client, Call(c) PROVE IInv'
  <2>1. \E o : Begin(c, o)
    BY <1>1, Zenon DEF Call, create, symlink, unlink, readdir, mkdir, rmdir, rename
  <2> QED BY <2>1, SameLed DEF Begin
<1>2. ASSUME NEW c \in Client, path_traversal(c) \/ rmdir_find(c) PROVE IInv'
  <2>1. \E D, o, dead : Traverse(c, D, o, dead)
    <3>1. CASE path_traversal(c)
      BY <3>1, Zenon DEF path_traversal
    <3>2. CASE rmdir_find(c)
      BY <3>2, Zenon DEF rmdir_find
    <3> QED BY <1>2, <3>1, <3>2
  <2> QED BY <2>1, TraverseLed
<1>3. ASSUME NEW c \in Client, getattr(c) PROVE IInv'
  <2>1. \E D, dead, sp : leader' = Leased(c, D) /\ Settle(c, op[c], dead, Fetched(c, D), pend, sp)
    BY <1>3, Zenon DEF getattr
  <2> QED BY <2>1, LeasedType, FetchedLed, SettleLed
<1>4. ASSUME NEW c \in Client, need_recov(c) \/ Crash(c) \/ (\E d \in Dir : Checkpoint(c, d))
      PROVE  IInv'
  <2>1. leader' = leader /\ \E o, dead, pe : Settle(c, o, dead, table, pe, spoilt)
    <3>1. CASE need_recov(c)
      BY <3>1, Zenon DEF need_recov
    <3>2. CASE Crash(c)
      BY <3>2, Zenon DEF Crash
    <3>3. CASE \E d \in Dir : Checkpoint(c, d)
      BY <3>3, Zenon DEF Checkpoint
    <3> QED BY <1>4, <3>1, <3>2, <3>3
  <2> QED BY <2>1, TableLed, SettleLed
<1>5. CASE UNCHANGED vars
  BY <1>5, SameLed DEF vars
<1>6. ASSUME NEW c \in Client, Step(c) PROVE IInv'
  BY <1>2, <1>4, <1>6, LocalLed, RemoteLed, AgainLed, MkdirLed DEF Step
<1> QED BY <1>1, <1>3, <1>4, <1>5, <1>6, RemoteLed, BehindLed, LapseLed, MountLed DEF Next

-----------------------------------------------------------------------------
(* What the variables hold.                                                *)

Kids == [Name -> Ino \cup {Nil}]

Recs == [Name -> Ino \cup {Nil, Keep}]

Tables == {NoTable} \cup {LocalTable(k) : k \in Kids} \cup {RemoteTable(s) : s \in Client}

Pends == [self : {"same", "made", "gone"}, kids : Recs]

Objects == [made : BOOLEAN, kids : Kids]

Sites == Client \cup {Nil, Here}

Opt(S) == S \cup {Nil}

OpRecords ==
  [k : {"idle", "create", "symlink", "unlink", "readdir", "mkdir", "rmdir", "rename"},
   ph : {"idle", "path1", "path2", "one", "take", "two", "lease", "stuck"},
   p : Opt(Name), n : Opt(Name), q : Opt(Name), m : Opt(Name), x : Opt(Ino), seen : Opt(Ino),
   d1 : Dir, at1 : Sites, d2 : Dir, at2 : Sites, old : SUBSET Tables]

(* An operation has the names and the file that its kind and phase need:   *)
(* only a rename that has looked its file up carries one it has not made.  *)
Sound(o) ==
  /\ o.k = "idle" => o = Idle
  /\ o.k \notin {"idle", "readdir"} => o.n \in Name
  /\ o.k = "rename" => o.m \in Name
  /\ o.k = "rename" => (o.p # o.q \/ o.n # o.m)
  /\ o.k = "mkdir" => o.x \in SubDir
  /\ o.k \in {"create", "symlink"} => o.x \in File
  /\ o.k \notin {"mkdir", "create", "symlink", "rename"} => o.x = Nil
  /\ o.k = "rename" => (o.x = Nil \/ o.ph \in {"take", "two", "stuck"})
  /\ o.ph = "lease" => o.k = "mkdir"
  /\ o.ph \in {"path2", "take"} => o.k = "rename"
  /\ o.ph = "two" => o.k \in {"rmdir", "rename"}
  /\ o.ph = "two" /\ o.k = "rename" => o.p # o.q
  /\ o.ph = "idle" => o.k = "idle"

Ops == {o \in OpRecords : Sound(o)}

Busy == \A c \in Client : op[c] # Idle => c \in up

Typed ==
  /\ leader \in Leaders /\ fresh \subseteq Dir
  /\ table \in [Client -> [Dir -> Tables]]
  /\ pend \in [Client -> [Dir -> Pends]]
  /\ pool \in [Dir -> Objects]
  /\ op \in [Client -> Ops]
  /\ Busy
  /\ up \subseteq Client
  /\ used \subseteq Ino
  /\ spoilt \subseteq Dir /\ crossed \subseteq File
  /\ truth \in [Dir -> Kids]
  /\ work \in 0..MaxWork

(* What is read off a table: its kind, its address and its entries.        *)
LEMMA TableParts ==
  /\ NoTable \in Tables
  /\ \A k \in Kids : LocalTable(k) \in Tables /\ LocalTable(k).kids = k
                       /\ LocalTable(k).loc = "LOCAL"
  /\ \A s \in Client : RemoteTable(s) \in Tables /\ RemoteTable(s).loc = "REMOTE"
                       /\ RemoteTable(s).ip = s
  /\ NoTable.loc = "none"
  /\ \A t \in Tables :
       /\ t.kids \in Kids /\ t.ip \in Client \cup {Nil}
       /\ t.loc = "REMOTE" => t.ip \in Client
       /\ t.loc = "none" => t = NoTable
       /\ t.loc \in {"none", "LOCAL", "REMOTE"}
       /\ t = LocalTable(t.kids) \/ t = RemoteTable(t.ip) \/ t = NoTable
<1>1. NoKids \in Kids
  BY DEF NoKids, Kids
<1> QED BY <1>1 DEF Tables, NoTable, LocalTable, RemoteTable

(* Nothing journaled, nothing done.                                        *)
LEMMA EmptyParts ==
  /\ NoKids \in Kids
  /\ NoPend \in Pends /\ NoPend.self = "same" /\ NoPend.kids = NoChange
  /\ NoChange \in Recs /\ \A n \in Name : NoChange[n] = Keep
BY DEF NoKids, Kids, NoPend, NoChange, Pends, Recs

(* An operation that has ended is sound.                                   *)
LEMMA IdleParts ==
  Idle \in Ops /\ Idle.k = "idle" /\ Idle.ph = "idle" /\ Idle.x = Nil /\ Idle.old = {}
BY DistinctAssumption DEF Idle, Ops, OpRecords, Sound, Opt, Sites, Dir, Ino

(* The invariant says what TypeOK does.                                    *)
LEMMA TypedIsTypeOK == Typed => TypeOK
<1> SUFFICES ASSUME Typed PROVE TypeOK
  OBVIOUS
<1>1. ASSUME NEW c \in Client, NEW d \in Dir
      PROVE  /\ table[c][d] = LocalTable(table[c][d].kids)
                  \/ table[c][d] = RemoteTable(table[c][d].ip) \/ table[c][d] = NoTable
             /\ table[c][d].kids \in [Name -> Ino \cup {Nil}]
             /\ table[c][d].loc = "REMOTE" => table[c][d].ip \in Client
             /\ pend[c][d].self \in {"same", "made", "gone"}
             /\ pend[c][d].kids \in [Name -> Ino \cup {Nil, Keep}]
  <2>1. table[c][d] \in Tables /\ pend[c][d] \in Pends
    BY DEF Typed
  <2> QED BY <2>1, TableParts DEF Kids, Recs, Pends
<1>2. ASSUME NEW c \in Client
      PROVE  /\ op[c].ph \in {"idle", "path1", "path2", "one", "take", "two", "lease", "stuck"}
             /\ {op[c].d1, op[c].d2} \subseteq Dir
             /\ {op[c].at1, op[c].at2} \subseteq Client \cup {Nil, Here}
             /\ \A t \in op[c].old : t.kids \in [Name -> Ino \cup {Nil}]
  <2>1. op[c] \in OpRecords
    BY DEF Typed, Ops
  <2>2. op[c].old \subseteq Tables
    BY <2>1 DEF OpRecords
  <2> QED BY <2>1, <2>2, TableParts DEF OpRecords, Sites, Kids
<1> QED BY <1>1, <1>2 DEF Typed, TypeOK, Leaders, Objects, Kids

-----------------------------------------------------------------------------
(* The operators the steps are built from.                                 *)

(* A table that is fetched is one of the three kinds.                      *)
LEMMA GetType ==
  ASSUME Typed, NEW c \in Client, NEW d \in Dir
  PROVE  get_dentry_table(c, d) \in Tables
<1>1. leader[d] \in Client \cup {Nil} /\ table[c][d] \in Tables /\ pool[d].kids \in Kids
  BY DEF Typed, Leaders, Objects
<1> QED BY <1>1, TableParts DEF get_dentry_table, lease_dentry_table

(* The tables after a fetch.                                               *)
LEMMA FetchedType ==
  ASSUME Typed, NEW c \in Client, NEW D
  PROVE  /\ Fetched(c, D) \in [Client -> [Dir -> Tables]]
         /\ \A d \in Dir : Fetched(c, D)[c][d] = IF d \in D THEN get_dentry_table(c, d) ELSE table[c][d]
         /\ \A i \in Client \ {c}, d \in Dir : Fetched(c, D)[i][d] = table[i][d]
         /\ Leased(c, D) \in Leaders
         /\ Overtaken(c, D) \subseteq D
<1>1. \A d \in Dir : get_dentry_table(c, d) \in Tables
  BY GetType
<1> QED BY <1>1 DEF Fetched, Leased, Overtaken, Typed, Leaders

(* Fetching nothing changes nothing.                                       *)
LEMMA FetchNone ==
  ASSUME Typed, NEW c \in Client
  PROVE  Fetched(c, {}) = table /\ Leased(c, {}) = leader /\ spoilt \cup Overtaken(c, {}) = spoilt
<1>1. Leased(c, {}) = leader
  BY DEF Leased, Typed, Leaders
<1>2. Fetched(c, {}) = table
  BY DEF Fetched, Typed
<1> QED BY <1>1, <1>2 DEF Overtaken

(* What a handler that says ok has put in the table and in the journal:    *)
(* names it did not journal are as they were.                              *)
Served(r, k) ==
  /\ r.kids \in Kids /\ r.rec \in Recs
  /\ \A n \in Name : r.rec[n] = Keep => r.kids[n] = k[n]

(* A refusal leaves the table.                                             *)
LEMMA RefuseServed ==
  ASSUME NEW k \in Kids, NEW ret
  PROVE  Served(Refuse(ret, k), k)
BY EmptyParts DEF Refuse, Served

(* Making an entry.  (dentry_table::create_child_inode)                    *)
LEMMA EnterServed ==
  ASSUME NEW k \in Kids, NEW n \in Name, NEW x \in Ino \cup {Nil}
  PROVE  Served(Enter(k, n, x), k)
BY EmptyParts, DistinctAssumption DEF Enter, Served, Kids, Recs

(* Making an entry where another one was.                                  *)
LEMMA ReplaceServed ==
  ASSUME NEW k \in Kids, NEW n \in Name, NEW x \in Ino \cup {Nil}
  PROVE  Served(Enter([k EXCEPT ![n] = Nil], n, x), k)
BY EmptyParts, DistinctAssumption DEF Enter, Served, Kids, Recs

(* Removing an entry.  (dentry_table::delete_child_inode)                  *)
LEMMA DropServed ==
  ASSUME NEW k \in Kids, NEW n \in Name
  PROVE  Served(Drop(k, n), k)
BY EmptyParts, DistinctAssumption DEF Drop, Served, Kids, Recs

(* Every handler.                                                          *)
LEMMA ServeServed ==
  ASSUME NEW o \in Ops, Staged(o), NEW k \in Kids
  PROVE  Served(Serve(o, k), k)
<1>0. o \in OpRecords /\ Sound(o) /\ o.k # "idle"
  BY IdleParts DEF Ops, Sound, Staged
<1>1. o.x \in Ino \cup {Nil} /\ (o.k # "readdir" => o.n \in Name) /\ (o.k = "rename" => o.m \in Name)
  BY <1>0 DEF Sound, OpRecords, Opt
<1>2. CASE o.k = "create"
  BY <1>1, <1>2, EnterServed DEF Serve, rpc_create
<1>3. CASE o.k = "symlink"
  BY <1>1, <1>3, EnterServed, RefuseServed DEF Serve, rpc_symlink
<1>4. CASE o.k = "unlink"
  BY <1>1, <1>4, DropServed, RefuseServed DEF Serve, rpc_unlink
<1>5. CASE o.k = "mkdir"
  BY <1>1, <1>5, EnterServed DEF Serve, rpc_mkdir
<1>6. CASE o.k = "readdir"
  BY <1>6, RefuseServed DEF Serve, rpc_readdir
<1>7. CASE o.k = "rmdir" /\ o.ph = "one"
  <2>1. Served([Refuse("ok", k) EXCEPT !.kids = NoKids], k) \/ k # NoKids
    BY EmptyParts DEF Refuse, Served
  <2> QED BY <1>7, <2>1, RefuseServed DEF Serve, rpc_rmdir_top
<1>8. CASE o.k = "rmdir" /\ o.ph # "one"
  BY <1>1, <1>8, DropServed DEF Serve, rpc_rmdir_down
<1>9. CASE o.k = "rename" /\ o.ph = "one"
  BY <1>1, <1>9, RefuseServed DEF Serve, rpc_rename_lookup
<1>10. CASE o.k = "rename" /\ o.ph = "two"
  BY <1>1, <1>10, EnterServed, ReplaceServed, RefuseServed DEF Serve, rpc_rename_not_same_parent_dst
<1>11. CASE o.k = "rename" /\ o.ph = "take" /\ o.p = o.q
  <2>1. Served([ret |-> "ok", kids |-> [k EXCEPT ![o.n] = Nil, ![o.m] = o.x],
                 rec |-> [NoChange EXCEPT ![o.n] = Nil, ![o.m] = o.x]], k)
    BY <1>1, <1>11, EmptyParts, DistinctAssumption DEF Served, Kids, Recs
  <2> QED BY <1>11, <2>1 DEF Serve, rpc_rename_same_parent
<1>12. CASE o.k = "rename" /\ o.ph = "take" /\ o.p # o.q
  BY <1>1, <1>12, DropServed DEF Serve, rpc_rename_not_same_parent_src
<1> QED BY <1>0, <1>2, <1>3, <1>4, <1>5, <1>6, <1>7, <1>8, <1>9, <1>10, <1>11, <1>12 DEF OpRecords, Staged

(* A directory is removed only when it is empty, and nothing of its        *)
(* entries is journaled.  (rpc_rmdir_top)                                  *)
LEMMA TopEmpty ==
  ASSUME NEW o, NEW k, o.k = "rmdir", o.ph = "one", Serve(o, k).ret = "ok"
  PROVE  k = NoKids /\ Serve(o, k).rec = NoChange
<1>1. Serve(o, k) = rpc_rmdir_top(o, k)
  BY DEF Serve
<1> QED BY <1>1 DEF rpc_rmdir_top, Refuse

(* An operation goes on soundly from a step that was done.                 *)
LEMMA AfterType ==
  ASSUME NEW o \in Ops, Staged(o), NEW k \in Kids, NEW held \in SUBSET Tables
  PROVE  After(o, k, held) \in Ops
<1>0. o \in OpRecords /\ Sound(o) /\ o.k # "idle"
  BY IdleParts DEF Ops, Sound, Staged
<1>1. CASE o.k = "mkdir"
  <2>1. [o EXCEPT !.ph = "lease", !.old = {}] \in OpRecords
    BY <1>0 DEF OpRecords
  <2>2. Sound([o EXCEPT !.ph = "lease", !.old = {}])
    BY <1>0, <1>1 DEF Sound, OpRecords
  <2> QED BY <1>1, <2>1, <2>2 DEF After, Ops
<1>2. CASE o.k = "rmdir" /\ o.ph = "one"
  <2>1. [o EXCEPT !.ph = "two", !.old = {}] \in OpRecords
    BY <1>0 DEF OpRecords
  <2>2. Sound([o EXCEPT !.ph = "two", !.old = {}])
    BY <1>0, <1>2 DEF Sound, OpRecords
  <2> QED BY <1>2, <2>1, <2>2 DEF After, Ops
<1>3. CASE o.k = "rename" /\ o.ph = "one"
  <2>0. k[o.n] \in Ino \cup {Nil}
    BY <1>0, <1>3 DEF Sound, Kids
  <2>1. [o EXCEPT !.ph = "take", !.x = k[o.n], !.old = held] \in OpRecords
    BY <1>0, <2>0 DEF OpRecords, Opt
  <2>2. Sound([o EXCEPT !.ph = "take", !.x = k[o.n], !.old = held])
    BY <1>0, <1>3 DEF Sound, OpRecords
  <2> QED BY <1>3, <2>1, <2>2 DEF After, Ops
<1>4. CASE o.k = "rename" /\ o.ph = "take" /\ o.p # o.q
  <2>1. [o EXCEPT !.ph = "two", !.old = {}] \in OpRecords
    BY <1>0 DEF OpRecords
  <2>2. Sound([o EXCEPT !.ph = "two", !.old = {}])
    BY <1>0, <1>4 DEF Sound, OpRecords
  <2> QED BY <1>4, <2>1, <2>2 DEF After, Ops
<1> QED BY <1>1, <1>2, <1>3, <1>4, IdleParts DEF After

-----------------------------------------------------------------------------
(* The kinds of step.  Every step that ends with Settle fetches the tables *)
(* of some directories D first, a handler those of none.                   *)

(* Where a step that changes nothing leaves the operation of c.            *)
Goes(c, o) ==
  /\ o \in Ops
  /\ o # Idle => /\ c \in up
                 /\ o.k = op[c].k /\ o.x = op[c].x
                 /\ o.ph = "two" <=> op[c].ph = "two"
                 /\ o.ph = "two" => o.d1 = op[c].d1
                 /\ o.ph = "take" => op[c].ph = "take"
                 /\ o.old \subseteq op[c].old

Spoils(c, D) == spoilt \cup Overtaken(c, D)

(* c looks directories up, refuses or fails, and some processes die.       *)
Looks(c, D, o, dead) ==
  /\ Goes(c, o) /\ (D = {} \/ c \in up) /\ leader' = Leased(c, D)
  /\ Settle(c, o, dead, Fetched(c, D), pend, Spoils(c, D))
  /\ UNCHANGED <<fresh, pool, used, truth, crossed>>

Acting(c) == Staged(op[c])

(* The entries k that client s works on for c: those of the table it has,  *)
(* or of a table it has dropped.                                           *)
Works(c, s, D, k, held) ==
  \/ /\ held = {}
     /\ Fetched(c, D)[s][Stage(op[c])].loc = "LOCAL" /\ k = Fetched(c, D)[s][Stage(op[c])].kids
  \/ \E t \in op[c].old : held = {t} /\ k = t.kids

(* A client s that has or had the table does a change for c, which may not *)
(* hear of it.                                                             *)
Does(c, s, D, k, held, lost) ==
  LET d == Stage(op[c])
  IN  /\ Acting(c) /\ Works(c, s, D, k, held)
      /\ leader' = Leased(c, D)
      /\ Change(c, s, d, k, held, Fetched(c, D), Spoils(c, D), lost)
      /\ lost => work' # work
      /\ UNCHANGED <<fresh, pool, used>>

(* Where the operation goes from a removal that was only journaled.        *)
Beyond(o) == IF o.k = "rename" THEN [o EXCEPT !.ph = "two", !.old = {}] ELSE Idle

(* A client s that has only an address journals a removal.                 *)
Jots(c, s, D) ==
  LET d == Stage(op[c])
  IN  /\ Acting(c)
      /\ op[c].k \in {"unlink", "rmdir", "rename"}
      /\ op[c].k = "rename" => op[c].ph = "one" /\ op[c].p # op[c].q
      /\ op[c].k = "rmdir" => op[c].ph = "two"
      /\ leader' = Leased(c, D)
      /\ Settle(c, Beyond(op[c]), {}, Fetched(c, D),
                [pend EXCEPT ![s][d].kids[op[c].n] = Nil], Spoils(c, D) \cup {d})
      /\ UNCHANGED <<fresh, pool, used, truth, crossed>>

(* The maker of a directory gets its lease.                                *)
Leads(c) ==
  LET x == op[c].x
      new == table[c][x] = NoTable
  IN  /\ op[c].ph = "lease" /\ leader[x] \in {Nil, c}
      /\ leader' = [leader EXCEPT ![x] = c]
      /\ Settle(c, Idle, {},
           IF new THEN [table EXCEPT ![c][x] = LocalTable(NoKids)] ELSE table, pend,
           spoilt \cup IF new /\ (truth[x] # NoKids \/ Journaled(x)) THEN {x} ELSE {})
      /\ UNCHANGED <<fresh, pool, used, truth, crossed>>

(* What c has journaled for d is written.                                  *)
Saves(c, d) ==
  LET p == pend[c][d]
  IN  /\ p # NoPend
      /\ p.self = "same" => pool[d].made
      /\ pool' = [pool EXCEPT ![d] =
                    IF p.self = "gone" THEN [made |-> FALSE, kids |-> NoKids]
                    ELSE [made |-> TRUE, kids |-> Overlay(@.kids, p)]]
      /\ Settle(c, op[c], {}, table, [pend EXCEPT ![c][d] = NoPend], spoilt)
      /\ UNCHANGED <<leader, fresh, used, truth, crossed>>

Looking(c) == \E D \in SUBSET Dir, o \in Ops, dead \in SUBSET Client : Looks(c, D, o, dead)

Doing(c) == \E s \in Client, D \in SUBSET Dir, lost \in BOOLEAN : \E k, held :
              Does(c, s, D, k, held, lost)

Jotting(c) == \E s \in Client, D \in SUBSET Dir : Jots(c, s, D)

(* A step of c, in one of these forms.                                     *)
Formed(c) == Looking(c) \/ Doing(c) \/ Jotting(c) \/ Leads(c)

(* An operation is sound, and its client runs when it acts.                *)
LEMMA OpParts ==
  ASSUME Typed, NEW c \in Client
  PROVE  /\ op[c] \in Ops /\ op[c] \in OpRecords /\ Sound(op[c])
         /\ Stage(op[c]) \in Dir /\ Address(op[c]) \in Sites
         /\ op[c].ph # "idle" => op[c] # Idle /\ c \in up /\ op[c].k # "idle"
         /\ op[c].d1 \in Dir
         /\ Goes(c, Idle) /\ Goes(c, op[c])
         /\ Victims(c) \subseteq Client /\ NoEntryVictims(c) \subseteq Client
<1>1. op[c] \in Ops /\ (op[c] # Idle => c \in up)
  BY DEF Typed, Busy
<1>2. op[c] \in OpRecords /\ Sound(op[c])
  BY <1>1 DEF Ops
<1>3. Stage(op[c]) \in Dir /\ Address(op[c]) \in Sites /\ op[c].d1 \in Dir
  BY <1>2 DEF OpRecords, Stage, Address
<1>4. op[c].ph # "idle" => op[c] # Idle /\ op[c].k # "idle"
  BY <1>2, IdleParts DEF Sound
<1>5. Goes(c, Idle) /\ Goes(c, op[c])
  BY <1>1, IdleParts DEF Goes
<1> QED BY <1>1, <1>2, <1>3, <1>4, <1>5 DEF Victims, NoEntryVictims

(* A step that fetches nothing and changes nothing.                        *)
LEMMA LooksNone ==
  ASSUME Typed, NEW c \in Client, NEW o, NEW dead \in SUBSET Client, Goes(c, o),
         Settle(c, o, dead, table, pend, spoilt),
         UNCHANGED <<leader, fresh, pool, used, truth, crossed>>
  PROVE  Looking(c)
<1>1. Looks(c, {}, o, dead)
  BY FetchNone DEF Looks, Spoils
<1>2. o \in Ops
  BY DEF Goes
<1> QED BY <1>1, <1>2 DEF Looking

(* To hang, and to go on without the file, are sound.                      *)
LEMMA StuckType ==
  ASSUME Typed, NEW c \in Client, op[c] # Idle, op[c].ph # "two"
  PROVE  Stuck(op[c]) \in Ops /\ Goes(c, Stuck(op[c]))
<1> DEFINE o == op[c]
<1>1. o \in OpRecords /\ Sound(o) /\ c \in up
  BY DEF Typed, Busy, Ops
<1>2. Stuck(o) \in OpRecords
  BY <1>1 DEF OpRecords, Stuck
<1>3. Sound(Stuck(o))
  BY <1>1 DEF Sound, OpRecords, Stuck
<1> QED BY <1>1, <1>2, <1>3 DEF Goes, Ops, OpRecords, Stuck

(* The removal of a directory or the source of a rename.                   *)
LEMMA BeyondType ==
  ASSUME Typed, NEW c \in Client, op[c].k = "rename" => op[c].ph = "one" /\ op[c].p # op[c].q
  PROVE  Beyond(op[c]) \in Ops
<1> DEFINE o == op[c]
<1>1. o \in OpRecords /\ Sound(o)
  BY DEF Typed, Ops
<1>2. CASE o.k = "rename"
  <2>1. Beyond(o) \in OpRecords
    BY <1>1, <1>2 DEF OpRecords, Beyond
  <2>2. Sound(Beyond(o))
    BY <1>1, <1>2 DEF Sound, OpRecords, Beyond
  <2> QED BY <2>1, <2>2 DEF Ops
<1> QED BY <1>2, IdleParts DEF Beyond

(* What a handler does with the tables of a fetch: it changes, journals a  *)
(* removal, hangs, or ends.                                                *)
LEMMA MisuseForm ==
  ASSUME Typed, NEW c \in Client, NEW s \in Client, NEW D \in SUBSET Dir, Acting(c), NEW t,
         leader' = Leased(c, D),
         Misuse(c, s, Stage(op[c]), t, Fetched(c, D), Spoils(c, D)),
         UNCHANGED <<fresh, pool, used>>
  PROVE  Formed(c)
<1> DEFINE o == op[c]
           d == Stage(o)
           tb == Fetched(c, D)
           sp == Spoils(c, D)
           noted == [pend EXCEPT ![s][d].kids[o.n] = Nil]
           asks == o.k = "symlink" \/ (o.k = "rename" /\ o.p = o.q)
           quiet == o.k = "unlink" \/ (o.k = "rmdir" /\ o.ph = "two")
                      \/ (o.k = "rename" /\ o.p # o.q /\ o.ph = "one")
<1>1. UNCHANGED <<truth, crossed>>
  BY DEF Misuse
<1>2. \/ \E dead \in SUBSET Client : Settle(c, Idle, dead, tb, pend, sp)
      \/ asks /\ Settle(c, Stuck(o), {}, tb, pend, sp)
      \/ quiet /\ Settle(c, Beyond(o), {}, tb, noted, sp \cup {d})
  <2>1. {c} \cap {s} \in SUBSET Client /\ {} \in SUBSET Client
        /\ Victims(c) \in SUBSET Client /\ {s} \cup Victims(c) \in SUBSET Client
    BY OpParts
  <2> HIDE DEF tb, sp
  <2>2. \/ Settle(c, Idle, {c} \cap {s}, tb, pend, sp)
        \/ Settle(c, Idle, {}, tb, pend, sp)
        \/ asks /\ Settle(c, Stuck(o), {}, tb, pend, sp)
        \/ Settle(c, Idle, Victims(c), tb, pend, sp)
        \/ Settle(c, Idle, {s} \cup Victims(c), tb, pend, sp)
        \/ quiet /\ Settle(c, IF o.k = "rename" THEN [o EXCEPT !.ph = "two", !.old = {}] ELSE Idle,
                           {}, tb, noted, sp \cup {d})
    BY Zenon DEF Misuse, tb, sp
  <2> HIDE DEF noted, o, d, asks, quiet
  <2> QED BY <2>1, <2>2, Zenon DEF Beyond
<1>3. CASE \E dead \in SUBSET Client : Settle(c, Idle, dead, tb, pend, sp)
  <2>1. PICK dead \in SUBSET Client : Settle(c, Idle, dead, tb, pend, sp)
    BY <1>3
  <2>2. Looks(c, D, Idle, dead)
    BY <1>1, <2>1, OpParts DEF Looks, Acting, Staged
  <2> QED BY <2>2, IdleParts DEF Formed, Looking
<1>4. CASE asks /\ Settle(c, Stuck(o), {}, tb, pend, sp)
  <2>1. o # Idle /\ c \in up /\ Sound(o)
    BY OpParts DEF Acting, Staged
  <2>2. o.ph # "two"
    BY <1>4, <2>1 DEF Sound
  <2>3. Stuck(o) \in Ops /\ Goes(c, Stuck(o))
    BY <2>1, <2>2, StuckType
  <2> HIDE DEF asks
  <2>4. Looks(c, D, Stuck(o), {})
    BY <1>1, <1>4, <2>1, <2>3 DEF Looks
  <2>5. {} \in SUBSET Client
    OBVIOUS
  <2> QED BY <2>3, <2>4, <2>5 DEF Formed, Looking
<1>5. CASE quiet /\ Settle(c, Beyond(o), {}, tb, noted, sp \cup {d})
  <2>1. Jots(c, s, D)
    BY <1>1, <1>5 DEF Jots
  <2> QED BY <2>1 DEF Formed, Jotting
<1> QED BY <1>2, <1>3, <1>4, <1>5

(* A change done by the client itself.                                     *)
LEMMA LocalForm ==
  ASSUME Typed, NEW c \in Client, local_op(c)
  PROVE  Formed(c)
<1> DEFINE o == op[c]
           d == Stage(o)
           tb == Fetched(c, {d})
           sp == Spoils(c, {d})
           t == get_dentry_table(c, d)
<1>1. d \in Dir /\ {d} \in SUBSET Dir /\ NoEntryVictims(c) \in SUBSET Client /\ {} \in SUBSET Client
  BY OpParts
<1>2. Acting(c) /\ leader' = Leased(c, {d}) /\ UNCHANGED <<fresh, pool, used>>
  BY DEF local_op, Acting
<1>3. tb[c][d] = t
  BY <1>1, FetchedType
<1>4. \/ (Settle(c, Idle, NoEntryVictims(c), tb, pend, sp) \/ Settle(c, Idle, {}, tb, pend, sp))
         /\ UNCHANGED <<truth, crossed>>
      \/ Misuse(c, c, d, t, tb, sp)
      \/ t.loc = "LOCAL" /\ Change(c, c, d, t.kids, {}, tb, sp, FALSE)
  BY Zenon DEF local_op, Spoils
<1>5. CASE (Settle(c, Idle, NoEntryVictims(c), tb, pend, sp) \/ Settle(c, Idle, {}, tb, pend, sp))
           /\ UNCHANGED <<truth, crossed>>
  <2>1. Looks(c, {d}, Idle, NoEntryVictims(c)) \/ Looks(c, {d}, Idle, {})
    BY <1>2, <1>5, OpParts DEF Looks, Acting, Staged
  <2> HIDE DEF d
  <2> QED BY <1>1, <2>1, IdleParts DEF Formed, Looking
<1>6. CASE Misuse(c, c, d, t, tb, sp)
  BY <1>1, <1>2, <1>6, MisuseForm
<1>7. CASE t.loc = "LOCAL" /\ Change(c, c, d, t.kids, {}, tb, sp, FALSE)
  <2> HIDE DEF t
  <2>1. Works(c, c, {d}, t.kids, {})
    BY <1>3, <1>7 DEF Works
  <2>2. Does(c, c, {d}, t.kids, {}, FALSE)
    BY <1>2, <1>7, <2>1 DEF Does
  <2> HIDE DEF d
  <2> QED BY <1>1, <2>2 DEF Formed, Doing
<1> QED BY <1>4, <1>5, <1>6, <1>7

(* A request that arrives, work on a dropped table, and a reply that is    *)
(* lost.                                                                   *)
LEMMA RemoteForm ==
  ASSUME Typed, NEW c \in Client, remote_op(c) \/ late_op(c) \/ Lose(c)
  PROVE  Formed(c)
<1> DEFINE d == Stage(op[c])
           s == Worker(c)
           Same == UNCHANGED <<truth, crossed>>
           Change1(k, held, lost) == Change(c, s, d, k, held, table, spoilt, lost)
<1>1. d \in Dir /\ s \in Client /\ Acting(c) /\ UNCHANGED <<leader, fresh, pool, used>>
  BY OpParts DEF remote_op, late_op, Lose, Calling, Acting, Typed, Worker
<1>2. Fetched(c, {}) = table /\ Leased(c, {}) = leader /\ Spoils(c, {}) = spoilt
  BY FetchNone DEF Spoils
<1>3. \/ (Settle(c, Idle, Victims(c), table, pend, spoilt) \/ Settle(c, Idle, {}, table, pend, spoilt))
         /\ Same
      \/ \E t : Misuse(c, s, d, t, table, spoilt)
      \/ \E lost \in BOOLEAN : \E k, held :
            Works(c, s, {}, k, held) /\ (lost => work' # work) /\ Change1(k, held, lost)
  <2>0. /\ table[s][d].loc = "LOCAL" => Works(c, s, {}, table[s][d].kids, {})
        /\ \A t \in op[c].old : Works(c, s, {}, t.kids, {t})
    BY <1>2 DEF Works
  <2>1. CASE remote_op(c)
    <3>1. s = Address(op[c])
      BY <2>1 DEF remote_op, Calling, Worker
    <3>2. \/ (Settle(c, Idle, Victims(c), table, pend, spoilt)
                \/ Settle(c, Idle, {}, table, pend, spoilt)) /\ Same
          \/ Misuse(c, Address(op[c]), d, table[Address(op[c])][d], table, spoilt)
          \/ /\ table[Address(op[c])][d].loc = "LOCAL"
             /\ Change(c, Address(op[c]), d, table[Address(op[c])][d].kids, {}, table, spoilt, FALSE)
      BY <2>1, Zenon DEF remote_op
    <3> HIDE DEF s, Same
    <3> QED BY <2>0, <3>1, <3>2
  <2>2. CASE late_op(c)
    <3>1. \/ (Settle(c, Idle, Victims(c), table, pend, spoilt)
                \/ Settle(c, Idle, {}, table, pend, spoilt)) /\ Same
          \/ \E t \in op[c].old : Misuse(c, s, d, t, table, spoilt)
          \/ \E t \in op[c].old : Change1(t.kids, {t}, FALSE)
      BY <2>2, Zenon DEF late_op
    <3> HIDE DEF s, Same, Change1
    <3> QED BY <2>0, <3>1
  <2>3. CASE Lose(c)
    <3>1. work' # work
      BY <2>3 DEF Lose, Typed
    <3>2. s = Address(op[c])
      BY <2>3 DEF Lose, Calling, Worker
    <3>3. \/ Settle(c, Idle, Victims(c), table, pend, spoilt) /\ Same
          \/ /\ table[Address(op[c])][d].loc = "LOCAL"
             /\ Change(c, Address(op[c]), d, table[Address(op[c])][d].kids, {}, table, spoilt, TRUE)
          \/ \E t \in op[c].old : Change(c, Address(op[c]), d, t.kids, {t}, table, spoilt, TRUE)
      BY <2>3, Zenon DEF Lose
    <3> HIDE DEF s, Same
    <3> QED BY <2>0, <3>1, <3>2, <3>3
  <2> QED BY <2>1, <2>2, <2>3
<1>4. CASE (Settle(c, Idle, Victims(c), table, pend, spoilt)
              \/ Settle(c, Idle, {}, table, pend, spoilt)) /\ Same
  <2>1. Goes(c, Idle) /\ Victims(c) \in SUBSET Client /\ {} \in SUBSET Client
    BY OpParts
  <2> QED BY <1>1, <1>4, <2>1, LooksNone DEF Formed
<1>5. CASE \E t : Misuse(c, s, d, t, table, spoilt)
  <2>1. PICK t : Misuse(c, s, d, t, table, spoilt)
    BY <1>5
  <2>2. Misuse(c, s, d, t, Fetched(c, {}), Spoils(c, {})) /\ leader' = Leased(c, {}) /\ {} \in SUBSET Dir
    BY <1>1, <1>2, <2>1
  <2> HIDE DEF s
  <2> QED BY <1>1, <2>2, MisuseForm
<1>6. CASE \E lost \in BOOLEAN : \E k, held :
             Works(c, s, {}, k, held) /\ (lost => work' # work) /\ Change1(k, held, lost)
  <2>0. PICK lost \in BOOLEAN : \E k, held :
             Works(c, s, {}, k, held) /\ (lost => work' # work) /\ Change1(k, held, lost)
    BY <1>6
  <2>1. PICK k, held :
             Works(c, s, {}, k, held) /\ (lost => work' # work) /\ Change1(k, held, lost)
    BY <2>0
  <2>2. Does(c, s, {}, k, held, lost)
    BY <1>1, <1>2, <2>1 DEF Does
  <2> HIDE DEF s
  <2> QED BY <1>1, <2>2 DEF Formed, Doing
<1> QED BY <1>3, <1>4, <1>5, <1>6

(* The address for a table is that of a client, of nobody, or Here.        *)
LEMMA RouteType == \A t \in Tables : Route(t) \in Sites /\ t.ip \in Sites
BY TableParts DEF Route, Sites

(* What a lookup that is answered finds.                                   *)
LEMMA ChildType ==
  ASSUME Typed, NEW t \in Tables, NEW d \in Dir, NEW n \in Name, Answers(t, d)
  PROVE  check_child_inode(t, d, n) \in Opt(Ino)
<1>1. CASE t.loc = "LOCAL"
  BY <1>1, TableParts DEF check_child_inode, Kids, Opt
<1>2. CASE t.loc # "LOCAL"
  <2>1. t.ip \in Client
    BY <1>2 DEF Answers, Typed
  <2>2. table[t.ip][d] \in Tables
    BY <2>1 DEF Typed
  <2> QED BY <1>2, <2>2, TableParts DEF check_child_inode, Kids, Opt
<1> QED BY <1>1, <1>2

(* A path that is found leads to a directory.                              *)
LEMMA FoundDir ==
  ASSUME Typed, NEW c \in Client, NEW p
  PROVE  /\ PathDirs(c, p) \in SUBSET Dir
         /\ PathEnds(c, p) = "found" => PathDir(c, p) \in Dir
<1>1. PathDirs(c, p) \in SUBSET Dir
  BY DEF PathDirs, Dir
<1>2. PathEnds(c, p) = "found" => PathDir(c, p) \in Dir
  <2>1. CASE p = Nil
    BY <2>1 DEF PathDir, Dir
  <2>2. CASE p # Nil
    BY <2>2 DEF PathEnds
  <2> QED BY <2>1, <2>2
<1> QED BY <1>1, <1>2

(* Looking up the directory of a path.                                     *)
LEMMA PathForm ==
  ASSUME Typed, NEW c \in Client, path_traversal(c)
  PROVE  Looking(c)
<1> DEFINE o == op[c]
           p == IF o.ph = "path1" THEN o.p ELSE o.q
           d == PathDir(c, p)
           t == get_dentry_table(c, d)
           D == PathDirs(c, p)
           o1 == [o EXCEPT !.d1 = d, !.at1 = Route(t),
                           !.ph = IF o.k = "rename" /\ o.p # o.q THEN "path2" ELSE "one"]
           o2 == [o EXCEPT !.d2 = d, !.at2 = Route(t), !.ph = "one",
                           !.seen = check_child_inode(t, d, o.m)]
<1>0. /\ o \in Ops /\ o \in OpRecords /\ Sound(o) /\ c \in up /\ o.k # "idle"
      /\ o.ph \in {"path1", "path2"} /\ Goes(c, Idle) /\ Victims(c) \in SUBSET Client
      /\ {} \in SUBSET Client /\ D \in SUBSET Dir
      /\ Goes(c, Stuck(o))
  BY OpParts, FoundDir, StuckType DEF path_traversal
<1>1. \/ Traverse(c, D, Idle, {}) \/ Traverse(c, D, Idle, Victims(c))
      \/ Traverse(c, D, Stuck(o), {})
      \/ PathEnds(c, p) = "found" /\ o.ph = "path1" /\ Traverse(c, D, o1, {})
      \/ PathEnds(c, p) = "found" /\ o.ph = "path2" /\ Answers(t, d) /\ Traverse(c, D, o2, {})
  BY Zenon DEF path_traversal
<1>2. ASSUME NEW u, NEW dead \in SUBSET Client, Goes(c, u), Traverse(c, D, u, dead)
      PROVE  Looking(c)
  <2>1. Looks(c, D, u, dead)
    BY <1>0, <1>2 DEF Traverse, Looks, Spoils
  <2>2. u \in Ops
    BY <1>2 DEF Goes
  <2> HIDE DEF D
  <2> QED BY <1>0, <2>1, <2>2 DEF Looking
<1>3. CASE PathEnds(c, p) = "found" /\ o.ph = "path1" /\ Traverse(c, D, o1, {})
  <2>1. d \in Dir
    BY <1>3, FoundDir
  <2>2. Route(t) \in Sites
    BY <2>1, GetType, RouteType
  <2> HIDE DEF d, t, p, D
  <2>3. o1 \in OpRecords
    BY <1>0, <2>1, <2>2 DEF OpRecords
  <2>4. Sound(o1)
    BY <1>0, <1>3 DEF Sound, OpRecords
  <2>5. Goes(c, o1)
    BY <1>0, <1>3, <2>3, <2>4 DEF Goes, Ops, OpRecords
  <2> QED BY <1>0, <1>2, <1>3, <2>5
<1>4. CASE PathEnds(c, p) = "found" /\ o.ph = "path2" /\ Answers(t, d) /\ Traverse(c, D, o2, {})
  <2>1. d \in Dir
    BY <1>4, FoundDir
  <2>2. Route(t) \in Sites /\ t \in Tables
    BY <2>1, GetType, RouteType
  <2>3. o.m \in Name /\ o.k = "rename"
    BY <1>0, <1>4 DEF Sound
  <2> HIDE DEF d, t, p, D
  <2>4. check_child_inode(t, d, o.m) \in Opt(Ino)
    BY <1>4, <2>1, <2>2, <2>3, ChildType
  <2>5. o2 \in OpRecords
    BY <1>0, <2>1, <2>2, <2>4 DEF OpRecords
  <2>6. Sound(o2)
    BY <1>0, <1>4, <2>3 DEF Sound, OpRecords
  <2>7. Goes(c, o2)
    BY <1>0, <1>4, <2>5, <2>6 DEF Goes, Ops, OpRecords
  <2> QED BY <1>0, <1>2, <1>4, <2>7
<1> QED BY <1>0, <1>1, <1>2, <1>3, <1>4

(* Looking up the directory to remove.                                     *)
LEMMA RmdirForm ==
  ASSUME Typed, NEW c \in Client, rmdir_find(c)
  PROVE  Looking(c)
<1> DEFINE o == op[c]
           r == get_dentry_table(c, Root)
           x == check_child_inode(r, Root, o.n)
           o1 == [o EXCEPT !.ph = "one", !.d1 = x, !.at1 = Route(get_dentry_table(c, x)),
                           !.d2 = Root, !.at2 = Route(r)]
<1>0. /\ o \in Ops /\ o \in OpRecords /\ Sound(o) /\ c \in up /\ o.ph = "path1" /\ o.k = "rmdir"
      /\ Goes(c, Idle) /\ {} \in SUBSET Client /\ {c} \in SUBSET Client
      /\ Root \in Dir /\ {Root} \in SUBSET Dir /\ r \in Tables /\ Goes(c, Stuck(o))
  BY OpParts, GetType, StuckType DEF rmdir_find, Dir
<1>1. \/ Traverse(c, {Root}, Idle, {c}) \/ Traverse(c, {Root}, Idle, {})
      \/ Traverse(c, {Root}, Stuck(o), {})
      \/ x \in SubDir
         /\ (Traverse(c, {Root, x}, Idle, {}) \/ Traverse(c, {Root, x}, o1, {}))
  BY Zenon DEF rmdir_find
<1>2. ASSUME NEW D \in SUBSET Dir, NEW u, NEW dead \in SUBSET Client, Goes(c, u),
             Traverse(c, D, u, dead)
      PROVE  Looking(c)
  <2>1. Looks(c, D, u, dead)
    BY <1>0, <1>2 DEF Traverse, Looks, Spoils
  <2>2. u \in Ops
    BY <1>2 DEF Goes
  <2> QED BY <2>1, <2>2 DEF Looking
<1>3. CASE x \in SubDir
         /\ (Traverse(c, {Root, x}, Idle, {}) \/ Traverse(c, {Root, x}, o1, {}))
  <2>1. x \in Dir /\ {Root, x} \in SUBSET Dir
    BY <1>3 DEF Dir
  <2>2. Route(get_dentry_table(c, x)) \in Sites /\ Route(r) \in Sites
    BY <1>0, <2>1, GetType, RouteType
  <2> HIDE DEF x, r
  <2>3. o1 \in OpRecords
    BY <1>0, <2>1, <2>2 DEF OpRecords
  <2>4. Sound(o1)
    BY <1>0 DEF Sound, OpRecords
  <2>5. Goes(c, o1)
    BY <1>0, <2>3, <2>4 DEF Goes, Ops, OpRecords
  <2> QED BY <1>0, <1>2, <1>3, <2>1, <2>5
<1> QED BY <1>0, <1>1, <1>2, <1>3

(* Asking for the leader again.                                            *)
LEMMA AgainForm ==
  ASSUME Typed, NEW c \in Client, find_remote_dentry_table_again(c)
  PROVE  Looking(c)
<1> DEFINE o == op[c]
           d == Stage(o)
           t == get_dentry_table(c, d)
           o1 == [o EXCEPT !.at1 = t.ip, !.old = {}]
           o2 == [o EXCEPT !.at2 = t.ip, !.old = {}]
<1>0. /\ o \in Ops /\ o \in OpRecords /\ Sound(o) /\ c \in up /\ o.ph \in {"one", "two"}
      /\ Goes(c, Idle) /\ {} \in SUBSET Client
      /\ d \in Dir /\ {d} \in SUBSET Dir /\ t \in Tables /\ t.ip \in Sites
  BY OpParts, GetType, RouteType DEF find_remote_dentry_table_again, Calling, Staged
<1>1. CASE o.k = "readdir"
  <2>1. op' = [op EXCEPT ![c] = Idle]
        /\ UNCHANGED <<leader, fresh, table, pend, up, spoilt, pool, used, truth, crossed>>
    BY <1>1 DEF find_remote_dentry_table_again
  <2>2. Settle(c, Idle, {}, table, pend, spoilt)
    <3>0. \A i \in Client : Onwards(i, {}, table) = op[i]
      BY DEF Onwards
    <3>1. op' = [i \in Client |-> IF i \in {} THEN Idle ELSE IF i = c THEN Idle
                                  ELSE Onwards(i, {}, table)]
      BY <2>1, <3>0 DEF Typed
    <3>2. table' = [i \in Client |-> IF i \in {} THEN [e \in Dir |-> NoTable] ELSE table[i]]
      BY <2>1 DEF Typed
    <3>3. pend' = [i \in Client |-> IF i \in {} THEN [e \in Dir |-> NoPend] ELSE pend[i]]
      BY <2>1 DEF Typed
    <3>4. \A j \in Client : ~(op[j].k = "rmdir" /\ op[j].ph = "two" /\ op'[j] = Idle)
      <4> SUFFICES ASSUME NEW j \in Client, op[j].k = "rmdir", op'[j] = Idle PROVE FALSE
        OBVIOUS
      <4>1. j # c
        BY <1>1
      <4>2. op[j] = Idle
        BY <2>1, <4>1 DEF Typed
      <4> QED BY <4>2, IdleParts
    <3>5. spoilt' = spoilt \cup {e \in Dir : \E i \in {} : pend[i][e] # NoPend}
                  \cup {op[i].d1 : i \in {j \in Client : /\ op[j].k = "rmdir"
                                                         /\ op[j].ph = "two"
                                                         /\ op'[j] = Idle}}
      BY <2>1, <3>4
    <3> QED BY <2>1, <3>1, <3>2, <3>3, <3>5 DEF Settle
  <2> QED BY <1>0, <2>1, <2>2, LooksNone
<1>2. CASE o.k # "readdir"
  <2>1. /\ leader' = Leased(c, {d}) /\ UNCHANGED <<fresh, pool, used, truth, crossed>>
        /\ \/ Settle(c, Idle, {}, Fetched(c, {d}), pend, Spoils(c, {d}))
           \/ o.ph = "one" /\ Settle(c, o1, {}, Fetched(c, {d}), pend, Spoils(c, {d}))
           \/ o.ph # "one" /\ Settle(c, o2, {}, Fetched(c, {d}), pend, Spoils(c, {d}))
    BY <1>2, Zenon DEF find_remote_dentry_table_again, Spoils
  <2> HIDE DEF t, d
  <2>2. Goes(c, o1)
    <3>1. o1 \in OpRecords
      BY <1>0 DEF OpRecords
    <3>2. Sound(o1)
      BY <1>0, IdleParts DEF Sound, OpRecords
    <3> QED BY <1>0, <3>1, <3>2 DEF Goes, Ops, OpRecords
  <2>3. Goes(c, o2)
    <3>1. o2 \in OpRecords
      BY <1>0 DEF OpRecords
    <3>2. Sound(o2)
      BY <1>0, IdleParts DEF Sound, OpRecords
    <3> QED BY <1>0, <3>1, <3>2 DEF Goes, Ops, OpRecords
  <2>4. Looks(c, {d}, Idle, {}) \/ Looks(c, {d}, o1, {}) \/ Looks(c, {d}, o2, {})
    BY <1>0, <2>1, <2>2, <2>3 DEF Looks
  <2>5. Idle \in Ops /\ o1 \in Ops /\ o2 \in Ops
    BY <2>2, <2>3, IdleParts DEF Goes
  <2> HIDE DEF o1, o2
  <2> QED BY <1>0, <2>4, <2>5 DEF Looking
<1> QED BY <1>1, <1>2

(* A step of a client's operation, a lost message, a crash or a lookup.    *)
LEMMA StepForm ==
  ASSUME Typed, NEW c \in Client, Step(c) \/ Lose(c) \/ Crash(c) \/ getattr(c)
  PROVE  Formed(c)
<1>0. /\ Goes(c, Idle) /\ Goes(c, op[c]) /\ op[c] \in Ops /\ Victims(c) \in SUBSET Client
      /\ {} \in SUBSET Client /\ {c} \in SUBSET Client
  BY OpParts
<1>1. CASE need_recov(c)
  BY <1>0, <1>1, LooksNone DEF need_recov, Formed
<1>2. CASE Crash(c)
  BY <1>0, <1>2, LooksNone DEF Crash, Formed
<1>3. CASE getattr(c)
  <2>1. PICK p \in Name \cup {Nil} :
          /\ leader' = Leased(c, PathDirs(c, p))
          /\ Settle(c, op[c], IF PathEnds(c, p) = "fail" THEN {c} ELSE {},
                    Fetched(c, PathDirs(c, p)), pend, spoilt \cup Overtaken(c, PathDirs(c, p)))
    BY <1>3 DEF getattr
  <2>2. PathDirs(c, p) \in SUBSET Dir
    BY FoundDir
  <2>3. UNCHANGED <<fresh, pool, used, truth, crossed>> /\ c \in up
    BY <1>3 DEF getattr
  <2>4. Looks(c, PathDirs(c, p), op[c], IF PathEnds(c, p) = "fail" THEN {c} ELSE {})
    BY <1>0, <2>1, <2>3 DEF Looks, Spoils
  <2>5. (IF PathEnds(c, p) = "fail" THEN {c} ELSE {}) \in SUBSET Client
    OBVIOUS
  <2> QED BY <1>0, <2>2, <2>4, <2>5 DEF Formed, Looking
<1>4. CASE lease_dentry_table_mkdir(c)
  <2>1. CASE leader[op[c].x] \in {Nil, c}
    BY <1>4, <2>1, Zenon DEF lease_dentry_table_mkdir, Formed, Leads
  <2>2. CASE leader[op[c].x] \notin {Nil, c}
    BY <1>0, <1>4, <2>2, LooksNone DEF lease_dentry_table_mkdir, Formed
  <2> QED BY <2>1, <2>2
<1> QED BY <1>1, <1>2, <1>3, <1>4, PathForm, RmdirForm, LocalForm, RemoteForm, AgainForm
        DEF Step, Formed

(* A checkpoint writes the objects, or ends the process.                   *)
LEMMA SaveForm ==
  ASSUME Typed, NEW c \in Client, NEW d \in Dir, Checkpoint(c, d)
  PROVE  Looking(c) \/ Saves(c, d)
<1>1. CASE pend[c][d].self = "same" /\ ~pool[d].made
  <2>1. Settle(c, Idle, {c}, table, pend, spoilt) /\ UNCHANGED <<leader, fresh, pool, used, truth, crossed>>
    BY <1>1 DEF Checkpoint
  <2>2. Goes(c, Idle) /\ {c} \in SUBSET Client
    BY OpParts
  <2> QED BY <2>1, <2>2, LooksNone
<1>2. CASE ~(pend[c][d].self = "same" /\ ~pool[d].made)
  BY <1>2 DEF Checkpoint, Saves
<1> QED BY <1>1, <1>2

(* An operation that starts has a new file at most.                        *)
Begins(c) == \E o \in Ops : op[c] = Idle /\ c \in up /\ Begin(c, o) /\ o.ph = "path1"
                              /\ o.x \notin used /\ o.old = {}

(* Every FUSE operation.                                                   *)
LEMMA CallForm ==
  ASSUME Typed, NEW c \in Client, Call(c)
  PROVE  Begins(c)
<1> DEFINE Starting(o) == /\ o.ph = "path1" /\ o \in OpRecords /\ Sound(o) /\ o.x \notin used
                          /\ o.old = {}
<1>0. op[c] = Idle /\ c \in up /\ Nil \notin used
  BY DistinctAssumption DEF Call, Typed
<1>1. CASE create(c)
  <2>1. PICK p \in Name \cup {Nil}, n \in Name, f \in File \ used :
          Begin(c, [Idle EXCEPT !.k = "create", !.ph = "path1", !.p = p, !.n = n, !.x = f])
    BY <1>1, Zenon DEF create
  <2>2. Starting([Idle EXCEPT !.k = "create", !.ph = "path1", !.p = p, !.n = n, !.x = f])
    BY DistinctAssumption DEF Idle, OpRecords, Sound, Opt, Sites, Dir, Ino
  <2> QED BY <1>0, <2>1, <2>2 DEF Begins, Ops
<1>2. CASE symlink(c)
  <2>1. PICK p \in Name \cup {Nil}, n \in Name, f \in File \ used :
          Begin(c, [Idle EXCEPT !.k = "symlink", !.ph = "path1", !.p = p, !.n = n, !.x = f])
    BY <1>2, Zenon DEF symlink
  <2>2. Starting([Idle EXCEPT !.k = "symlink", !.ph = "path1", !.p = p, !.n = n, !.x = f])
    BY DistinctAssumption DEF Idle, OpRecords, Sound, Opt, Sites, Dir, Ino
  <2> QED BY <1>0, <2>1, <2>2 DEF Begins, Ops
<1>3. CASE unlink(c)
  <2>1. PICK p \in Name \cup {Nil}, n \in Name :
          Begin(c, [Idle EXCEPT !.k = "unlink", !.ph = "path1", !.p = p, !.n = n])
    BY <1>3, Zenon DEF unlink
  <2>2. Starting([Idle EXCEPT !.k = "unlink", !.ph = "path1", !.p = p, !.n = n])
    BY <1>0, DistinctAssumption DEF Idle, OpRecords, Sound, Opt, Sites, Dir, Ino
  <2> QED BY <1>0, <2>1, <2>2 DEF Begins, Ops
<1>4. CASE readdir(c)
  <2>1. PICK p \in Name \cup {Nil} :
          Begin(c, [Idle EXCEPT !.k = "readdir", !.ph = "path1", !.p = p])
    BY <1>4, Zenon DEF readdir
  <2>2. Starting([Idle EXCEPT !.k = "readdir", !.ph = "path1", !.p = p])
    BY <1>0, DistinctAssumption DEF Idle, OpRecords, Sound, Opt, Sites, Dir, Ino
  <2> QED BY <1>0, <2>1, <2>2 DEF Begins, Ops
<1>5. CASE mkdir(c)
  <2>1. PICK n \in Name, s \in SubDir \ used :
          Begin(c, [Idle EXCEPT !.k = "mkdir", !.ph = "path1", !.n = n, !.x = s])
    BY <1>5, Zenon DEF mkdir
  <2>2. Starting([Idle EXCEPT !.k = "mkdir", !.ph = "path1", !.n = n, !.x = s])
    BY DistinctAssumption DEF Idle, OpRecords, Sound, Opt, Sites, Dir, Ino
  <2> QED BY <1>0, <2>1, <2>2 DEF Begins, Ops
<1>6. CASE rmdir(c)
  <2>1. PICK n \in Name : Begin(c, [Idle EXCEPT !.k = "rmdir", !.ph = "path1", !.n = n])
    BY <1>6, Zenon DEF rmdir
  <2>2. Starting([Idle EXCEPT !.k = "rmdir", !.ph = "path1", !.n = n])
    BY <1>0, DistinctAssumption DEF Idle, OpRecords, Sound, Opt, Sites, Dir, Ino
  <2> QED BY <1>0, <2>1, <2>2 DEF Begins, Ops
<1>7. CASE rename(c)
  <2>1. PICK p \in Name \cup {Nil}, q \in Name \cup {Nil}, n \in Name, m \in Name :
          /\ <<p, n>> # <<q, m>>
          /\ Begin(c, [Idle EXCEPT !.k = "rename", !.ph = "path1", !.p = p, !.n = n,
                                   !.q = q, !.m = m])
    BY <1>7, Zenon DEF rename
  <2>2. Starting([Idle EXCEPT !.k = "rename", !.ph = "path1", !.p = p, !.n = n, !.q = q, !.m = m])
    BY <1>0, <2>1, DistinctAssumption DEF Idle, OpRecords, Sound, Opt, Sites, Dir, Ino
  <2> QED BY <1>0, <2>1, <2>2 DEF Begins, Ops
<1> QED BY <1>1, <1>2, <1>3, <1>4, <1>5, <1>6, <1>7 DEF Call

(* No step asks for more work than the bound.                              *)
LEMMA WorkBound ==
  ASSUME Typed, [Next]_vars
  PROVE  work' \in 0..MaxWork
<1>1. work' = work \/ (work + 1 <= MaxWork /\ work' = work + 1)
        \/ (work + 2 <= MaxWork /\ work' = work + 2)
  <2>1. ASSUME NEW c \in Client, Call(c) PROVE work + 2 <= MaxWork /\ work' = work + 2
    BY <2>1, Zenon DEF Call, create, symlink, unlink, readdir, mkdir, rmdir, rename, Begin
  <2>2. ASSUME NEW c \in Client, Step(c) PROVE work' = work
    BY <2>2, Zenon DEF Step, path_traversal, Traverse, rmdir_find, local_op, remote_op, late_op,
         need_recov, find_remote_dentry_table_again, lease_dentry_table_mkdir
  <2>3. ASSUME NEW c \in Client, Lose(c) \/ Crash(c) \/ getattr(c) \/ acquire_behind(c)
        PROVE  work < MaxWork /\ work' = work + 1
    BY <2>3, Zenon DEF Lose, Crash, getattr, acquire_behind
  <2>4. ASSUME NEW c \in Client, directory_table(c) \/ (\E d \in Dir : Checkpoint(c, d))
        PROVE  work' = work
    BY <2>4, Zenon DEF directory_table, Checkpoint
  <2>5. ASSUME NEW d \in Dir, Lapse(d) PROVE work' = work
    BY <2>5 DEF Lapse
  <2>6. CASE UNCHANGED vars
    BY <2>6 DEF vars
  <2>7. work \in Nat /\ MaxWork \in Nat
    BY BoundAssumption DEF Typed
  <2> QED BY <2>1, <2>2, <2>3, <2>4, <2>5, <2>6, <2>7 DEF Next
<1> QED BY <1>1, BoundAssumption DEF Typed

-----------------------------------------------------------------------------
(* Every kind of step leaves the variables as they are typed.              *)

TableMaps == [Client -> [Dir -> Tables]]

PendMaps == [Client -> [Dir -> Pends]]

(* What Settle decides.                                                    *)
Settled ==
  table' \in TableMaps /\ pend' \in PendMaps /\ op' \in [Client -> Ops] /\ Busy'
    /\ up' \subseteq Client /\ spoilt' \subseteq Dir

(* An operation whose worker drops a table, or dies, is what it was but    *)
(* for the tables it may still work on.                                    *)
LEMMA OnwardsParts ==
  ASSUME Typed, NEW c \in Client, NEW dead, NEW tb
  PROVE  LET o == op[c]
             w == Onwards(c, dead, tb)
         IN  /\ w \in Ops
             /\ <<w.k, w.ph, w.p, w.n, w.q, w.m, w.x, w.seen>>
                  = <<o.k, o.ph, o.p, o.n, o.q, o.m, o.x, o.seen>>
             /\ <<w.d1, w.d2, w.at2>> = <<o.d1, o.d2, o.at2>>
             /\ w = Idle <=> o = Idle
             /\ w.old # o.old /\ w.old # {} =>
                  /\ Staged(o) /\ Worker(c) \in Client
                  /\ tb[Worker(c)][Stage(o)] = NoTable
                  /\ table[Worker(c)][Stage(o)] # NoTable
                  /\ w.old = o.old \cup {table[Worker(c)][Stage(o)]}
                  /\ o.ph = "take" => o.old = {}
<1> DEFINE o == op[c]
           s == Worker(c)
           d == Stage(o)
           o1 == [o EXCEPT !.old = {}, !.at1 = IF o.ph = "take" THEN Nil ELSE @]
           o2 == [o EXCEPT !.old = @ \cup {table[s][d]}]
<1>1. o \in Ops /\ o \in OpRecords /\ Sound(o) /\ d \in Dir
  BY OpParts
<1>2. s \in Client => table[s][d] \in Tables
  BY <1>1 DEF Typed
<1>3. Staged(o) => o.k # "idle"
  BY <1>1, IdleParts DEF Staged, Sound
<1>4. \/ Onwards(c, dead, tb) = o
      \/ Staged(o) /\ s \in Client /\ Onwards(c, dead, tb) = o1
      \/ /\ Staged(o) /\ s \in Client /\ tb[s][d] = NoTable /\ table[s][d] # NoTable
         /\ ~HoldsOld(o) /\ Onwards(c, dead, tb) = o2
  BY Zenon DEF Onwards
<1> HIDE DEF s, d
<1>5. Staged(o) => /\ o1 \in OpRecords /\ Sound(o1) /\ o1 # Idle /\ o1.old = {}
                   /\ <<o1.k, o1.ph, o1.p, o1.n, o1.q, o1.m, o1.x, o1.seen>>
                        = <<o.k, o.ph, o.p, o.n, o.q, o.m, o.x, o.seen>>
                   /\ <<o1.d1, o1.d2, o1.at2>> = <<o.d1, o.d2, o.at2>>
  <2> SUFFICES ASSUME Staged(o) PROVE /\ o1 \in OpRecords /\ Sound(o1) /\ o1 # Idle /\ o1.old = {}
                   /\ <<o1.k, o1.ph, o1.p, o1.n, o1.q, o1.m, o1.x, o1.seen>>
                        = <<o.k, o.ph, o.p, o.n, o.q, o.m, o.x, o.seen>>
                   /\ <<o1.d1, o1.d2, o1.at2>> = <<o.d1, o.d2, o.at2>>
    OBVIOUS
  <2>1. o1 \in OpRecords
    BY <1>1 DEF OpRecords, Sites
  <2>2. /\ o1.old = {}
        /\ <<o1.k, o1.ph, o1.p, o1.n, o1.q, o1.m, o1.x, o1.seen>>
             = <<o.k, o.ph, o.p, o.n, o.q, o.m, o.x, o.seen>>
        /\ <<o1.d1, o1.d2, o1.at2>> = <<o.d1, o.d2, o.at2>>
    BY <1>1 DEF OpRecords
  <2> HIDE DEF o1
  <2>3. Sound(o1) /\ o1 # Idle
    BY <1>1, <1>3, <2>2, IdleParts DEF Sound
  <2> QED BY <2>1, <2>2, <2>3
<1>6. Staged(o) /\ s \in Client =>
                   /\ o2 \in OpRecords /\ Sound(o2) /\ o2 # Idle /\ o2.old = o.old \cup {table[s][d]}
                   /\ <<o2.k, o2.ph, o2.p, o2.n, o2.q, o2.m, o2.x, o2.seen>>
                        = <<o.k, o.ph, o.p, o.n, o.q, o.m, o.x, o.seen>>
                   /\ <<o2.d1, o2.d2, o2.at2>> = <<o.d1, o.d2, o.at2>>
  <2> SUFFICES ASSUME Staged(o), s \in Client
               PROVE /\ o2 \in OpRecords /\ Sound(o2) /\ o2 # Idle /\ o2.old = o.old \cup {table[s][d]}
                     /\ <<o2.k, o2.ph, o2.p, o2.n, o2.q, o2.m, o2.x, o2.seen>>
                          = <<o.k, o.ph, o.p, o.n, o.q, o.m, o.x, o.seen>>
                     /\ <<o2.d1, o2.d2, o2.at2>> = <<o.d1, o.d2, o.at2>>
    OBVIOUS
  <2>1. o2 \in OpRecords
    BY <1>1, <1>2 DEF OpRecords
  <2>2. /\ o2.old = o.old \cup {table[s][d]}
        /\ <<o2.k, o2.ph, o2.p, o2.n, o2.q, o2.m, o2.x, o2.seen>>
             = <<o.k, o.ph, o.p, o.n, o.q, o.m, o.x, o.seen>>
        /\ <<o2.d1, o2.d2, o2.at2>> = <<o.d1, o.d2, o.at2>>
    BY <1>1 DEF OpRecords
  <2> HIDE DEF o2
  <2>3. Sound(o2) /\ o2 # Idle
    BY <1>1, <1>3, <2>2, IdleParts DEF Sound
  <2> QED BY <2>1, <2>2, <2>3
<1>7. ~HoldsOld(o) /\ o.ph = "take" => o.old = {}
  BY DEF HoldsOld
<1>8. o # Idle \/ ~Staged(o)
  BY <1>3, IdleParts
<1> HIDE DEF o1, o2
<1>9. CASE Onwards(c, dead, tb) = o
  BY <1>1, <1>9
<1>10. CASE Staged(o) /\ s \in Client /\ Onwards(c, dead, tb) = o1
  BY <1>5, <1>8, <1>10 DEF Ops
<1>11. CASE /\ Staged(o) /\ s \in Client /\ tb[s][d] = NoTable /\ table[s][d] # NoTable
            /\ ~HoldsOld(o) /\ Onwards(c, dead, tb) = o2
  BY <1>6, <1>7, <1>8, <1>11 DEF Ops, s, d
<1> QED BY <1>4, <1>9, <1>10, <1>11

(* How a step ends.                                                        *)
LEMMA SettleTyped ==
  ASSUME Typed, NEW c \in Client, NEW o \in Ops, o # Idle => c \in up, NEW dead \in SUBSET Client,
         NEW tb \in TableMaps, NEW pe \in PendMaps, NEW sp \in SUBSET Dir,
         Settle(c, o, dead, tb, pe, sp)
  PROVE  Settled
<1>1. table' \in TableMaps
  BY TableParts DEF Settle, TableMaps
<1>2. pend' \in PendMaps
  BY EmptyParts DEF Settle, PendMaps
<1>0. \A i \in Client : Onwards(i, dead, tb) \in Ops /\ (Onwards(i, dead, tb) = Idle <=> op[i] = Idle)
  BY OnwardsParts
<1>3. op' \in [Client -> Ops] /\ up' \subseteq Client
  BY <1>0, IdleParts DEF Settle, Typed
<1>4. Busy'
  BY <1>0 DEF Settle, Typed, Busy
<1>5. spoilt' \subseteq Dir
  <2>1. \A i \in Client : op[i].d1 \in Dir
    BY OpParts
  <2> QED BY <2>1 DEF Settle
<1> QED BY <1>1, <1>2, <1>3, <1>4, <1>5 DEF Settled

(* The journal of one client for one directory.                            *)
LEMMA PendUpdate ==
  ASSUME NEW pe \in PendMaps, NEW s \in Client, NEW d \in Dir, NEW p \in Pends
  PROVE  /\ [pe EXCEPT ![s][d] = p] \in PendMaps
         /\ \A i \in Client, e \in Dir :
              [pe EXCEPT ![s][d] = p][i][e] = IF i = s /\ e = d THEN p ELSE pe[i][e]
BY DEF PendMaps

(* What a change leaves in the journals: at the client that does it, and   *)
(* at the caller of a mkdir.                                               *)
Recorded(self, rec, p) ==
  [self |-> self, kids |-> [n \in Name |-> IF rec[n] = Keep THEN p.kids[n] ELSE rec[n]]]

(* A record of the journal.                                                *)
LEMMA RecordedType ==
  ASSUME NEW self \in {"same", "made", "gone"}, NEW rec \in Recs, NEW p \in Pends
  PROVE  /\ Recorded(self, rec, p) \in Pends /\ Recorded(self, rec, p).self = self
         /\ \A n \in Name : Recorded(self, rec, p).kids[n] = IF rec[n] = Keep THEN p.kids[n] ELSE rec[n]
BY DEF Recorded, Pends, Recs

Top(o) == o.k = "rmdir" /\ o.ph = "one"

Noted(s, d, o, rec) ==
  [pend EXCEPT ![s][d] = Recorded(IF Top(o) THEN "gone" ELSE pend[s][d].self, rec, pend[s][d])]

(* The journals after a change, entry by entry.                            *)
LEMMA NotedParts ==
  ASSUME Typed, NEW s \in Client, NEW d \in Dir, NEW o, NEW rec \in Recs
  PROVE  /\ Noted(s, d, o, rec) \in PendMaps
         /\ \A i \in Client, e \in Dir : i # s \/ e # d => Noted(s, d, o, rec)[i][e] = pend[i][e]
         /\ Noted(s, d, o, rec)[s][d].self = IF Top(o) THEN "gone" ELSE pend[s][d].self
         /\ \A n \in Name : Noted(s, d, o, rec)[s][d].kids[n] =
                              IF rec[n] = Keep THEN pend[s][d].kids[n] ELSE rec[n]
<1> DEFINE self == IF Top(o) THEN "gone" ELSE pend[s][d].self
           p == Recorded(self, rec, pend[s][d])
<1>1. pend \in PendMaps /\ pend[s][d] \in Pends
  BY DEF Typed, PendMaps
<1>2. self \in {"same", "made", "gone"}
  BY <1>1 DEF Pends
<1> HIDE DEF self
<1>3. p \in Pends /\ p.self = self
      /\ \A n \in Name : p.kids[n] = IF rec[n] = Keep THEN pend[s][d].kids[n] ELSE rec[n]
  BY <1>1, <1>2, RecordedType
<1>4. Noted(s, d, o, rec) = [pend EXCEPT ![s][d] = p]
  BY DEF Noted, self
<1> HIDE DEF p
<1>5. /\ [pend EXCEPT ![s][d] = p] \in PendMaps
      /\ \A i \in Client, e \in Dir :
              [pend EXCEPT ![s][d] = p][i][e] = IF i = s /\ e = d THEN p ELSE pend[i][e]
  BY <1>1, <1>3, PendUpdate
<1> QED BY <1>3, <1>4, <1>5 DEF self

MadeBy(pe, c, x) == [pe EXCEPT ![c][x].self = "made"]

(* The caller of a mkdir journals that the directory is made.              *)
LEMMA MadeParts ==
  ASSUME NEW pe \in PendMaps, NEW c \in Client, NEW x \in Dir
  PROVE  /\ MadeBy(pe, c, x) \in PendMaps
         /\ \A i \in Client, e \in Dir : i # c \/ e # x => MadeBy(pe, c, x)[i][e] = pe[i][e]
         /\ MadeBy(pe, c, x)[c][x].self = "made" /\ MadeBy(pe, c, x)[c][x].kids = pe[c][x].kids
<1> DEFINE p == [pe[c][x] EXCEPT !.self = "made"]
<1>1. p \in Pends /\ p.self = "made" /\ p.kids = pe[c][x].kids
  BY DEF PendMaps, Pends
<1>2. MadeBy(pe, c, x) = [pe EXCEPT ![c][x] = p]
  BY DEF MadeBy, PendMaps
<1> HIDE DEF p
<1>3. /\ [pe EXCEPT ![c][x] = p] \in PendMaps
      /\ \A i \in Client, e \in Dir :
              [pe EXCEPT ![c][x] = p][i][e] = IF i = c /\ e = x THEN p ELSE pe[i][e]
  BY <1>1, PendUpdate
<1> QED BY <1>1, <1>2, <1>3

(* The journals after a change.                                            *)
Journals(c, s, d, o, rec, lost) ==
  IF o.k = "mkdir" /\ ~lost THEN MadeBy(Noted(s, d, o, rec), c, o.x) ELSE Noted(s, d, o, rec)

(* A change, entry by entry: only the client s changes what it has         *)
(* journaled of the entries of d, and the removal of d; a caller may add   *)
(* that its directory is made.                                             *)
LEMMA JournalsParts ==
  ASSUME Typed, NEW c \in Client, NEW s \in Client, NEW d \in Dir, NEW rec \in Recs,
         NEW lost \in BOOLEAN
  PROVE  LET pe == Journals(c, s, d, op[c], rec, lost)
         IN  /\ pe \in PendMaps
             /\ \A i \in Client, e \in Dir : i # s \/ e # d => pe[i][e].kids = pend[i][e].kids
             /\ \A n \in Name : pe[s][d].kids[n] =
                                  IF rec[n] = Keep THEN pend[s][d].kids[n] ELSE rec[n]
             /\ \A i \in Client, e \in Dir : pe[i][e].self = "gone" =>
                     pend[i][e].self = "gone" \/ (i = s /\ e = d /\ Top(op[c]))
             /\ \A i \in Client, e \in Dir : pend[i][e].self = "made" =>
                     pe[i][e].self = "made" \/ (i = s /\ e = d /\ Top(op[c]))
             /\ (op[c].k = "mkdir" /\ ~lost) => pe[c][op[c].x].self = "made"
<1> DEFINE pn == Noted(s, d, op[c], rec)
<1>1. /\ pn \in PendMaps
      /\ \A i \in Client, e \in Dir : i # s \/ e # d => pn[i][e] = pend[i][e]
      /\ pn[s][d].self = IF Top(op[c]) THEN "gone" ELSE pend[s][d].self
      /\ \A n \in Name : pn[s][d].kids[n] =
                           IF rec[n] = Keep THEN pend[s][d].kids[n] ELSE rec[n]
  BY NotedParts
<1>2. op[c].k = "mkdir" => op[c].x \in Dir
  BY OpParts DEF Sound, Dir
<1>3. CASE op[c].k = "mkdir" /\ ~lost
  <2> DEFINE pm == MadeBy(pn, c, op[c].x)
  <2> HIDE DEF pn
  <2>1. /\ pm \in PendMaps
        /\ \A i \in Client, e \in Dir : i # c \/ e # op[c].x => pm[i][e] = pn[i][e]
        /\ pm[c][op[c].x].self = "made" /\ pm[c][op[c].x].kids = pn[c][op[c].x].kids
    BY <1>1, <1>2, <1>3, MadeParts
  <2>2. Journals(c, s, d, op[c], rec, lost) = pm
    BY <1>3 DEF Journals, pn
  <2> HIDE DEF pm
  <2> QED BY <1>1, <1>3, <2>1, <2>2 DEF Top
<1>4. CASE ~(op[c].k = "mkdir" /\ ~lost)
  <2>1. Journals(c, s, d, op[c], rec, lost) = pn
    BY <1>4 DEF Journals
  <2> HIDE DEF pn
  <2> QED BY <1>1, <1>4, <2>1
<1> QED BY <1>3, <1>4

(* The tables after a change: s has the new entries, if it still has the   *)
(* table, or has given the directory up.                                   *)
NewTables(s, d, o, kids, held, tb) ==
  [i \in Client |-> [e \in Dir |->
     IF i # s THEN tb[i][e]
     ELSE IF e = d /\ Top(o) THEN NoTable
     ELSE IF e = d /\ held = {} THEN LocalTable(kids)
     ELSE IF o.k = "rmdir" /\ o.ph = "two" /\ e = o.d1 THEN NoTable
     ELSE tb[i][e]]]

(* What a change adds to the history of what went wrong.                   *)
NewSpoils(d, o, r, held, lost) ==
  (IF (\E n \in Name : r.rec[n] \notin {Keep, r.kids[n]}) \/ held # {}
      \/ (o.k = "rename" /\ o.ph = "two" /\ o.x = Nil) THEN {d} ELSE {})
    \cup (IF lost /\ o.k = "mkdir" THEN {o.x} ELSE {})
    \cup (IF lost /\ Top(o) THEN {o.d1} ELSE {})

Applied(t, rec) == [n \in Name |-> IF rec[n] = Keep THEN t[n] ELSE rec[n]]

(* The file that a rename moves although the name is no longer its.        *)
Strays(o, k) == IF o.ph = "take" /\ k[o.n] # o.x THEN {o.x} \cap File ELSE {}

(* A change in parts.                                                      *)
DoesParts(c, s, D, k, held, lost) ==
  LET o == op[c]
      d == Stage(o)
      tb == Fetched(c, D)
      r == Serve(o, k)
  IN  /\ r.ret = "ok" /\ Served(r, k) /\ k \in Kids /\ d \in Dir
      /\ held \in SUBSET Tables
      /\ held = {} => tb[s][d].loc = "LOCAL" /\ k = tb[s][d].kids
      /\ held # {} => \E t \in o.old : held = {t} /\ k = t.kids
      /\ truth' = [truth EXCEPT ![d] = Applied(truth[d], r.rec)]
      /\ crossed' = crossed \cup Strays(o, k)
      /\ Settle(c, IF lost THEN Idle ELSE After(o, k, held), IF lost THEN Victims(c) ELSE {},
                NewTables(s, d, o, r.kids, held, tb), Journals(c, s, d, o, r.rec, lost),
                Spoils(c, D) \cup NewSpoils(d, o, r, held, lost))

(* What a change is made of.                                               *)
LEMMA DoesAre ==
  ASSUME Typed, NEW c \in Client, NEW s \in Client, NEW D \in SUBSET Dir, NEW k, NEW held,
         NEW lost \in BOOLEAN, Does(c, s, D, k, held, lost)
  PROVE  DoesParts(c, s, D, k, held, lost)
<1> DEFINE o == op[c]
           d == Stage(o)
           tb == Fetched(c, D)
           r == Serve(o, k)
           sp == Spoils(c, D)
<1>1. d \in Dir /\ Acting(c) /\ Works(c, s, D, k, held)
      /\ o.old \subseteq Tables
  BY OpParts DEF Does, OpRecords
<1>2. /\ k \in Kids /\ held \in SUBSET Tables
      /\ held = {} => tb[s][d].loc = "LOCAL" /\ k = tb[s][d].kids
      /\ held # {} => \E t \in o.old : held = {t} /\ k = t.kids
  <2>1. tb[s][d] \in Tables
    BY <1>1, FetchedType
  <2> QED BY <1>1, <2>1, TableParts DEF Works
<1>3. Served(r, k)
  BY <1>1, <1>2, ServeServed, OpParts DEF Acting
<1>4. Change(c, s, d, k, held, tb, sp, lost)
  BY DEF Does
<1> HIDE DEF tb, sp
<1>5. r.ret = "ok" /\ truth' = [truth EXCEPT ![d] = Overlay(truth[d], [kids |-> r.rec])]
  BY <1>4 DEF Change
<1>6. Overlay(truth[d], [kids |-> r.rec]) = Applied(truth[d], r.rec)
  BY DEF Overlay, Applied
<1>7. /\ crossed' = crossed \cup Strays(o, k)
      /\ Settle(c, IF lost THEN Idle ELSE After(o, k, held), IF lost THEN Victims(c) ELSE {},
             NewTables(s, d, o, r.kids, held, tb), Journals(c, s, d, o, r.rec, lost),
             sp \cup (IF (\E n \in Name : r.rec[n] \notin {Keep, r.kids[n]}) \/ held # {}
                         \/ (o.k = "rename" /\ o.ph = "two" /\ o.x = Nil) THEN {d} ELSE {})
                \cup (IF lost /\ o.k = "mkdir" THEN {o.x} ELSE {})
                \cup (IF lost /\ Top(o) THEN {o.d1} ELSE {}))
  BY <1>4, Zenon DEF Change, Strays, NewTables, Journals, Noted, Recorded, MadeBy, Top
<1>8. sp \cup (IF (\E n \in Name : r.rec[n] \notin {Keep, r.kids[n]}) \/ held # {}
                  \/ (o.k = "rename" /\ o.ph = "two" /\ o.x = Nil) THEN {d} ELSE {})
         \cup (IF lost /\ o.k = "mkdir" THEN {o.x} ELSE {})
         \cup (IF lost /\ Top(o) THEN {o.d1} ELSE {})
      = sp \cup NewSpoils(d, o, r, held, lost)
  <2> HIDE DEF r, d, o
  <2> QED BY DEF NewSpoils
<1> QED BY <1>1, <1>2, <1>3, <1>5, <1>6, <1>7, <1>8 DEF DoesParts, tb, sp

(* The tables after a change are of the three kinds.                       *)
LEMMA NewTablesType ==
  ASSUME NEW tb \in TableMaps, NEW s \in Client, NEW d \in Dir, NEW o, NEW kids \in Kids, NEW held
  PROVE  NewTables(s, d, o, kids, held, tb) \in TableMaps
<1>1. NoTable \in Tables /\ LocalTable(kids) \in Tables
  BY TableParts
<1> QED BY <1>1 DEF NewTables, TableMaps

(* What a change makes of a directory.                                     *)
LEMMA AppliedType ==
  ASSUME NEW t \in Kids, NEW rec \in Recs
  PROVE  Applied(t, rec) \in Kids
BY DEF Applied, Kids, Recs

(* The variables that Settle leaves alone.                                 *)
RestTyped == leader' \in Leaders /\ pool' \in [Dir -> Objects] /\ used' \subseteq Ino
               /\ truth' \in [Dir -> Kids] /\ work' \in 0..MaxWork
               /\ fresh' \subseteq Dir /\ crossed' \subseteq File

(* Together, the typing of the next state.                                 *)
LEMMA TypedNext == Settled /\ RestTyped => Typed'
BY DEF Settled, RestTyped, Typed, TableMaps, PendMaps

(* Looking directories up.                                                 *)
LEMMA LooksTyped ==
  ASSUME Typed, NEW c \in Client, Looking(c), work' \in 0..MaxWork
  PROVE  Typed'
<1>1. PICK D \in SUBSET Dir, o \in Ops, dead \in SUBSET Client : Looks(c, D, o, dead)
  BY DEF Looking
<1>2. Fetched(c, D) \in TableMaps /\ Leased(c, D) \in Leaders /\ Overtaken(c, D) \subseteq D
  BY FetchedType DEF TableMaps
<1>3. pend \in PendMaps /\ Spoils(c, D) \in SUBSET Dir
  BY <1>2 DEF Typed, PendMaps, Spoils
<1>4. Settled
  BY <1>1, <1>2, <1>3, SettleTyped DEF Looks, Goes
<1>5. RestTyped
  BY <1>1, <1>2 DEF Looks, RestTyped, Typed
<1> QED BY <1>4, <1>5, TypedNext

(* A change.                                                               *)
LEMMA DoesTyped ==
  ASSUME Typed, NEW c \in Client, Doing(c), work' \in 0..MaxWork
  PROVE  Typed'
<1>0. PICK s \in Client, D \in SUBSET Dir, lost \in BOOLEAN : \E k, held : Does(c, s, D, k, held, lost)
  BY DEF Doing
<1>1. PICK k, held : Does(c, s, D, k, held, lost)
  BY <1>0
<1> DEFINE o == op[c]
           d == Stage(o)
           tb == Fetched(c, D)
           r == Serve(o, k)
           pe == Journals(c, s, d, o, r.rec, lost)
           tn == NewTables(s, d, o, r.kids, held, tb)
           sq == Spoils(c, D) \cup NewSpoils(d, o, r, held, lost)
           oo == IF lost THEN Idle ELSE After(o, k, held)
           dead == IF lost THEN Victims(c) ELSE {}
<1>2. /\ Served(r, k) /\ k \in Kids /\ d \in Dir /\ Acting(c) /\ held \in SUBSET Tables
      /\ truth' = [truth EXCEPT ![d] = Applied(truth[d], r.rec)]
      /\ crossed' = crossed \cup Strays(o, k)
      /\ Settle(c, oo, dead, tn, pe, sq)
      /\ leader' = Leased(c, D) /\ UNCHANGED <<fresh, pool, used>>
  <2>1. DoesParts(c, s, D, k, held, lost)
    BY <1>1, DoesAre
  <2>2. Acting(c) /\ leader' = Leased(c, D) /\ UNCHANGED <<fresh, pool, used>>
    BY <1>1 DEF Does
  <2> QED BY <2>1, <2>2, Zenon DEF DoesParts
<1>3. tb \in TableMaps /\ Leased(c, D) \in Leaders /\ Overtaken(c, D) \subseteq D
  BY FetchedType DEF TableMaps
<1>4. r.kids \in Kids /\ r.rec \in Recs
  BY <1>2 DEF Served
<1> HIDE DEF r, tb
<1>5. tn \in TableMaps
  BY <1>2, <1>3, <1>4, NewTablesType
<1>6. pe \in PendMaps
  BY <1>2, <1>4, JournalsParts
<1>7. oo \in Ops /\ (oo # Idle => c \in up) /\ dead \in SUBSET Client
  BY <1>2, AfterType, IdleParts, OpParts DEF Acting, Staged
<1>8. sq \in SUBSET Dir
  <2>1. o.d1 \in Dir /\ (o.k = "mkdir" => o.x \in Dir)
    BY OpParts DEF Sound, Dir
  <2>2. NewSpoils(d, o, r, held, lost) \subseteq Dir
    BY <1>2, <2>1 DEF NewSpoils
  <2> QED BY <1>3, <2>2 DEF Spoils, Typed
<1> HIDE DEF tn, pe, sq, oo, dead
<1>9. Settled
  BY <1>2, <1>5, <1>6, <1>7, <1>8, SettleTyped
<1>10. Applied(truth[d], r.rec) \in Kids
  BY <1>2, <1>4, AppliedType DEF Typed
<1> HIDE DEF d
<1>11. RestTyped
  BY <1>2, <1>3, <1>10 DEF RestTyped, Typed, Strays
<1> QED BY <1>9, <1>11, TypedNext

(* A removal that is journaled without the entries.                        *)
Jotted(s, d, n) == [pend EXCEPT ![s][d].kids[n] = Nil]

(* It changes one name in one journal.                                     *)
LEMMA JottedParts ==
  ASSUME Typed, NEW s \in Client, NEW d \in Dir, NEW n \in Name
  PROVE  /\ Jotted(s, d, n) \in PendMaps
         /\ \A i \in Client, e \in Dir : i # s \/ e # d => Jotted(s, d, n)[i][e] = pend[i][e]
         /\ Jotted(s, d, n)[s][d].self = pend[s][d].self
         /\ \A m \in Name : Jotted(s, d, n)[s][d].kids[m] = IF m = n THEN Nil ELSE pend[s][d].kids[m]
<1> DEFINE p == [pend[s][d] EXCEPT !.kids[n] = Nil]
<1>0. pend \in PendMaps /\ pend[s][d] \in Pends
  BY DEF Typed, PendMaps
<1>1. p \in Pends /\ p.self = pend[s][d].self
      /\ \A m \in Name : p.kids[m] = IF m = n THEN Nil ELSE pend[s][d].kids[m]
  BY <1>0 DEF Pends, Recs
<1>2. Jotted(s, d, n) = [pend EXCEPT ![s][d] = p]
  BY <1>0 DEF Jotted, PendMaps
<1> HIDE DEF p
<1>3. /\ [pend EXCEPT ![s][d] = p] \in PendMaps
      /\ \A i \in Client, e \in Dir :
              [pend EXCEPT ![s][d] = p][i][e] = IF i = s /\ e = d THEN p ELSE pend[i][e]
  BY <1>0, <1>1, PendUpdate
<1> QED BY <1>1, <1>2, <1>3

(* A removal that is journaled by a client without entries.                *)
LEMMA JotsTyped ==
  ASSUME Typed, NEW c \in Client, Jotting(c), work' \in 0..MaxWork
  PROVE  Typed'
<1>1. PICK s \in Client, D \in SUBSET Dir : Jots(c, s, D)
  BY DEF Jotting
<1> DEFINE o == op[c]
           d == Stage(o)
           pe == Jotted(s, d, o.n)
           sq == Spoils(c, D) \cup {d}
           oo == Beyond(o)
<1>2. /\ d \in Dir /\ Acting(c) /\ o.n \in Name
      /\ Settle(c, oo, {}, Fetched(c, D), pe, sq)
      /\ leader' = Leased(c, D) /\ UNCHANGED <<fresh, pool, used, truth, crossed>>
  BY <1>1, OpParts DEF Jots, Jotted, Sound
<1>3. Fetched(c, D) \in TableMaps /\ Leased(c, D) \in Leaders /\ Overtaken(c, D) \subseteq D
  BY FetchedType DEF TableMaps
<1>4. pe \in PendMaps
  BY <1>2, JottedParts
<1>5. sq \in SUBSET Dir
  BY <1>2, <1>3 DEF Spoils, Typed
<1>6. oo \in Ops /\ (oo # Idle => c \in up) /\ {} \in SUBSET Client
  BY <1>1, <1>2, BeyondType, OpParts DEF Acting, Staged, Jots
<1> HIDE DEF pe, sq, oo
<1>7. Settled
  BY <1>2, <1>3, <1>4, <1>5, <1>6, SettleTyped
<1>8. RestTyped
  BY <1>2, <1>3 DEF RestTyped, Typed
<1> QED BY <1>7, <1>8, TypedNext

(* The maker of a directory gets its lease.                                *)
LEMMA LeadsTyped ==
  ASSUME Typed, NEW c \in Client, Leads(c), work' \in 0..MaxWork
  PROVE  Typed'
<1> DEFINE x == op[c].x
           new == table[c][x] = NoTable
           tn == IF new THEN [table EXCEPT ![c][x] = LocalTable(NoKids)] ELSE table
           sq == spoilt \cup IF new /\ (truth[x] # NoKids \/ Journaled(x)) THEN {x} ELSE {}
<1>1. /\ leader' = [leader EXCEPT ![x] = c] /\ Settle(c, Idle, {}, tn, pend, sq)
      /\ UNCHANGED <<fresh, pool, used, truth, crossed>> /\ op[c].ph = "lease"
  BY Zenon DEF Leads
<1>2. x \in Dir
  BY <1>1, OpParts DEF Sound, Dir
<1>3. tn \in TableMaps
  <2>1. LocalTable(NoKids) \in Tables
    BY TableParts, EmptyParts
  <2> QED BY <1>2, <2>1 DEF Typed, TableMaps
<1>4. pend \in PendMaps /\ sq \in SUBSET Dir /\ {} \in SUBSET Client
  BY <1>2 DEF Typed, PendMaps
<1> HIDE DEF tn, sq
<1>5. Settled
  BY <1>1, <1>3, <1>4, IdleParts, SettleTyped
<1>6. RestTyped
  BY <1>1 DEF RestTyped, Typed, Leaders
<1> QED BY <1>5, <1>6, TypedNext

(* A checkpoint.                                                           *)
LEMMA SavesTyped ==
  ASSUME Typed, NEW c \in Client, NEW d \in Dir, Saves(c, d), work' \in 0..MaxWork
  PROVE  Typed'
<1> DEFINE p == pend[c][d]
           pe == [pend EXCEPT ![c][d] = NoPend]
           ob == IF p.self = "gone" THEN [made |-> FALSE, kids |-> NoKids]
                 ELSE [made |-> TRUE, kids |-> Overlay(pool[d].kids, p)]
<1>1. /\ pool' = [pool EXCEPT ![d] = ob] /\ Settle(c, op[c], {}, table, pe, spoilt)
      /\ UNCHANGED <<leader, fresh, used, truth, crossed>>
  BY DEF Saves
<1>2. p \in Pends /\ pool[d].kids \in Kids
  BY DEF Typed, Objects
<1>3. ob \in Objects
  BY <1>2, EmptyParts DEF Objects, Overlay, Pends, Kids, Recs
<1>4. pe \in PendMaps
  BY EmptyParts, PendUpdate DEF Typed, PendMaps
<1>5. table \in TableMaps /\ spoilt \in SUBSET Dir /\ {} \in SUBSET Client
      /\ op[c] \in Ops /\ (op[c] # Idle => c \in up)
  BY DEF Typed, TableMaps, Busy
<1> HIDE DEF pe, ob
<1>6. Settled
  BY <1>1, <1>4, <1>5, SettleTyped
<1>7. RestTyped
  BY <1>1, <1>3 DEF RestTyped, Typed
<1> QED BY <1>6, <1>7, TypedNext

(* The first state.                                                        *)
LEMMA InitTyped == Init => Typed
<1> SUFFICES ASSUME Init PROVE Typed
  OBVIOUS
<1>1. truth \in [Dir -> Kids]
  BY StartsAssumption DEF Init, Kids
<1>2. pool \in [Dir -> Objects]
  BY <1>1 DEF Init, Objects
<1>3. table \in [Client -> [Dir -> Tables]] /\ pend \in [Client -> [Dir -> Pends]]
  BY TableParts, EmptyParts DEF Init
<1>4. op \in [Client -> Ops] /\ Busy
  BY IdleParts DEF Init, Busy
<1>5. used \subseteq Ino
  BY <1>1 DEF Init, Kids
<1>6. leader \in Leaders /\ up \subseteq Client /\ spoilt \subseteq Dir /\ work \in 0..MaxWork
      /\ fresh \subseteq Dir /\ crossed \subseteq File
  BY BoundAssumption DEF Init, Leaders
<1> QED BY <1>1, <1>2, <1>3, <1>4, <1>5, <1>6 DEF Typed

(* Every step.                                                             *)
LEMMA NextTyped ==
  ASSUME Typed, [Next]_vars
  PROVE  Typed'
<1>0. work' \in 0..MaxWork
  BY WorkBound
<1>1. ASSUME NEW c \in Client, Formed(c) PROVE Typed'
  BY <1>0, <1>1, LooksTyped, DoesTyped, JotsTyped, LeadsTyped DEF Formed
<1>2. ASSUME NEW c \in Client, Call(c) PROVE Typed'
  <2>1. PICK o \in Ops : c \in up /\ Begin(c, o)
    BY <1>2, CallForm DEF Begins
  <2>2. o.x \in Opt(Ino)
    BY DEF Ops, OpRecords
  <2> QED BY <1>0, <2>1, <2>2 DEF Begin, Typed, Busy, Opt
<1>3. ASSUME NEW c \in Client, directory_table(c) PROVE Typed'
  <2>1. Fetched(c, {Root}) \in TableMaps /\ Leased(c, {Root}) \in Leaders
        /\ Overtaken(c, {Root}) \subseteq Dir
    BY FetchedType DEF TableMaps, Dir
  <2> QED BY <1>0, <1>3, <2>1 DEF directory_table, Typed, Busy, TableMaps
<1>4. ASSUME NEW c \in Client, NEW d \in Dir, Checkpoint(c, d) PROVE Typed'
  BY <1>0, <1>4, SaveForm, LooksTyped, SavesTyped
<1>5. ASSUME NEW d \in Dir, Lapse(d) PROVE Typed'
  <2>1. table' \in TableMaps
    BY <1>5, TableParts DEF Lapse, Typed, TableMaps
  <2>2. leader' \in Leaders /\ fresh' \subseteq Dir
    BY <1>5 DEF Lapse, Typed, Leaders
  <2>3. \A i \in Client : op'[i] \in Ops /\ (op'[i] = Idle <=> op[i] = Idle)
    BY <1>5, OnwardsParts DEF Lapse
  <2>4. op' \in [Client -> Ops] /\ Busy'
    BY <1>5, <2>3 DEF Lapse, Typed, Busy
  <2> QED BY <1>0, <1>5, <2>1, <2>2, <2>4 DEF Lapse, Typed, TableMaps
<1>6. CASE UNCHANGED vars
  BY <1>6 DEF vars, Typed, Busy
<1>7. ASSUME NEW c \in Client, acquire_behind(c) PROVE Typed'
  <2>1. RemoteTable(c) \in Tables
    BY TableParts
  <2>2. table' \in TableMaps
    BY <1>7, <2>1 DEF acquire_behind, Typed, TableMaps
  <2> QED BY <1>0, <1>7, <2>2 DEF acquire_behind, Typed, Busy, TableMaps
<1> QED BY <1>1, <1>2, <1>3, <1>4, <1>5, <1>6, <1>7, StepForm DEF Next

(* For any set of clients, directories, names and files, and however       *)
(* lookups, changes, lost replies, crashes, remounts, checkpoints and      *)
(* expiring leases interleave: every variable has its type; above all a    *)
(* remote table always has a client's address, and no operation goes on    *)
(* with an address or a directory that is none.                            *)
THEOREM TypeCorrect == Spec => []TypeOK
BY InitTyped, NextTyped, TypedIsTypeOK, PTL DEF Spec

-----------------------------------------------------------------------------
(* What the tables, the journals and the objects say of a directory.       *)

(* Tables tb, journals pe and objects k agree on directory d with t: the   *)
(* leader has t and nobody else has journaled anything; a directory is     *)
(* removed when it is empty only; what is journaled is t, and what is not  *)
(* is in the objects.                                                      *)
Agrees(d, tb, pe, t, k) ==
  /\ \A c \in Client : tb[c][d].loc = "LOCAL" =>
       /\ tb[c][d].kids = t
       /\ \A i \in Client : pe[i][d].self # "gone" /\ (i # c => pe[i][d].kids = NoChange)
  /\ \A i \in Client : pe[i][d].self = "gone" => t = NoKids
  /\ \A n \in Name :
       /\ \A i \in Client : pe[i][d].kids[n] \in {Keep, t[n]}
       /\ (\A i \in Client : pe[i][d].kids[n] = Keep) => k[n] = t[n]

AgreeInv == \A d \in Dir \ spoilt : Agrees(d, table, pend, truth[d], pool[d].kids)

(* The invariant says what Agreement does.                                 *)
LEMMA AgreeIsAgreement == AgreeInv => Agreement
<1> SUFFICES ASSUME AgreeInv, NEW d \in Dir \ spoilt, NEW n \in Name
             PROVE  /\ \A c \in Client : table[c][d].loc = "LOCAL" => table[c][d].kids[n] = truth[d][n]
                    /\ LET journaled == {pend[c][d].kids[n] : c \in Client} \ {Keep}
                       IN  IF journaled = {} THEN pool[d].kids[n] = truth[d][n]
                           ELSE journaled = {truth[d][n]}
  BY DEF Agreement
<1>1. Agrees(d, table, pend, truth[d], pool[d].kids)
  BY DEF AgreeInv
<1> QED BY <1>1 DEF Agrees

(* A step that ends with Settle keeps the agreement of what it leaves: the *)
(* directories of which a dead client had journaled something are spoilt.  *)
LEMMA SettleAgrees ==
  ASSUME NEW c, NEW o, NEW dead, NEW tb, NEW pe, NEW sp,
         Settle(c, o, dead, tb, pe, sp),
         \A d \in Dir \ sp : Agrees(d, tb, pe, truth'[d], pool'[d].kids)
  PROVE  AgreeInv'
<1> SUFFICES ASSUME NEW d \in Dir \ spoilt' PROVE Agrees(d, table', pend', truth'[d], pool'[d].kids)
  BY DEF AgreeInv
<1>1. sp \subseteq spoilt' /\ \A i \in dead : pe[i][d] = NoPend
  BY DEF Settle
<1>2. \A i \in Client : pend'[i][d] = pe[i][d]
  BY <1>1 DEF Settle
<1>3. \A i \in Client : table'[i][d] = tb[i][d] \/ table'[i][d] = NoTable
  BY DEF Settle
<1>4. Agrees(d, tb, pe, truth'[d], pool'[d].kids)
  BY <1>1
<1> QED BY <1>2, <1>3, <1>4, TableParts DEF Agrees

(* A directory that is loaded while nothing of it is journaled is as the   *)
(* operations made it.  (directory_table::lease_dentry_table)              *)
LEMMA FetchAgrees ==
  ASSUME Typed, AgreeInv, NEW c \in Client, NEW D, NEW d \in Dir \ Spoils(c, D)
  PROVE  Agrees(d, Fetched(c, D), pend, truth[d], pool[d].kids)
<1>1. Agrees(d, table, pend, truth[d], pool[d].kids)
  BY DEF AgreeInv, Spoils
<1>2. \A i \in Client \ {c} : Fetched(c, D)[i][d] = table[i][d]
  BY FetchedType
<1>3. CASE Fetched(c, D)[c][d] = table[c][d]
  BY <1>1, <1>2, <1>3 DEF Agrees
<1>4. CASE Fetched(c, D)[c][d] # table[c][d]
  <2>1. d \in D /\ Fetched(c, D)[c][d] = get_dentry_table(c, d)
    BY <1>4, FetchedType
  <2>2. table[c][d] = NoTable /\ get_dentry_table(c, d) = lease_dentry_table(c, d)
    BY <1>4, <2>1 DEF get_dentry_table
  <2>3. CASE get_dentry_table(c, d).loc # "LOCAL"
    BY <1>1, <1>2, <2>1, <2>3 DEF Agrees
  <2>4. CASE get_dentry_table(c, d).loc = "LOCAL"
    <3>1. ~Journaled(d)
      BY <2>1, <2>2, <2>4 DEF Spoils, Overtaken
    <3>2. \A i \in Client : pend[i][d].kids = NoChange /\ pend[i][d].self # "gone"
      BY <3>1, EmptyParts DEF Journaled
    <3>3. \A n \in Name : pool[d].kids[n] = truth[d][n]
      BY <1>1, <3>2, EmptyParts DEF Agrees
    <3>4. pool[d].kids = truth[d]
      BY <3>3 DEF Typed, Objects, Kids
    <3>5. get_dentry_table(c, d).kids = pool[d].kids
      <4>1. get_dentry_table(c, d) = LocalTable(pool[d].kids)
        BY <2>2, <2>4, TableKinds DEF Kinds, lease_dentry_table
      <4> QED BY <4>1 DEF LocalTable
    <3> QED BY <1>1, <1>2, <2>1, <3>2, <3>4, <3>5 DEF Agrees
  <2> QED BY <2>3, <2>4
<1> QED BY <1>3, <1>4

(* Looking directories up.                                                 *)
LEMMA LooksAgrees ==
  ASSUME Typed, AgreeInv, NEW c \in Client, Looking(c)
  PROVE  AgreeInv'
<1>1. PICK D \in SUBSET Dir, o \in Ops, dead \in SUBSET Client : Looks(c, D, o, dead)
  BY DEF Looking
<1>2. \A d \in Dir \ Spoils(c, D) : Agrees(d, Fetched(c, D), pend, truth'[d], pool'[d].kids)
  BY <1>1, FetchAgrees DEF Looks
<1> QED BY <1>1, <1>2, SettleAgrees DEF Looks

(* A client that mounts again.                                             *)
LEMMA MountAgrees ==
  ASSUME Typed, AgreeInv, NEW c \in Client, directory_table(c)
  PROVE  AgreeInv'
<1>1. \A d \in Dir \ Spoils(c, {Root}) : Agrees(d, Fetched(c, {Root}), pend, truth[d], pool[d].kids)
  BY FetchAgrees
<1> QED BY <1>1 DEF directory_table, AgreeInv, Spoils

(* A directory other than the one a change is of.                          *)
LEMMA DoesElsewhere ==
  ASSUME Typed, NEW c \in Client, NEW s \in Client, NEW d \in Dir, NEW tb, NEW kids,
         NEW rec \in Recs, NEW held, NEW lost \in BOOLEAN, NEW e \in Dir, e # d, NEW t, NEW k,
         Agrees(e, tb, pend, t, k)
  PROVE  Agrees(e, NewTables(s, d, op[c], kids, held, tb), Journals(c, s, d, op[c], rec, lost), t, k)
<1> DEFINE pe == Journals(c, s, d, op[c], rec, lost)
           tn == NewTables(s, d, op[c], kids, held, tb)
<1>1. \A i \in Client : pe[i][e].kids = pend[i][e].kids
                        /\ (pe[i][e].self = "gone" => pend[i][e].self = "gone")
  BY JournalsParts
<1>2. \A i \in Client : tn[i][e] = tb[i][e] \/ tn[i][e] = NoTable
  BY DEF NewTables
<1> HIDE DEF pe, tn
<1>3. Agrees(e, tn, pe, t, k)
  BY <1>1, <1>2, TableParts DEF Agrees
<1> QED BY <1>3 DEF pe, tn

(* The directory a change is of: the leader does it, has the new entries   *)
(* and has journaled them.                                                 *)
LEMMA DoesHere ==
  ASSUME Typed, NEW c \in Client, NEW s \in Client, NEW d \in Dir, NEW tb \in TableMaps,
         NEW r, NEW lost \in BOOLEAN, NEW t \in Kids, NEW k,
         Agrees(d, tb, pend, t, k), tb[s][d].loc = "LOCAL",
         \A i \in Client : tb[i][d].loc = "LOCAL" => i = s,
         Served(r, tb[s][d].kids),
         Top(op[c]) => tb[s][d].kids = NoKids /\ r.rec = NoChange,
         \A n \in Name : r.rec[n] \in {Keep, r.kids[n]}
  PROVE  Agrees(d, NewTables(s, d, op[c], r.kids, {}, tb), Journals(c, s, d, op[c], r.rec, lost),
                Applied(t, r.rec), k)
<1> DEFINE pe == Journals(c, s, d, op[c], r.rec, lost)
           tn == NewTables(s, d, op[c], r.kids, {}, tb)
           a == Applied(t, r.rec)
<1>1. r.kids \in Kids /\ r.rec \in Recs /\ tb[s][d].kids = t
  BY DEF Served, Agrees
<1>2. \A n \in Name : r.rec[n] = Keep => r.kids[n] = t[n]
  BY <1>1 DEF Served
<1>3. a \in Kids /\ \A n \in Name : a[n] = IF r.rec[n] = Keep THEN t[n] ELSE r.rec[n]
  BY <1>1, AppliedType DEF Applied
<1>4. r.kids = a
  BY <1>1, <1>2, <1>3 DEF Kids
<1>5. /\ \A i \in Client : i # s => pe[i][d].kids = pend[i][d].kids
      /\ \A n \in Name : pe[s][d].kids[n] = IF r.rec[n] = Keep THEN pend[s][d].kids[n] ELSE r.rec[n]
      /\ \A i \in Client : pe[i][d].self = "gone" => pend[i][d].self = "gone" \/ Top(op[c])
  BY <1>1, JournalsParts
<1>6. \A i \in Client : tn[i][d] = IF i # s THEN tb[i][d]
                                   ELSE IF Top(op[c]) THEN NoTable ELSE LocalTable(r.kids)
  BY DEF NewTables
<1>7. \A i \in Client : pend[i][d].self # "gone" /\ (i # s => pend[i][d].kids = NoChange)
  BY DEF Agrees
<1>8. LocalTable(a).kids = a
  BY <1>3, TableParts
<1> HIDE DEF pe, tn, a
<1>9. Top(op[c]) => a = NoKids
  <2>1. Top(op[c]) => t = NoKids /\ \A n \in Name : r.rec[n] = Keep
    BY <1>1, EmptyParts
  <2>2. Top(op[c]) => \A n \in Name : a[n] = NoKids[n]
    BY <1>3, <2>1
  <2> QED BY <1>3, <2>2, EmptyParts DEF Kids
<1>10. ASSUME NEW i \in Client, tn[i][d].loc = "LOCAL"
       PROVE  tn[i][d].kids = a /\ \A j \in Client : pe[j][d].self # "gone" /\ (j # i => pe[j][d].kids = NoChange)
  <2>1. i = s /\ ~Top(op[c])
    BY <1>6, <1>10, TableParts
  <2> QED BY <1>4, <1>5, <1>6, <1>7, <1>8, <2>1
<1>11. \A i \in Client : pe[i][d].self = "gone" => a = NoKids
  BY <1>5, <1>7, <1>9
<1>12. ASSUME NEW n \in Name
       PROVE  /\ \A i \in Client : pe[i][d].kids[n] \in {Keep, a[n]}
              /\ (\A i \in Client : pe[i][d].kids[n] = Keep) => k[n] = a[n]
  <2>1. /\ \A i \in Client : pend[i][d].kids[n] \in {Keep, t[n]}
        /\ (\A i \in Client : pend[i][d].kids[n] = Keep) => k[n] = t[n]
    BY DEF Agrees
  <2>2. \A i \in Client : i # s => pe[i][d].kids[n] = Keep /\ pend[i][d].kids[n] = Keep
    BY <1>5, <1>7, EmptyParts
  <2> QED BY <1>3, <1>5, <2>1, <2>2
<1>13. Agrees(d, tn, pe, a, k)
  BY <1>10, <1>11, <1>12 DEF Agrees
<1> QED BY <1>13 DEF pe, tn, a

(* A change.                                                               *)
LEMMA DoesAgrees ==
  ASSUME Typed, IInv, AgreeInv, NEW c \in Client, Doing(c)
  PROVE  AgreeInv'
<1>0. PICK s \in Client, D \in SUBSET Dir, lost \in BOOLEAN : \E k, held : Does(c, s, D, k, held, lost)
  BY DEF Doing
<1>1. PICK k, held : Does(c, s, D, k, held, lost)
  BY <1>0
<1> DEFINE o == op[c]
           d == Stage(o)
           tb == Fetched(c, D)
           r == Serve(o, k)
           pe == Journals(c, s, d, o, r.rec, lost)
           tn == NewTables(s, d, o, r.kids, held, tb)
           sq == Spoils(c, D) \cup NewSpoils(d, o, r, held, lost)
<1>2. /\ r.ret = "ok" /\ Served(r, k) /\ k \in Kids /\ d \in Dir
      /\ held = {} => tb[s][d].loc = "LOCAL" /\ k = tb[s][d].kids
      /\ truth' = [truth EXCEPT ![d] = Applied(truth[d], r.rec)]
      /\ \E oo, dead : Settle(c, oo, dead, tn, pe, sq)
      /\ leader' = Leased(c, D) /\ UNCHANGED <<pool, used>>
  <2>1. DoesParts(c, s, D, k, held, lost)
    BY <1>1, DoesAre
  <2>2. leader' = Leased(c, D) /\ UNCHANGED <<pool, used>>
    BY <1>1 DEF Does
  <2> QED BY <2>1, <2>2, Zenon DEF DoesParts
<1>3. tb \in TableMaps /\ \A e \in Dir \ Spoils(c, D) : Agrees(e, tb, pend, truth[e], pool[e].kids)
  BY FetchedType, FetchAgrees DEF TableMaps
<1>4. held = {} => \A i \in Client : tb[i][d].loc = "LOCAL" => i = s
  BY <1>2, FetchedLed DEF Led
<1>5. Top(o) => k = NoKids /\ r.rec = NoChange
  BY <1>2, TopEmpty DEF Top
<1>6. r.rec \in Recs
  BY <1>2 DEF Served
<1> HIDE DEF tb, r, d
<1>7. ASSUME NEW e \in Dir \ sq PROVE Agrees(e, tn, pe, truth'[e], pool'[e].kids)
  <2>1. Agrees(e, tb, pend, truth[e], pool[e].kids)
    BY <1>3
  <2>2. CASE e # d
    <3>1. truth'[e] = truth[e] /\ pool'[e].kids = pool[e].kids
      BY <1>2, <2>2 DEF Typed
    <3>2. Agrees(e, tn, pe, truth[e], pool[e].kids)
      BY <1>2, <1>6, <2>1, <2>2, DoesElsewhere
    <3> QED BY <3>1, <3>2
  <2>3. CASE e = d
    <3>1. truth'[d] = Applied(truth[d], r.rec) /\ pool'[d].kids = pool[d].kids
      BY <1>2 DEF Typed
    <3>2. (\A n \in Name : r.rec[n] \in {Keep, r.kids[n]}) /\ held = {}
      BY <1>7, <2>3 DEF NewSpoils
    <3>3. truth[d] \in Kids
      BY <1>2 DEF Typed
    <3>4. Agrees(d, tb, pend, truth[d], pool[d].kids)
      BY <2>1, <2>3
    <3>5. Agrees(d, tn, pe, Applied(truth[d], r.rec), pool[d].kids)
      BY <1>2, <1>3, <1>4, <1>5, <3>2, <3>3, <3>4, DoesHere
    <3> HIDE DEF tn, pe
    <3> QED BY <2>3, <3>1, <3>5
  <2> QED BY <2>2, <2>3
<1> HIDE DEF tn, pe, sq
<1> QED BY <1>2, <1>7, SettleAgrees

(* A removal that is journaled without the entries spoils the directory.   *)
LEMMA JotsAgrees ==
  ASSUME Typed, AgreeInv, NEW c \in Client, Jotting(c)
  PROVE  AgreeInv'
<1>1. PICK s \in Client, D \in SUBSET Dir : Jots(c, s, D)
  BY DEF Jotting
<1> DEFINE d == Stage(op[c])
           tb == Fetched(c, D)
           pe == Jotted(s, d, op[c].n)
           sq == Spoils(c, D) \cup {d}
<1>2. /\ d \in Dir /\ op[c].n \in Name /\ UNCHANGED <<pool, truth>>
      /\ Settle(c, Beyond(op[c]), {}, tb, pe, sq)
  BY <1>1, OpParts DEF Jots, Jotted, Sound
<1>3. \A e \in Dir \ Spoils(c, D) : Agrees(e, tb, pend, truth[e], pool[e].kids)
  BY FetchAgrees
<1>4. \A i \in Client, e \in Dir : e # d => pe[i][e] = pend[i][e]
  BY <1>2, JottedParts
<1> HIDE DEF pe, tb
<1>5. \A e \in Dir \ sq : Agrees(e, tb, pe, truth'[e], pool'[e].kids)
  BY <1>2, <1>3, <1>4 DEF Agrees
<1> HIDE DEF sq
<1> QED BY <1>2, <1>5, SettleAgrees

(* The maker of a directory starts from what the operations made of it,    *)
(* nothing.  (directory_table::lease_dentry_table_mkdir)                   *)
LEMMA LeadsAgrees ==
  ASSUME Typed, AgreeInv, NEW c \in Client, Leads(c)
  PROVE  AgreeInv'
<1> DEFINE x == op[c].x
           new == table[c][x] = NoTable
           tn == IF new THEN [table EXCEPT ![c][x] = LocalTable(NoKids)] ELSE table
           sq == spoilt \cup IF new /\ (truth[x] # NoKids \/ Journaled(x)) THEN {x} ELSE {}
<1>1. /\ Settle(c, Idle, {}, tn, pend, sq)
      /\ UNCHANGED <<pool, truth>> /\ op[c].ph = "lease"
  BY Zenon DEF Leads
<1>2. x \in Dir
  BY <1>1, OpParts DEF Sound, Dir
<1>3. ASSUME NEW e \in Dir \ sq PROVE Agrees(e, tn, pend, truth[e], pool[e].kids)
  <2>1. Agrees(e, table, pend, truth[e], pool[e].kids)
    BY DEF AgreeInv
  <2>2. CASE e = x /\ new
    <3>1. truth[x] = NoKids /\ ~Journaled(x)
      BY <1>3, <2>2
    <3>2. \A i \in Client : pend[i][x].kids = NoChange /\ pend[i][x].self # "gone"
      BY <3>1, EmptyParts DEF Journaled
    <3>3. tn[c][x] = LocalTable(NoKids) /\ \A i \in Client \ {c} : tn[i][x] = table[i][x]
      BY <1>2, <2>2 DEF Typed
    <3>4. LocalTable(NoKids).kids = NoKids
      BY DEF LocalTable
    <3> HIDE DEF tn
    <3> QED BY <2>1, <2>2, <3>1, <3>2, <3>3, <3>4 DEF Agrees
  <2>3. CASE ~(e = x /\ new)
    <3>1. \A i \in Client : tn[i][e] = table[i][e]
      BY <1>2, <2>3 DEF Typed
    <3> HIDE DEF tn
    <3> QED BY <2>1, <3>1 DEF Agrees
  <2> QED BY <2>2, <2>3
<1> HIDE DEF tn, sq
<1> QED BY <1>1, <1>3, SettleAgrees

(* A checkpoint moves what is journaled to the objects.                    *)
LEMMA SavesAgrees ==
  ASSUME Typed, AgreeInv, NEW c \in Client, NEW d \in Dir, Saves(c, d)
  PROVE  AgreeInv'
<1> DEFINE p == pend[c][d]
           pe == [pend EXCEPT ![c][d] = NoPend]
<1>1. /\ pool' = [pool EXCEPT ![d] = IF p.self = "gone" THEN [made |-> FALSE, kids |-> NoKids]
                                     ELSE [made |-> TRUE, kids |-> Overlay(pool[d].kids, p)]]
      /\ Settle(c, op[c], {}, table, pe, spoilt) /\ UNCHANGED truth
  BY DEF Saves
<1>2. /\ \A e \in Dir \ {d} : pool'[e] = pool[e]
      /\ pool'[d].kids = IF p.self = "gone" THEN NoKids ELSE Overlay(pool[d].kids, p)
  BY <1>1 DEF Typed
<1>3. \A i \in Client, e \in Dir : pe[i][e] = IF i = c /\ e = d THEN NoPend ELSE pend[i][e]
  BY DEF Typed
<1> HIDE DEF pe
<1>4. ASSUME NEW e \in Dir \ spoilt PROVE Agrees(e, table, pe, truth[e], pool'[e].kids)
  <2>1. Agrees(e, table, pend, truth[e], pool[e].kids)
    BY DEF AgreeInv
  <2>2. CASE e # d
    BY <1>2, <1>3, <2>1, <2>2 DEF Agrees
  <2>3. CASE e = d
    <3>1. /\ \A i \in Client : pe[i][d].self = "gone" => pend[i][d].self = "gone"
          /\ \A i \in Client : pend[i][d].kids = NoChange => pe[i][d].kids = NoChange
      BY <1>3, EmptyParts
    <3>2. ASSUME NEW n \in Name
          PROVE  /\ \A i \in Client : pe[i][d].kids[n] \in {Keep, truth[d][n]}
                 /\ (\A i \in Client : pe[i][d].kids[n] = Keep) => pool'[d].kids[n] = truth[d][n]
      <4>1. /\ \A i \in Client : pend[i][d].kids[n] \in {Keep, truth[d][n]}
            /\ (\A i \in Client : pend[i][d].kids[n] = Keep) => pool[d].kids[n] = truth[d][n]
        BY <2>1, <2>3 DEF Agrees
      <4>2. \A i \in Client : pe[i][d].kids[n] = IF i = c THEN Keep ELSE pend[i][d].kids[n]
        BY <1>3, EmptyParts
      <4>3. p.self = "gone" => truth[d] = NoKids
        BY <2>1, <2>3 DEF Agrees
      <4>4. Overlay(pool[d].kids, p)[n] = IF p.kids[n] = Keep THEN pool[d].kids[n] ELSE p.kids[n]
        BY DEF Overlay
      <4> QED BY <1>2, <4>1, <4>2, <4>3, <4>4
    <3> QED BY <2>1, <2>3, <3>1, <3>2 DEF Agrees
  <2> QED BY <2>2, <2>3
<1> QED BY <1>1, <1>4, SettleAgrees

(* A lease that runs out takes tables away.                                *)
LEMMA LapseAgrees ==
  ASSUME Typed, AgreeInv, NEW d \in Dir, Lapse(d)
  PROVE  AgreeInv'
<1>1. \A i \in Client, e \in Dir : table'[i][e] = table[i][e] \/ table'[i][e] = NoTable
  BY DEF Lapse, Typed
<1>2. UNCHANGED <<pend, pool, truth, spoilt>>
  BY DEF Lapse
<1> QED BY <1>1, <1>2, TableParts DEF AgreeInv, Agrees

(* A refusal with the client's own address has no entries.                 *)
LEMMA BehindAgrees ==
  ASSUME Typed, AgreeInv, NEW c \in Client, acquire_behind(c)
  PROVE  AgreeInv'
<1>1. PICK d \in fresh : table' = [table EXCEPT ![c][d] = RemoteTable(c)]
  BY DEF acquire_behind
<1>2. \A i \in Client, e \in Dir : table'[i][e] = table[i][e] \/ table'[i][e] = RemoteTable(c)
  BY <1>1 DEF Typed
<1>3. RemoteTable(c).loc # "LOCAL"
  BY TableParts
<1>4. UNCHANGED <<pend, pool, truth, spoilt>>
  BY DEF acquire_behind
<1> QED BY <1>2, <1>3, <1>4 DEF AgreeInv, Agrees

(* The first state.                                                        *)
LEMMA InitAgrees == Init => AgreeInv
<1> SUFFICES ASSUME Init, NEW d \in Dir PROVE Agrees(d, table, pend, truth[d], pool[d].kids)
  BY DEF AgreeInv
<1>1. \A i \in Client : pend[i][d] = NoPend /\ table[i][d] = NoTable
  BY DEF Init
<1>2. pool[d].kids = truth[d]
  BY DEF Init
<1> QED BY <1>1, <1>2, EmptyParts, TableParts DEF Agrees

(* Every step.                                                             *)
LEMMA NextAgrees ==
  ASSUME Typed, IInv, AgreeInv, [Next]_vars
  PROVE  AgreeInv'
<1>1. ASSUME NEW c \in Client, Formed(c) PROVE AgreeInv'
  BY <1>1, LooksAgrees, DoesAgrees, JotsAgrees, LeadsAgrees DEF Formed
<1>2. ASSUME NEW c \in Client, Call(c) PROVE AgreeInv'
  <2>1. PICK o \in Ops : Begin(c, o)
    BY <1>2, CallForm DEF Begins
  <2> QED BY <2>1 DEF Begin, AgreeInv
<1>3. ASSUME NEW c \in Client, NEW d \in Dir, Checkpoint(c, d) PROVE AgreeInv'
  BY <1>3, SaveForm, LooksAgrees, SavesAgrees
<1>4. CASE UNCHANGED vars
  BY <1>4 DEF vars, AgreeInv
<1> QED BY <1>1, <1>2, <1>3, <1>4, StepForm, MountAgrees, BehindAgrees, LapseAgrees DEF Next

(* For any set of clients, directories, names and files: unless one of the *)
(* races or failures that spoil a directory hits it, the leader's table    *)
(* has exactly the entries the operations have made, nobody else has       *)
(* changes of it in the journal, and the objects under the journals say    *)
(* the same, whoever leads it in turn and whenever checkpoints happen.     *)
THEOREM EntriesAgree == Spec => []Agreement
<1> DEFINE Inv == Typed /\ IInv /\ AgreeInv
<1>1. Init => Inv
  BY InitTyped, InitLed, InitAgrees
<1>2. Inv /\ [Next]_vars => Inv'
  BY NextTyped, NextLed, NextAgrees
<1>3. Inv => Agreement
  BY AgreeIsAgreement
<1> QED BY <1>1, <1>2, <1>3, PTL DEF Spec

-----------------------------------------------------------------------------
(* The objects behind the entries.                                         *)

Removes(o, s) == o.k = "rmdir" /\ o.ph = "two" /\ o.d1 = s

Removing(s) == \E c \in up : Removes(op[c], s)

HasObjects(s) == pool[s].made \/ (\E c \in up : pend[c][s].self = "made") \/ Removing(s)

(* An operation has the number s, or may still work on entries that do.    *)
CarriedBy(o, s) ==
  (o.k # "mkdir" /\ o.x = s) \/ (\E t \in o.old, n \in Name : t.kids[n] = s)

Carried(s) == \E c \in Client : CarriedBy(op[c], s)

(* The directory s has an entry: in what the operations made, the objects  *)
(* po, the tables tb or the journals pe.                                   *)
SeenIn(s, tr, po, tb, pe) ==
  \E d \in Dir, n \in Name :
    \/ tr[d][n] = s \/ po[d].kids[n] = s
    \/ \E c \in Client : tb[c][d].kids[n] = s \/ pe[c][d].kids[n] = s

(* A directory that has an entry anywhere has its objects, and a removal   *)
(* that is journaled is one that a live client is about to finish.  (It is *)
(* the second that a checkpoint of a removal needs.)                       *)
LoadInv ==
  \A s \in SubDir \ spoilt :
    /\ SeenIn(s, truth, pool, table, pend) \/ Carried(s) => HasObjects(s)
    /\ \A i \in Client : pend[i][s].self = "gone" => Removing(s)

(* The invariant says what Loads does.                                     *)
LEMMA LoadIsLoads == LoadInv => Loads
<1> SUFFICES ASSUME LoadInv, NEW n \in Name,
                    NEW s \in {truth[Root][n], pool[Root].kids[n]} \cap (SubDir \ spoilt)
             PROVE  \/ pool[s].made
                    \/ \E c \in up : pend[c][s].self = "made"
                    \/ \E c \in up : op[c].k = "rmdir" /\ op[c].ph = "two" /\ op[c].d1 = s
  BY DEF Loads
<1>1. Root \in Dir
  BY DEF Dir
<1>2. SeenIn(s, truth, pool, table, pend)
  BY <1>1 DEF SeenIn
<1>3. HasObjects(s)
  BY <1>2 DEF LoadInv
<1> QED BY <1>3 DEF HasObjects, Removing, Removes

(* A removal that has begun goes on, or ends.                              *)
Continues(o, u) == u = Idle \/ \A s \in Dir : Removes(o, s) => Removes(u, s)

(* A removal that c begins.                                                *)
Begun(c, o, dead, s) == c \in up /\ c \notin dead /\ Removes(o, s)

(* Tables that are dropped carry on what was seen in them.                 *)
LEMMA OnwardsLoad ==
  ASSUME Typed, NEW c \in Client, NEW dead, NEW tb, NEW s \in SubDir
  PROVE  LET w == Onwards(c, dead, tb)
         IN  /\ CarriedBy(w, s) => Carried(s) \/ SeenIn(s, truth, pool, table, pend)
             /\ Removes(op[c], s) <=> Removes(w, s)
<1> DEFINE w == Onwards(c, dead, tb)
           o == op[c]
           i == Worker(c)
           d == Stage(o)
<1>1. /\ w.k = o.k /\ w.ph = o.ph /\ w.x = o.x /\ w.d1 = o.d1
      /\ w.old # o.old /\ w.old # {} => i \in Client /\ w.old = o.old \cup {table[i][d]}
  <2> HIDE DEF w, i, d
  <2> QED BY OnwardsParts DEF w, i, d
<1>2. d \in Dir
  BY OpParts
<1> HIDE DEF w, i, d
<1>3. Removes(o, s) <=> Removes(w, s)
  BY <1>1 DEF Removes
<1>4. ASSUME CarriedBy(w, s) PROVE Carried(s) \/ SeenIn(s, truth, pool, table, pend)
  <2>1. CASE o.k # "mkdir" /\ o.x = s
    BY <2>1 DEF Carried, CarriedBy
  <2>2. CASE \E t \in w.old, n \in Name : t.kids[n] = s
    <3>1. PICK t \in w.old, n \in Name : t.kids[n] = s
      BY <2>2
    <3>2. CASE t \in o.old
      BY <3>1, <3>2 DEF Carried, CarriedBy
    <3>3. CASE t \notin o.old
      <4>1. i \in Client /\ t = table[i][d]
        BY <1>1, <3>1, <3>3
      <4> QED BY <1>2, <3>1, <4>1 DEF SeenIn
    <3> QED BY <3>2, <3>3
  <2> QED BY <1>1, <1>4, <2>1, <2>2 DEF CarriedBy
<1> QED BY <1>3, <1>4 DEF w

(* A step that ends with Settle leaves every removal to a live client, or  *)
(* spoils the directory.                                                   *)
LEMMA SettleRemoving ==
  ASSUME Typed, NEW c \in Client, NEW o, NEW dead, NEW tb, NEW pe, NEW sp,
         Settle(c, o, dead, tb, pe, sp), Continues(op[c], o),
         NEW s \in SubDir, s \notin spoilt', Removing(s) \/ Begun(c, o, dead, s)
  PROVE  Removing(s)'
<1>0. s \in Dir
  BY DEF Dir
<1>1. \A i \in Client : op'[i] = IF i \in dead THEN Idle ELSE IF i = c THEN o
                                 ELSE Onwards(i, dead, tb)
  BY DEF Settle
<1>2. up' = up \ dead
  BY DEF Settle
<1>3. CASE Begun(c, o, dead, s)
  BY <1>1, <1>2, <1>3 DEF Begun, Removing
<1>4. CASE Removing(s)
  <2>1. PICK i \in up : Removes(op[i], s)
    BY <1>4 DEF Removing
  <2>2. i \in Client
    BY DEF Typed
  <2>3. op'[i] # Idle
    BY <2>1, <2>2 DEF Settle, Removes
  <2>4. i \notin dead /\ (i = c => Removes(o, s))
    BY <1>0, <1>1, <2>1, <2>2, <2>3 DEF Continues
  <2>5. Removes(Onwards(i, dead, tb), s)
    BY <2>1, <2>2, OnwardsLoad
  <2>6. Removes(op'[i], s) /\ i \in up'
    BY <1>1, <1>2, <2>1, <2>2, <2>4, <2>5
  <2> QED BY <2>6 DEF Removing
<1> QED BY <1>3, <1>4

(* What is left of s after a step that leaves tables tb and journals pe.   *)
LoadStep(c, o, dead, tb, pe, s) ==
  /\ \A i \in Client : pend'[i][s].self = "gone" => Removing(s)'
  /\ (\/ pool'[s].made \/ (\E i \in up : pe[i][s].self = "made")
      \/ Removing(s) \/ Begun(c, o, dead, s)) => HasObjects(s)'
  /\ SeenIn(s, truth, pool, table, pend)' => SeenIn(s, truth', pool', tb, pe)
  /\ Carried(s)' => Carried(s) \/ SeenIn(s, truth, pool, table, pend) \/ CarriedBy(o, s)

(* A step that ends with Settle keeps what LoadInv says of s, if that is   *)
(* said of the journals it leaves.                                         *)
LEMMA SettleLoad ==
  ASSUME Typed, NEW c \in Client, NEW o, NEW dead, NEW tb, NEW pe \in PendMaps, NEW sp,
         Settle(c, o, dead, tb, pe, sp), Continues(op[c], o),
         NEW s \in SubDir, s \notin spoilt',
         \A i \in Client : pe[i][s].self = "gone" => Removing(s) \/ Begun(c, o, dead, s)
  PROVE  LoadStep(c, o, dead, tb, pe, s)
<1>0. s \in Dir /\ s # Nil /\ s # Keep
  BY DistinctAssumption DEF Dir, Ino
<1>1. \A i \in dead : pe[i][s] = NoPend
  BY <1>0 DEF Settle
<1>2. \A i \in Client : pend'[i] = IF i \in dead THEN [d \in Dir |-> NoPend] ELSE pe[i]
  BY DEF Settle
<1>3. \A i \in Client : pend'[i][s] = pe[i][s]
  BY <1>0, <1>1, <1>2
<1>4. \A i \in Client : pend'[i][s].self = "gone" => Removing(s)'
  BY <1>0, <1>3, SettleRemoving
<1>5. ASSUME pool'[s].made \/ (\E i \in up : pe[i][s].self = "made")
               \/ Removing(s) \/ Begun(c, o, dead, s)
      PROVE  HasObjects(s)'
  <2>1. CASE pool'[s].made
    BY <2>1 DEF HasObjects
  <2>2. CASE \E i \in up : pe[i][s].self = "made"
    <3>1. PICK i \in up : pe[i][s].self = "made"
      BY <2>2
    <3>2. i \in Client /\ i \notin dead
      BY <1>1, <3>1, EmptyParts DEF Typed
    <3>3. i \in up' /\ pend'[i][s].self = "made"
      BY <1>3, <3>1, <3>2 DEF Settle
    <3> QED BY <3>3 DEF HasObjects
  <2>3. CASE Removing(s) \/ Begun(c, o, dead, s)
    <3>1. Removing(s)'
      BY <1>0, <2>3, SettleRemoving
    <3> QED BY <3>1 DEF HasObjects
  <2> QED BY <1>5, <2>1, <2>2, <2>3
<1>6. ASSUME SeenIn(s, truth, pool, table, pend)' PROVE SeenIn(s, truth', pool', tb, pe)
  <2>1. PICK d \in Dir, n \in Name :
          \/ truth'[d][n] = s \/ pool'[d].kids[n] = s
          \/ \E i \in Client : table'[i][d].kids[n] = s \/ pend'[i][d].kids[n] = s
    BY <1>6 DEF SeenIn
  <2>2. ASSUME NEW i \in Client, table'[i][d].kids[n] = s PROVE tb[i][d].kids[n] = s
    <3>1. NoTable.kids[n] = Nil
      BY DEF NoTable, NoKids
    <3>2. i \notin dead
      BY <1>0, <2>2, <3>1 DEF Settle
    <3> QED BY <2>2, <3>2 DEF Settle
  <2>3. ASSUME NEW i \in Client, pend'[i][d].kids[n] = s PROVE pe[i][d].kids[n] = s
    BY <1>0, <1>2, <2>3, EmptyParts
  <2> QED BY <2>1, <2>2, <2>3 DEF SeenIn
<1>7. ASSUME Carried(s)'
      PROVE  Carried(s) \/ SeenIn(s, truth, pool, table, pend) \/ CarriedBy(o, s)
  <2>1. PICK i \in Client : CarriedBy(op'[i], s)
    BY <1>7 DEF Carried
  <2>2. op'[i] = IF i \in dead THEN Idle ELSE IF i = c THEN o ELSE Onwards(i, dead, tb)
    BY DEF Settle
  <2>3. ~CarriedBy(Idle, s)
    BY <1>0, IdleParts DEF CarriedBy
  <2>4. CarriedBy(Onwards(i, dead, tb), s) => Carried(s) \/ SeenIn(s, truth, pool, table, pend)
    BY OnwardsLoad
  <2> QED BY <2>1, <2>2, <2>3, <2>4
<1> QED BY <1>4, <1>5, <1>6, <1>7 DEF LoadStep

(* A lookup shows only directories that were seen before.                  *)
LEMMA FetchSeen ==
  ASSUME Typed, NEW c \in Client, NEW D, NEW s \in SubDir, NEW tr, NEW pe,
         SeenIn(s, tr, pool, Fetched(c, D), pe)
  PROVE  SeenIn(s, tr, pool, table, pe)
<1>0. s # Nil
  BY DistinctAssumption DEF Ino
<1>1. ASSUME NEW i \in Client, NEW d \in Dir, NEW n \in Name, Fetched(c, D)[i][d].kids[n] = s
      PROVE  table[i][d].kids[n] = s \/ pool[d].kids[n] = s
  <2>1. Fetched(c, D)[i][d] = table[i][d] \/ Fetched(c, D)[i][d] = lease_dentry_table(c, d)
    BY FetchedType DEF get_dentry_table
  <2>2. CASE Fetched(c, D)[i][d] = lease_dentry_table(c, d)
    <3>1. lease_dentry_table(c, d).kids \in {NoKids, pool[d].kids}
      BY DEF lease_dentry_table, NoTable, LocalTable, RemoteTable
    <3> QED BY <1>0, <1>1, <2>2, <3>1 DEF NoKids
  <2> QED BY <1>1, <2>1, <2>2
<1> QED BY <1>1 DEF SeenIn

(* Looking directories up.                                                 *)
LEMMA LooksLoad ==
  ASSUME Typed, LoadInv, NEW c \in Client, Looking(c)
  PROVE  LoadInv'
<1>1. PICK D \in SUBSET Dir, o \in Ops, dead \in SUBSET Client : Looks(c, D, o, dead)
  BY DEF Looking
<1> DEFINE tb == Fetched(c, D)
           sp == Spoils(c, D)
<1>2. Settle(c, o, dead, tb, pend, sp) /\ UNCHANGED <<pool, truth>> /\ Goes(c, o)
  BY <1>1 DEF Looks
<1>3. Continues(op[c], o) /\ pend \in PendMaps
  BY <1>2 DEF Continues, Goes, Removes, Typed, PendMaps
<1> SUFFICES ASSUME NEW s \in SubDir, s \notin spoilt'
             PROVE  /\ (SeenIn(s, truth, pool, table, pend) \/ Carried(s))' => HasObjects(s)'
                    /\ \A i \in Client : pend'[i][s].self = "gone" => Removing(s)'
  BY DEF LoadInv
<1>4. s \notin spoilt
  BY <1>2 DEF Settle, Spoils
<1>5. /\ SeenIn(s, truth, pool, table, pend) \/ Carried(s) => HasObjects(s)
      /\ \A i \in Client : pend[i][s].self = "gone" => Removing(s)
  BY <1>4 DEF LoadInv
<1>6. SeenIn(s, truth, pool, tb, pend) => SeenIn(s, truth, pool, table, pend)
  BY FetchSeen
<1>7. CarriedBy(o, s) => Carried(s)
  <2>1. ~CarriedBy(Idle, s)
    BY IdleParts, DistinctAssumption DEF CarriedBy, Ino
  <2>2. o # Idle => o.k = op[c].k /\ o.x = op[c].x /\ o.old \subseteq op[c].old
    BY <1>2 DEF Goes
  <2> QED BY <2>1, <2>2 DEF Carried, CarriedBy
<1> HIDE DEF tb, sp
<1>8. LoadStep(c, o, dead, tb, pend, s)
  BY <1>2, <1>3, <1>5, SettleLoad
<1> QED BY <1>2, <1>5, <1>6, <1>7, <1>8 DEF HasObjects, LoadStep

-----------------------------------------------------------------------------
(* What a change does to the entries: it puts the operation's file under a *)
(* name, takes a name away, gives the operation's file another name, finds *)
(* the file to move, or removes the directory.                             *)

Put(o, k, r, n) ==
  /\ o.k \in {"create", "symlink", "mkdir"} \/ (o.k = "rename" /\ o.p # o.q /\ o.ph = "two" /\ n = o.m)
  /\ r.rec = [NoChange EXCEPT ![n] = o.x]
  /\ r.kids = [k EXCEPT ![n] = o.x] \/ (r.kids = k /\ k[n] # Nil)
  /\ o.k # "rename" /\ k[n] # Nil => r.kids = k

Take(o, k, r) ==
  /\ o.k \in {"unlink", "rmdir", "rename"} /\ ~Top(o)
  /\ o.k = "rename" => o.p # o.q /\ o.ph = "take"
  /\ r.rec = [NoChange EXCEPT ![o.n] = Nil]
  /\ r.kids = [k EXCEPT ![o.n] = Nil]

Shift(o, k, r) ==
  /\ o.k = "rename" /\ o.p = o.q /\ o.ph = "take"
  /\ r.rec = [NoChange EXCEPT ![o.n] = Nil, ![o.m] = o.x]
  /\ r.kids = [k EXCEPT ![o.n] = Nil, ![o.m] = o.x]

Find(o, k, r) ==
  o.k = "rename" /\ o.ph = "one" /\ r.rec = NoChange /\ r.kids = k /\ k[o.n] # Nil

Effect(o, k, r) ==
  \/ \E n \in Name : Put(o, k, r, n)
  \/ Take(o, k, r)
  \/ Shift(o, k, r)
  \/ Find(o, k, r)
  \/ Top(o) /\ r.rec = NoChange /\ r.kids = NoKids

(* Making an entry over another.                                           *)
LEMMA EnterOver ==
  ASSUME NEW k \in Kids, NEW n \in Name, NEW x
  PROVE  Enter([k EXCEPT ![n] = Nil], n, x).kids = [k EXCEPT ![n] = x]
BY DEF Enter, Kids

(* Every handler that says ok.                                             *)
LEMMA ServeEffect ==
  ASSUME NEW o \in Ops, Staged(o), NEW k \in Kids, Serve(o, k).ret = "ok"
  PROVE  Effect(o, k, Serve(o, k))
<1>0. o \in OpRecords /\ Sound(o) /\ o.k # "idle"
  BY IdleParts DEF Ops, Sound, Staged
<1>1. o.x \in Ino \cup {Nil} /\ (o.k # "readdir" => o.n \in Name) /\ (o.k = "rename" => o.m \in Name)
  BY <1>0 DEF Sound, OpRecords, Opt
<1>2. ASSUME o.k \in {"create", "symlink", "mkdir"}, Serve(o, k) = Enter(k, o.n, o.x)
      PROVE  Put(o, k, Serve(o, k), o.n)
  BY <1>1, <1>2 DEF Put, Enter
<1>3. CASE o.k \in {"create", "symlink", "mkdir"}
  <2>1. Serve(o, k) = Enter(k, o.n, o.x)
    BY <1>3 DEF Serve, rpc_create, rpc_symlink, rpc_mkdir, Refuse
  <2> QED BY <1>1, <1>2, <1>3, <2>1 DEF Effect
<1>4. CASE o.k = "unlink"
  <2>1. Serve(o, k) = Drop(k, o.n)
    BY <1>4 DEF Serve, rpc_unlink, Refuse
  <2> QED BY <1>4, <2>1 DEF Effect, Take, Drop, Top
<1>5. CASE o.k = "readdir"
  BY <1>5 DEF Serve, rpc_readdir, Refuse
<1>6. CASE Top(o)
  <2>1. Serve(o, k) = rpc_rmdir_top(o, k)
    BY <1>6 DEF Serve, Top
  <2> QED BY <1>6, <2>1 DEF Effect, rpc_rmdir_top, Refuse
<1>7. CASE o.k = "rmdir" /\ ~Top(o)
  <2>1. Serve(o, k) = Drop(k, o.n)
    BY <1>7 DEF Serve, rpc_rmdir_down, Top
  <2> QED BY <1>7, <2>1 DEF Effect, Take, Drop
<1>8. CASE o.k = "rename" /\ o.p = o.q /\ o.ph = "take"
  <2>1. Serve(o, k) = rpc_rename_same_parent(o, k)
    BY <1>8 DEF Serve
  <2> QED BY <1>8, <2>1 DEF Effect, Shift, rpc_rename_same_parent
<1>9. CASE o.k = "rename" /\ o.p # o.q /\ o.ph = "take"
  <2>1. Serve(o, k) = Drop(k, o.n)
    BY <1>9 DEF Serve, rpc_rename_not_same_parent_src
  <2> QED BY <1>9, <2>1 DEF Effect, Take, Drop, Top
<1>11. CASE o.k = "rename" /\ o.ph = "one"
  <2>1. Serve(o, k) = rpc_rename_lookup(o, k)
    BY <1>11 DEF Serve
  <2> QED BY <1>11, <2>1 DEF Effect, Find, rpc_rename_lookup, Refuse
<1>10. CASE o.k = "rename" /\ o.p # o.q /\ o.ph = "two"
  <2>1. Serve(o, k) = rpc_rename_not_same_parent_dst(o, k)
    BY <1>10 DEF Serve
  <2>2. CASE Serve(o, k) = Enter(k, o.m, o.x)
    <3>1. Put(o, k, Serve(o, k), o.m)
      BY <1>1, <1>10, <2>2 DEF Put, Enter
    <3> QED BY <1>1, <1>10, <3>1 DEF Effect
  <2>3. CASE Serve(o, k) = Enter([k EXCEPT ![o.m] = Nil], o.m, o.x)
    <3>1. Enter([k EXCEPT ![o.m] = Nil], o.m, o.x).kids = [k EXCEPT ![o.m] = o.x]
      BY <1>1, <1>10, EnterOver
    <3>2. Enter([k EXCEPT ![o.m] = Nil], o.m, o.x).rec = [NoChange EXCEPT ![o.m] = o.x]
      BY DEF Enter
    <3> QED BY <1>1, <1>10, <2>3, <3>1, <3>2 DEF Effect, Put
  <2> QED BY <2>1, <2>2, <2>3 DEF rpc_rename_not_same_parent_dst, Refuse
<1>12. o.k = "rename" /\ o.ph = "two" => o.p # o.q
  BY <1>0 DEF Sound
<1> QED BY <1>0, <1>3, <1>4, <1>5, <1>6, <1>7, <1>8, <1>9, <1>10, <1>11, <1>12
        DEF OpRecords, Top, Staged

(* A change brings in the operation's file only.                           *)
LEMMA EffectValues ==
  ASSUME NEW o \in Ops, NEW k \in Kids, NEW r, Effect(o, k, r), NEW n \in Name
  PROVE  /\ r.rec[n] \in {Keep, Nil, o.x}
         /\ r.kids[n] \in {Nil, o.x} \cup {k[m] : m \in Name}
<1>0. Sound(o)
  BY DEF Ops
<1>1. CASE \E m \in Name : Put(o, k, r, m)
  BY <1>1, EmptyParts DEF Put, Kids, Recs
<1>2. CASE Take(o, k, r)
  <2>1. o.n \in Name
    BY <1>0, <1>2 DEF Take, Sound
  <2> QED BY <1>2, <2>1, EmptyParts DEF Take, Kids, Recs
<1>3. CASE Shift(o, k, r)
  <2>1. o.n \in Name /\ o.m \in Name
    BY <1>0, <1>3 DEF Shift, Sound
  <2> QED BY <1>3, <2>1, EmptyParts DEF Shift, Kids, Recs
<1>4. CASE Top(o) /\ r.rec = NoChange /\ r.kids = NoKids
  BY <1>4, EmptyParts DEF NoKids
<1>5. CASE Find(o, k, r)
  BY <1>5, EmptyParts DEF Find
<1> QED BY <1>1, <1>2, <1>3, <1>4, <1>5 DEF Effect

-----------------------------------------------------------------------------
(* Every other kind of step keeps LoadInv.                                 *)

(* Where a change leaves its operation: a removal ends, or begins with the *)
(* directory; the file an operation carries on is its own, or one of the   *)
(* entries the change was made in.                                         *)
LEMMA AfterParts ==
  ASSUME NEW o \in Ops, Staged(o), NEW k \in Kids, NEW held
  PROVE  LET u == After(o, k, held)
         IN  /\ Continues(o, u)
             /\ Top(o) => Removes(u, o.d1)
             /\ \A s : CarriedBy(u, s) => \/ s \in {Nil} \cup {k[n] : n \in Name}
                                          \/ o.k # "mkdir" /\ s = o.x
                                          \/ \E t \in held, n \in Name : t.kids[n] = s
<1> DEFINE u == After(o, k, held)
<1>0. o \in OpRecords /\ Sound(o) /\ o.k # "idle"
  BY IdleParts DEF Ops, Sound, Staged
<1>1. CASE o.k = "mkdir"
  <2>1. u = [o EXCEPT !.ph = "lease", !.old = {}]
    BY <1>1 DEF After
  <2>2. u.k = "mkdir" /\ u.old = {}
    BY <1>0, <1>1, <2>1 DEF OpRecords
  <2> HIDE DEF u
  <2>3. Continues(o, u) /\ ~Top(o) /\ \A s : ~CarriedBy(u, s)
    BY <1>1, <2>2 DEF Continues, Removes, Top, CarriedBy
  <2> QED BY <2>3 DEF u
<1>2. CASE o.ph = "one" /\ o.k = "rmdir"
  <2>1. u = [o EXCEPT !.ph = "two", !.old = {}]
    BY <1>2 DEF After
  <2>2. u.k = "rmdir" /\ u.ph = "two" /\ u.d1 = o.d1 /\ u.x = Nil /\ u.old = {}
    BY <1>0, <1>2, <2>1 DEF OpRecords, Sound
  <2> HIDE DEF u
  <2>3. Continues(o, u) /\ Removes(u, o.d1) /\ \A s : CarriedBy(u, s) => s = Nil
    BY <1>2, <2>2 DEF Continues, Removes, CarriedBy
  <2> QED BY <2>3 DEF u
<1>3. CASE o.ph = "one" /\ o.k = "rename"
  <2>1. u = [o EXCEPT !.ph = "take", !.x = k[o.n], !.old = held]
    BY <1>3 DEF After
  <2>2. u.k = "rename" /\ u.x = k[o.n] /\ u.old = held /\ o.n \in Name
    BY <1>0, <1>3, <2>1 DEF OpRecords, Sound
  <2> HIDE DEF u
  <2>3. /\ Continues(o, u) /\ ~Top(o)
        /\ \A s : CarriedBy(u, s) => s \in {k[n] : n \in Name} \/ \E t \in held, n \in Name : t.kids[n] = s
    BY <1>3, <2>2 DEF Continues, Removes, Top, CarriedBy
  <2> QED BY <2>3 DEF u
<1>4. CASE o.ph = "take" /\ o.k = "rename" /\ o.p # o.q
  <2>1. u = [o EXCEPT !.ph = "two", !.old = {}]
    BY <1>4 DEF After
  <2>2. u.k = "rename" /\ u.x = o.x /\ u.old = {}
    BY <1>0, <1>4, <2>1 DEF OpRecords
  <2> HIDE DEF u
  <2>3. Continues(o, u) /\ ~Top(o) /\ \A s : CarriedBy(u, s) => s = o.x
    BY <1>4, <2>2 DEF Continues, Removes, Top, CarriedBy
  <2> QED BY <1>4, <2>3 DEF u
<1>5. CASE u = Idle /\ ~Top(o)
  <2>1. Continues(o, Idle) /\ \A s : CarriedBy(Idle, s) => s = Nil
    BY IdleParts DEF Continues, CarriedBy
  <2> QED BY <1>5, <2>1
<1>6. (u = Idle /\ ~Top(o)) \/ o.k = "mkdir" \/ (o.ph = "one" /\ o.k \in {"rmdir", "rename"})
        \/ (o.ph = "take" /\ o.k = "rename" /\ o.p # o.q)
  BY DEF After, Top
<1> QED BY <1>1, <1>2, <1>3, <1>4, <1>5, <1>6

(* A change shows the operation's file, or what was seen before.           *)
LEMMA DoesSeen ==
  ASSUME Typed, NEW c \in Client, NEW s \in Client, NEW d \in Dir, NEW tb \in TableMaps,
         NEW k \in Kids, NEW held, NEW r, NEW lost \in BOOLEAN, NEW x \in SubDir,
         held = {} => k = tb[s][d].kids,
         Effect(op[c], k, r), Served(r, k),
         truth' = [truth EXCEPT ![d] = Applied(truth[d], r.rec)], UNCHANGED pool,
         SeenIn(x, truth', pool', NewTables(s, d, op[c], r.kids, held, tb),
                Journals(c, s, d, op[c], r.rec, lost))
  PROVE  SeenIn(x, truth, pool, tb, pend) \/ op[c].x = x
<1> DEFINE pe == Journals(c, s, d, op[c], r.rec, lost)
           tn == NewTables(s, d, op[c], r.kids, held, tb)
<1>0. x # Nil /\ x # Keep
  BY DistinctAssumption DEF Ino
<1>1. \A n \in Name : /\ r.rec[n] \in {Keep, Nil, op[c].x}
                      /\ r.kids[n] \in {Nil, op[c].x} \cup {k[m] : m \in Name}
  BY EffectValues, OpParts
<1>2. held = {} /\ (\E n \in Name : k[n] = x) => SeenIn(x, truth, pool, tb, pend)
  BY DEF SeenIn
<1>3. PICK e \in Dir, n \in Name :
        \/ truth'[e][n] = x \/ pool'[e].kids[n] = x
        \/ \E i \in Client : tn[i][e].kids[n] = x \/ pe[i][e].kids[n] = x
  BY DEF SeenIn
<1>4. ASSUME truth'[e][n] = x PROVE truth[e][n] = x \/ r.rec[n] = x
  <2>1. truth'[e] = IF e = d THEN Applied(truth[d], r.rec) ELSE truth[e]
    BY DEF Typed
  <2> QED BY <1>4, <2>1 DEF Applied
<1>5. ASSUME NEW i \in Client, tn[i][e].kids[n] = x
      PROVE  tb[i][e].kids[n] = x \/ (held = {} /\ r.kids[n] = x)
  <2>1. tn[i][e] \in {tb[i][e], NoTable} \/ (held = {} /\ tn[i][e] = LocalTable(r.kids))
    BY DEF NewTables
  <2>2. NoTable.kids[n] = Nil /\ LocalTable(r.kids).kids = r.kids
    BY DEF NoTable, NoKids, LocalTable
  <2> QED BY <1>0, <1>5, <2>1, <2>2
<1>6. ASSUME NEW i \in Client, pe[i][e].kids[n] = x PROVE pend[i][e].kids[n] = x \/ r.rec[n] = x
  <2>0. r.rec \in Recs
    BY DEF Served
  <2>1. /\ i # s \/ e # d => pe[i][e].kids = pend[i][e].kids
        /\ pe[s][d].kids[n] = IF r.rec[n] = Keep THEN pend[s][d].kids[n] ELSE r.rec[n]
    BY <2>0, JournalsParts
  <2> HIDE DEF pe
  <2> QED BY <1>6, <2>1
<1>7. r.rec[n] = x \/ (held = {} /\ r.kids[n] = x) => SeenIn(x, truth, pool, tb, pend) \/ op[c].x = x
  BY <1>0, <1>1, <1>2
<1>8. truth[e][n] = x \/ pool[e].kids[n] = x
        \/ (\E i \in Client : tb[i][e].kids[n] = x \/ pend[i][e].kids[n] = x)
      => SeenIn(x, truth, pool, tb, pend)
  BY DEF SeenIn
<1> HIDE DEF tn, pe
<1> QED BY <1>3, <1>4, <1>5, <1>6, <1>7, <1>8

(* A change.                                                               *)
LEMMA DoesLoad ==
  ASSUME Typed, LoadInv, NEW c \in Client, Doing(c)
  PROVE  LoadInv'
<1>0. PICK s \in Client, D \in SUBSET Dir, lost \in BOOLEAN : \E k, held : Does(c, s, D, k, held, lost)
  BY DEF Doing
<1>1. PICK k, held : Does(c, s, D, k, held, lost)
  BY <1>0
<1> DEFINE o == op[c]
           d == Stage(o)
           tb == Fetched(c, D)
           r == Serve(o, k)
           pe == Journals(c, s, d, o, r.rec, lost)
           tn == NewTables(s, d, o, r.kids, held, tb)
           sq == Spoils(c, D) \cup NewSpoils(d, o, r, held, lost)
           u == After(o, k, held)
           oo == IF lost THEN Idle ELSE u
           dead == IF lost THEN Victims(c) ELSE {}
<1>2. /\ r.ret = "ok" /\ Served(r, k) /\ k \in Kids /\ d \in Dir /\ Acting(c)
      /\ truth' = [truth EXCEPT ![d] = Applied(truth[d], r.rec)] /\ UNCHANGED pool
      /\ Settle(c, oo, dead, tn, pe, sq)
      /\ held = {} => k = tb[s][d].kids
      /\ held # {} => \E t \in o.old : held = {t} /\ k = t.kids
  <2>1. DoesParts(c, s, D, k, held, lost)
    BY <1>1, DoesAre
  <2>2. Acting(c) /\ UNCHANGED pool
    BY <1>1 DEF Does
  <2> QED BY <2>1, <2>2, Zenon DEF DoesParts
<1>3. o \in Ops /\ c \in up /\ Staged(o)
  BY <1>2, OpParts DEF Acting, Staged
<1>4. Effect(o, k, r) /\ tb \in TableMaps
  BY <1>2, <1>3, ServeEffect, FetchedType DEF TableMaps
<1>5. /\ Continues(o, u) /\ (Top(o) => Removes(u, o.d1))
      /\ \A y : CarriedBy(u, y) => \/ y \in {Nil} \cup {k[n] : n \in Name}
                                   \/ o.k # "mkdir" /\ y = o.x
                                   \/ \E t \in held, n \in Name : t.kids[n] = y
  BY <1>2, <1>3, AfterParts
<1> HIDE DEF u
<1>6. Continues(o, oo)
  BY <1>5 DEF Continues
<1>7. r.rec \in Recs
  BY <1>2 DEF Served
<1>8. /\ pe \in PendMaps
      /\ \A i \in Client, e \in Dir : pe[i][e].self = "gone" =>
              pend[i][e].self = "gone" \/ (i = s /\ e = d /\ Top(o))
      /\ \A i \in Client, e \in Dir : pend[i][e].self = "made" =>
              pe[i][e].self = "made" \/ (i = s /\ e = d /\ Top(o))
      /\ (o.k = "mkdir" /\ ~lost) => pe[c][o.x].self = "made"
  <2> HIDE DEF r, d
  <2> QED BY <1>2, <1>7, JournalsParts
<1> SUFFICES ASSUME NEW x \in SubDir, x \notin spoilt'
             PROVE  /\ (SeenIn(x, truth, pool, table, pend) \/ Carried(x))' => HasObjects(x)'
                    /\ \A i \in Client : pend'[i][x].self = "gone" => Removing(x)'
  BY DEF LoadInv
<1>9. x \notin spoilt /\ x \notin NewSpoils(d, o, r, held, lost) /\ x \in Dir /\ x # Nil
  BY <1>2, DistinctAssumption DEF Settle, Spoils, Dir, Ino
<1>10. /\ SeenIn(x, truth, pool, table, pend) \/ Carried(x) => HasObjects(x)
       /\ \A i \in Client : pend[i][x].self = "gone" => Removing(x)
  BY <1>9 DEF LoadInv
<1>11. SeenIn(x, truth', pool', tn, pe) => SeenIn(x, truth, pool, tb, pend) \/ o.x = x
  <2> HIDE DEF tb, r
  <2> QED BY <1>2, <1>4, DoesSeen
<1>12. SeenIn(x, truth, pool, tb, pend) => SeenIn(x, truth, pool, table, pend)
  BY FetchSeen
<1>13. x = d /\ Top(o) => Begun(c, oo, dead, x)
  <2>1. x = d /\ Top(o) => ~lost /\ o.d1 = x
    BY <1>9 DEF NewSpoils, Top, Stage
  <2> QED BY <1>3, <1>5, <2>1 DEF Begun
<1>14. CarriedBy(oo, x) => SeenIn(x, truth, pool, tb, pend) \/ Carried(x)
  <2>1. (\E n \in Name : k[n] = x) => SeenIn(x, truth, pool, tb, pend) \/ CarriedBy(o, x)
    <3>1. CASE held = {}
      BY <1>2, <3>1 DEF SeenIn
    <3>2. CASE held # {}
      BY <1>2, <3>2 DEF CarriedBy
    <3> QED BY <3>1, <3>2
  <2>2. (\E t \in held, n \in Name : t.kids[n] = x) => CarriedBy(o, x)
    BY <1>2 DEF CarriedBy
  <2>3. o.k # "mkdir" /\ x = o.x => CarriedBy(o, x)
    BY DEF CarriedBy
  <2>4. ~CarriedBy(Idle, x)
    BY <1>9, IdleParts DEF CarriedBy
  <2> QED BY <1>5, <1>9, <2>1, <2>2, <2>3, <2>4 DEF Carried
<1>15. o.x = x => Carried(x) \/ (\E i \in up : pe[i][x].self = "made")
  <2>1. o.x = x /\ o.k = "mkdir" => ~lost
    BY <1>9 DEF NewSpoils
  <2> QED BY <1>3, <1>8, <2>1 DEF Carried, CarriedBy
<1> HIDE DEF tb, r, tn, pe, sq, oo, dead
<1>16. \A i \in Client : pe[i][x].self = "gone" => Removing(x) \/ Begun(c, oo, dead, x)
  BY <1>8, <1>9, <1>10, <1>13
<1>17. LoadStep(c, oo, dead, tn, pe, x)
  BY <1>2, <1>6, <1>8, <1>16, SettleLoad
<1>18. HasObjects(x) => HasObjects(x)'
  <2>1. up \subseteq Client
    BY DEF Typed
  <2>2. (\E i \in up : pend[i][x].self = "made") =>
          (\E i \in up : pe[i][x].self = "made") \/ Begun(c, oo, dead, x)
    BY <1>8, <1>9, <1>13, <2>1
  <2> QED BY <1>2, <1>17, <2>2 DEF HasObjects, LoadStep
<1> QED BY <1>10, <1>11, <1>12, <1>14, <1>15, <1>17, <1>18 DEF LoadStep

(* A removal that is journaled without the entries shows nothing new.      *)
LEMMA JotsLoad ==
  ASSUME Typed, LoadInv, NEW c \in Client, Jotting(c)
  PROVE  LoadInv'
<1>1. PICK s \in Client, D \in SUBSET Dir : Jots(c, s, D)
  BY DEF Jotting
<1> DEFINE o == op[c]
           d == Stage(o)
           tb == Fetched(c, D)
           pe == Jotted(s, d, o.n)
           sq == Spoils(c, D) \cup {d}
           oo == Beyond(o)
<1>2. /\ d \in Dir /\ o.n \in Name /\ UNCHANGED <<pool, truth>>
      /\ Settle(c, oo, {}, tb, pe, sq) /\ o \in OpRecords
  BY <1>1, OpParts DEF Jots, Jotted, Sound, Acting
<1>3. Continues(o, oo) /\ \A x \in SubDir : CarriedBy(oo, x) => Carried(x)
  <2>1. CASE o.k = "rename"
    <3>1. oo.k = "rename" /\ oo.x = o.x /\ oo.old = {}
      BY <1>2, <2>1 DEF Beyond, OpRecords
    <3> HIDE DEF oo
    <3> QED BY <2>1, <3>1 DEF Continues, Removes, Carried, CarriedBy
  <2>2. CASE o.k # "rename"
    <3>1. oo = Idle
      BY <2>2 DEF Beyond
    <3> HIDE DEF oo
    <3> QED BY <3>1, IdleParts, DistinctAssumption DEF Continues, CarriedBy, Ino
  <2> QED BY <2>1, <2>2
<1>4. /\ pe \in PendMaps
      /\ \A i \in Client, e \in Dir : pe[i][e].self = pend[i][e].self
      /\ \A i \in Client, e \in Dir, n \in Name : pe[i][e].kids[n] \in {Nil, pend[i][e].kids[n]}
  <2>1. /\ pe \in PendMaps
        /\ \A i \in Client, e \in Dir : i # s \/ e # d => pe[i][e] = pend[i][e]
        /\ pe[s][d].self = pend[s][d].self
        /\ \A m \in Name : pe[s][d].kids[m] = IF m = o.n THEN Nil ELSE pend[s][d].kids[m]
    BY <1>2, JottedParts
  <2> HIDE DEF pe, d
  <2> QED BY <2>1
<1> SUFFICES ASSUME NEW x \in SubDir, x \notin spoilt'
             PROVE  /\ (SeenIn(x, truth, pool, table, pend) \/ Carried(x))' => HasObjects(x)'
                    /\ \A i \in Client : pend'[i][x].self = "gone" => Removing(x)'
  BY DEF LoadInv
<1>5. x \notin spoilt /\ x \in Dir /\ x # Nil
  BY <1>2, DistinctAssumption DEF Settle, Spoils, Dir, Ino
<1>6. /\ SeenIn(x, truth, pool, table, pend) \/ Carried(x) => HasObjects(x)
      /\ \A i \in Client : pend[i][x].self = "gone" => Removing(x)
  BY <1>5 DEF LoadInv
<1>7. SeenIn(x, truth, pool, tb, pend) => SeenIn(x, truth, pool, table, pend)
  BY FetchSeen
<1> HIDE DEF tb, pe, sq, oo, d
<1>8. SeenIn(x, truth, pool, tb, pe) => SeenIn(x, truth, pool, tb, pend)
  BY <1>4, <1>5 DEF SeenIn
<1>9. \A i \in Client : pe[i][x].self = "gone" => Removing(x)
  BY <1>4, <1>5, <1>6
<1>10. LoadStep(c, oo, {}, tb, pe, x)
  BY <1>2, <1>3, <1>4, <1>9, SettleLoad
<1>11. HasObjects(x) => HasObjects(x)'
  <2>1. up \subseteq Client
    BY DEF Typed
  <2> QED BY <1>2, <1>4, <1>5, <1>10, <2>1 DEF HasObjects, LoadStep
<1> QED BY <1>2, <1>3, <1>5, <1>6, <1>7, <1>8, <1>10, <1>11 DEF LoadStep

(* The maker of a directory starts with no entries.                        *)
LEMMA LeadsLoad ==
  ASSUME Typed, LoadInv, NEW c \in Client, Leads(c)
  PROVE  LoadInv'
<1> DEFINE x == op[c].x
           new == table[c][x] = NoTable
           tn == IF new THEN [table EXCEPT ![c][x] = LocalTable(NoKids)] ELSE table
           sq == spoilt \cup IF new /\ (truth[x] # NoKids \/ Journaled(x)) THEN {x} ELSE {}
<1>1. Settle(c, Idle, {}, tn, pend, sq) /\ UNCHANGED <<pool, truth>> /\ op[c].ph = "lease"
  BY Zenon DEF Leads
<1>2. x \in Dir /\ Continues(op[c], Idle) /\ pend \in PendMaps
  BY <1>1, OpParts DEF Sound, Dir, Continues, Typed, PendMaps
<1>3. \A i \in Client, e \in Dir : tn[i][e] \in {table[i][e], LocalTable(NoKids)}
  BY <1>2 DEF Typed
<1> SUFFICES ASSUME NEW y \in SubDir, y \notin spoilt'
             PROVE  /\ (SeenIn(y, truth, pool, table, pend) \/ Carried(y))' => HasObjects(y)'
                    /\ \A i \in Client : pend'[i][y].self = "gone" => Removing(y)'
  BY DEF LoadInv
<1>4. y \notin spoilt /\ y # Nil
  BY <1>1, DistinctAssumption DEF Settle, Ino
<1>5. /\ SeenIn(y, truth, pool, table, pend) \/ Carried(y) => HasObjects(y)
      /\ \A i \in Client : pend[i][y].self = "gone" => Removing(y)
  BY <1>4 DEF LoadInv
<1> HIDE DEF tn, sq, x
<1>6. SeenIn(y, truth, pool, tn, pend) => SeenIn(y, truth, pool, table, pend)
  <2>1. \A n \in Name : LocalTable(NoKids).kids[n] = Nil
    BY DEF LocalTable, NoKids
  <2> QED BY <1>3, <1>4, <2>1 DEF SeenIn
<1>7. LoadStep(c, Idle, {}, tn, pend, y)
  BY <1>1, <1>2, <1>5, SettleLoad
<1>8. ASSUME (SeenIn(y, truth, pool, table, pend) \/ Carried(y))' PROVE HasObjects(y)
  <2>1. ~CarriedBy(Idle, y)
    BY <1>4, IdleParts DEF CarriedBy
  <2>2. SeenIn(y, truth', pool', tn, pend) => SeenIn(y, truth, pool, table, pend)
    BY <1>1, <1>6
  <2> QED BY <1>5, <1>7, <1>8, <2>1, <2>2 DEF LoadStep
<1>9. HasObjects(y) => HasObjects(y)'
  <2>1. pool'[y].made = pool[y].made
    BY <1>1
  <2> QED BY <1>7, <2>1 DEF LoadStep, HasObjects
<1>10. \A i \in Client : pend'[i][y].self = "gone" => Removing(y)'
  BY <1>7 DEF LoadStep
<1> QED BY <1>8, <1>9, <1>10

(* A checkpoint that takes the objects away is one of a removal that is    *)
(* not at its end; any other makes them.                                   *)
LEMMA SavesLoad ==
  ASSUME Typed, LoadInv, NEW c \in Client, NEW d \in Dir, Saves(c, d)
  PROVE  LoadInv'
<1> DEFINE p == pend[c][d]
           pe == [pend EXCEPT ![c][d] = NoPend]
<1>1. /\ pool' = [pool EXCEPT ![d] = IF p.self = "gone" THEN [made |-> FALSE, kids |-> NoKids]
                                     ELSE [made |-> TRUE, kids |-> Overlay(pool[d].kids, p)]]
      /\ Settle(c, op[c], {}, table, pe, spoilt) /\ UNCHANGED truth
  BY DEF Saves
<1>2. /\ \A e \in Dir \ {d} : pool'[e] = pool[e]
      /\ pool'[d].kids = IF p.self = "gone" THEN NoKids ELSE Overlay(pool[d].kids, p)
      /\ p.self # "gone" => pool'[d].made
  BY <1>1 DEF Typed
<1>3. pe \in PendMaps /\ \A i \in Client, e \in Dir : pe[i][e] = IF i = c /\ e = d THEN NoPend ELSE pend[i][e]
  BY EmptyParts DEF Typed, PendMaps
<1>4. Continues(op[c], op[c])
  BY DEF Continues
<1> SUFFICES ASSUME NEW x \in SubDir, x \notin spoilt'
             PROVE  /\ (SeenIn(x, truth, pool, table, pend) \/ Carried(x))' => HasObjects(x)'
                    /\ \A i \in Client : pend'[i][x].self = "gone" => Removing(x)'
  BY DEF LoadInv
<1>5. x \notin spoilt /\ x \in Dir /\ x # Nil /\ x # Keep
  BY <1>1, DistinctAssumption DEF Settle, Dir, Ino
<1>6. /\ SeenIn(x, truth, pool, table, pend) \/ Carried(x) => HasObjects(x)
      /\ \A i \in Client : pend[i][x].self = "gone" => Removing(x)
  BY <1>5 DEF LoadInv
<1> HIDE DEF pe
<1>7. SeenIn(x, truth, pool', table, pe) => SeenIn(x, truth, pool, table, pend)
  <2> SUFFICES ASSUME SeenIn(x, truth, pool', table, pe) PROVE SeenIn(x, truth, pool, table, pend)
    OBVIOUS
  <2>1. PICK e \in Dir, n \in Name :
          \/ truth[e][n] = x \/ pool'[e].kids[n] = x
          \/ \E i \in Client : table[i][e].kids[n] = x \/ pe[i][e].kids[n] = x
    BY DEF SeenIn
  <2>2. ASSUME NEW i \in Client, pe[i][e].kids[n] = x PROVE pend[i][e].kids[n] = x
    BY <1>3, <1>5, <2>2, EmptyParts
  <2>3. ASSUME pool'[e].kids[n] = x PROVE pool[e].kids[n] = x \/ pend[c][e].kids[n] = x
    <3>1. NoKids[n] = Nil /\ Overlay(pool[d].kids, p)[n] \in {pool[d].kids[n], p.kids[n]}
      BY DEF NoKids, Overlay
    <3> QED BY <1>2, <1>5, <2>3, <3>1
  <2> QED BY <2>1, <2>2, <2>3 DEF SeenIn
<1>8. \A i \in Client : pe[i][x].self = "gone" => Removing(x)
  BY <1>3, <1>5, <1>6, EmptyParts
<1>9. LoadStep(c, op[c], {}, table, pe, x)
  BY <1>1, <1>3, <1>4, <1>8, SettleLoad
<1>10. HasObjects(x) => HasObjects(x)'
  <2>1. pool[x].made => pool'[x].made \/ Removing(x)
    BY <1>2, <1>5, <1>6
  <2>2. (\E i \in up : pend[i][x].self = "made") => pool'[x].made \/ \E i \in up : pe[i][x].self = "made"
    <3> SUFFICES ASSUME NEW i \in up, pend[i][x].self = "made"
                 PROVE  pool'[x].made \/ \E j \in up : pe[j][x].self = "made"
      OBVIOUS
    <3>1. i \in Client
      BY DEF Typed
    <3> QED BY <1>2, <1>3, <1>5, <3>1
  <2> QED BY <1>9, <2>1, <2>2 DEF HasObjects, LoadStep
<1>11. CarriedBy(op[c], x) => Carried(x)
  BY DEF Carried
<1> QED BY <1>1, <1>6, <1>7, <1>9, <1>10, <1>11 DEF LoadStep

(* The first state: the directories are those of the root.                 *)
LEMMA InitLoad == Init => LoadInv
<1> SUFFICES ASSUME Init, NEW s \in SubDir
             PROVE  /\ SeenIn(s, truth, pool, table, pend) \/ Carried(s) => HasObjects(s)
                    /\ \A i \in Client : pend[i][s].self = "gone" => Removing(s)
  BY DEF LoadInv
<1>0. s # Nil /\ s # Keep /\ s \in Dir
  BY DistinctAssumption DEF Ino, Dir
<1>1. \A i \in Client, d \in Dir : pend[i][d] = NoPend /\ table[i][d] = NoTable /\ op[i] = Idle
  BY DEF Init
<1>2. \A d \in Dir : pool[d].kids = truth[d]
  BY DEF Init
<1>3. ~Carried(s)
  BY <1>0, <1>1, IdleParts DEF Carried, CarriedBy
<1>4. ASSUME SeenIn(s, truth, pool, table, pend) PROVE pool[s].made
  <2>1. PICK d \in Dir, n \in Name : truth[d][n] = s
    <3>1. \A n \in Name : NoTable.kids[n] = Nil /\ NoPend.kids[n] = Keep
      BY DEF NoTable, NoKids, NoPend
    <3> QED BY <1>0, <1>1, <1>2, <1>4, <3>1 DEF SeenIn
  <2>2. truth \in Starts
    BY DEF Init
  <2>3. d = Root
    BY <2>1, <2>2, StartsAssumption DEF Dir
  <2> QED BY <1>0, <2>1, <2>3 DEF Init
<1> QED BY <1>0, <1>1, <1>3, <1>4, EmptyParts DEF HasObjects

(* Every step.                                                             *)
LEMMA NextLoad ==
  ASSUME Typed, LoadInv, [Next]_vars
  PROVE  LoadInv'
<1>1. ASSUME NEW c \in Client, Formed(c) PROVE LoadInv'
  BY <1>1, LooksLoad, DoesLoad, JotsLoad, LeadsLoad DEF Formed
<1>2. ASSUME NEW c \in Client, Call(c) PROVE LoadInv'
  <2>1. PICK o \in Ops : op[c] = Idle /\ Begin(c, o) /\ o.ph = "path1" /\ o.old = {}
    BY <1>2, CallForm DEF Begins
  <2>2. Sound(o) /\ (o.k # "mkdir" => o.x \notin SubDir)
    BY <2>1, DistinctAssumption DEF Ops, Sound, Ino
  <2>3. \A i \in Client : op'[i] = IF i = c THEN o ELSE op[i]
    BY <2>1 DEF Begin, Typed
  <2>4. UNCHANGED <<table, pend, pool, up, truth, spoilt>>
    BY <2>1 DEF Begin
  <2>5. \A s \in SubDir : Carried(s)' => Carried(s)
    BY <2>1, <2>2, <2>3 DEF Carried, CarriedBy
  <2>6. \A s \in SubDir : Removing(s) => Removing(s)'
    BY <2>1, <2>3, <2>4, IdleParts DEF Removing, Removes, Typed
  <2> QED BY <2>4, <2>5, <2>6 DEF LoadInv, HasObjects
<1>3. ASSUME NEW c \in Client, NEW d \in Dir, Checkpoint(c, d) PROVE LoadInv'
  BY <1>3, SaveForm, LooksLoad, SavesLoad
<1>4. ASSUME NEW c \in Client, directory_table(c) PROVE LoadInv'
  <2>1. table' = Fetched(c, {Root}) /\ up \subseteq up' /\ spoilt \subseteq spoilt'
        /\ UNCHANGED <<pend, pool, op, truth>>
    BY <1>4 DEF directory_table
  <2>2. \A s \in SubDir : SeenIn(s, truth, pool, table', pend) => SeenIn(s, truth, pool, table, pend)
    BY <2>1, FetchSeen
  <2>3. \A s \in SubDir : (Removing(s) => Removing(s)') /\ (Carried(s)' => Carried(s))
    BY <2>1 DEF Removing, Carried
  <2>4. \A s \in SubDir : HasObjects(s) => HasObjects(s)'
    BY <2>1, <2>3 DEF HasObjects
  <2> QED BY <2>1, <2>2, <2>3, <2>4 DEF LoadInv
<1>5. ASSUME NEW d \in Dir, Lapse(d) PROVE LoadInv'
  <2>1. \A i \in Client, e \in Dir : table'[i][e] \in {table[i][e], NoTable}
    BY <1>5 DEF Lapse, Typed
  <2>2. UNCHANGED <<pend, pool, up, truth, spoilt>>
        /\ \A i \in Client : op'[i] = Onwards(i, {}, table')
    BY <1>5 DEF Lapse
  <2>3. \A s \in SubDir : SeenIn(s, truth, pool, table', pend) => SeenIn(s, truth, pool, table, pend)
    <3>1. \A n \in Name : NoTable.kids[n] = Nil
      BY DEF NoTable, NoKids
    <3> QED BY <2>1, <3>1, DistinctAssumption DEF SeenIn, Ino
  <2>4. \A s \in SubDir : /\ Carried(s)' => Carried(s) \/ SeenIn(s, truth, pool, table, pend)
                          /\ Removing(s) => Removing(s)'
    BY <2>2, OnwardsLoad DEF Carried, Removing, Typed
  <2>5. \A s \in SubDir : HasObjects(s) => HasObjects(s)'
    BY <2>2, <2>4 DEF HasObjects
  <2> QED BY <2>2, <2>3, <2>4, <2>5 DEF LoadInv
<1>6. CASE UNCHANGED vars
  BY <1>6 DEF vars, LoadInv, HasObjects, Removing, Carried, SeenIn
<1>7. ASSUME NEW c \in Client, acquire_behind(c) PROVE LoadInv'
  <2>1. PICK d \in fresh : table' = [table EXCEPT ![c][d] = RemoteTable(c)]
    BY <1>7 DEF acquire_behind
  <2>2. \A i \in Client, e \in Dir : table'[i][e] \in {table[i][e], RemoteTable(c)}
    BY <2>1 DEF Typed
  <2>3. UNCHANGED <<pend, pool, op, up, truth, spoilt>>
    BY <1>7 DEF acquire_behind
  <2>4. \A s \in SubDir : SeenIn(s, truth, pool, table', pend) => SeenIn(s, truth, pool, table, pend)
    <3>1. \A n \in Name : RemoteTable(c).kids[n] = Nil
      BY DEF RemoteTable, NoKids
    <3> QED BY <2>2, <3>1, DistinctAssumption DEF SeenIn, Ino
  <2> QED BY <2>3, <2>4 DEF LoadInv, HasObjects, Removing, Carried
<1> QED BY <1>1, <1>2, <1>3, <1>4, <1>5, <1>6, <1>7, StepForm DEF Next

(* For any set of clients, directories, names and files: a directory that  *)
(* has an entry in the root, and whose making or removal no failure has    *)
(* stopped, has its objects, or a live client is about to write them or to *)
(* take the entry away.  So no checkpoint, in whatever order the journals  *)
(* of parent and child are written, leaves a root that cannot be loaded.   *)
THEOREM RootLoads == Spec => []Loads
<1> DEFINE Inv == Typed /\ LoadInv
<1>1. Init => Inv
  BY InitTyped, InitLoad
<1>2. Inv /\ [Next]_vars => Inv'
  BY NextTyped, NextLoad
<1>3. Inv => Loads
  BY LoadIsLoads
<1> QED BY <1>1, <1>2, <1>3, PTL DEF Spec

-----------------------------------------------------------------------------
(* Where a file is linked.                                                 *)

(* The operation o has the only hold on the file x: it is to make it, or   *)
(* has taken it away from its old name.                                    *)
Bears(o, x) == o.x = x /\ (o.k # "rename" \/ o.ph = "two")

(* The file x has one name, or one operation bears it.                     *)
OnePlace(x) ==
  /\ \A d, e \in Dir, n, m \in Name : truth[d][n] = x /\ truth[e][m] = x => d = e /\ n = m
  /\ \A c \in Client : Bears(op[c], x) => ~Linked(x) /\ \A i \in Client : Bears(op[i], x) => i = c

(* A file that is linked, or that an operation has found or is to make,    *)
(* has been given out: a new one is neither.                               *)
AllUsed ==
  /\ \A d \in Dir, n \in Name : truth[d][n] \in used \cup {Nil}
  /\ \A c \in Client : op[c].x \in used \cup {Nil}

LinkInv == spoilt = {} => AllUsed /\ \A x \in File \ crossed : OnePlace(x)

(* The invariant says what NoDoubleLink does.                              *)
LEMMA LinkIsNoDoubleLink == LinkInv => NoDoubleLink
<1> SUFFICES ASSUME LinkInv, spoilt = {}, NEW x \in File \ crossed
             PROVE  LET at == {e \in Dir \X Name : truth[e[1]][e[2]] = x}
                    IN  /\ Cardinality(at) <= 1
                        /\ (\E c \in Client : Moving(c, x)) => at = {}
  BY DEF NoDoubleLink
<1> DEFINE at == {e \in Dir \X Name : truth[e[1]][e[2]] = x}
<1>1. OnePlace(x)
  BY DEF LinkInv
<1>2. CASE at = {}
  BY <1>2, FS_EmptySet
<1>3. CASE at # {}
  <2>1. PICK e \in at : TRUE
    BY <1>3
  <2>2. \A f \in at : f = e
    BY <1>1 DEF OnePlace
  <2>3. at = {e}
    BY <2>2
  <2>4. Cardinality(at) = 1
    BY <2>3, FS_Singleton
  <2>5. Linked(x)
    BY DEF Linked
  <2>6. ~\E c \in Client : Moving(c, x)
    BY <1>1, <2>5 DEF OnePlace, Moving, Bears
  <2> QED BY <2>4, <2>6
<1> QED BY <1>2, <1>3

(* What an operation keeps while others work: its kind, its phase and its  *)
(* file; or it is over.                                                    *)
SameHold(o, u) == u = Idle \/ (u.k = o.k /\ u.x = o.x /\ u.ph = o.ph)

(* An operation takes no hold of a file that it had none of.               *)
NoNewHold(o, u) == u.x \in {o.x, Nil} /\ \A x \in File : Bears(u, x) => Bears(o, x)

LEMMA HoldParts ==
  /\ \A o : NoNewHold(o, Idle)
  /\ \A o, u : SameHold(o, u) => NoNewHold(o, u)
  /\ \A x \in File : ~Bears(Idle, x)
<1>1. \A x \in File : x # Nil
  BY DistinctAssumption DEF Ino
<1> QED BY <1>1, IdleParts DEF NoNewHold, SameHold, Bears

(* A step that links nothing and bears nothing new.                        *)
LEMMA QuietLinks ==
  ASSUME Typed, LinkInv, spoilt \subseteq spoilt', truth' = truth, used \subseteq used',
         crossed \subseteq crossed', \A i \in Client : NoNewHold(op[i], op'[i])
  PROVE  LinkInv'
<1> SUFFICES ASSUME spoilt' = {} PROVE (AllUsed /\ \A x \in File \ crossed : OnePlace(x))'
  BY DEF LinkInv
<1>1. AllUsed /\ \A x \in File \ crossed : OnePlace(x)
  BY DEF LinkInv
<1>2. AllUsed'
  BY <1>1 DEF AllUsed, NoNewHold
<1>3. ASSUME NEW x \in File \ crossed' PROVE OnePlace(x)'
  <2>1. x \in File \ crossed
    OBVIOUS
  <2>2. OnePlace(x) /\ (Linked(x)' <=> Linked(x))
    BY <1>1, <2>1 DEF Linked
  <2>3. \A i \in Client : Bears(op'[i], x) => Bears(op[i], x)
    BY <2>1 DEF NoNewHold
  <2> QED BY <2>2, <2>3 DEF OnePlace
<1> QED BY <1>2, <1>3

(* How Settle leaves the operations and the history.                       *)
LEMMA SettleOps ==
  ASSUME Typed, NEW c \in Client, NEW o, NEW dead, NEW tb, NEW pe, NEW sp,
         Settle(c, o, dead, tb, pe, sp)
  PROVE  /\ \A i \in Client : i # c => /\ SameHold(op[i], op'[i])
                                       /\ op'[i] = Idle => op[i] = Idle \/ i \notin up'
         /\ op'[c] \in {Idle, o} /\ (c \notin dead => op'[c] = o)
         /\ sp \subseteq spoilt'
<1>1. ASSUME NEW i \in Client, i # c
      PROVE  SameHold(op[i], op'[i]) /\ (op'[i] = Idle => op[i] = Idle \/ i \notin up')
  <2> DEFINE w == Onwards(i, dead, tb)
  <2>1. w.k = op[i].k /\ w.ph = op[i].ph /\ w.x = op[i].x /\ (w = Idle => op[i] = Idle)
    <3> HIDE DEF w
    <3> QED BY OnwardsParts DEF w
  <2>2. op'[i] = IF i \in dead THEN Idle ELSE w
    BY <1>1 DEF Settle
  <2>3. i \in dead => i \notin up'
    BY DEF Settle
  <2> HIDE DEF w
  <2> QED BY <2>1, <2>2, <2>3 DEF SameHold
<1>2. op'[c] \in {Idle, o} /\ (c \notin dead => op'[c] = o) /\ sp \subseteq spoilt'
  BY DEF Settle
<1> QED BY <1>1, <1>2

(* A step that leaves c's own operation as it was or ends it.              *)
LEMMA SettleHolds ==
  ASSUME Typed, NEW c \in Client, NEW o, NoNewHold(op[c], o), NEW dead, NEW tb, NEW pe, NEW sp,
         Settle(c, o, dead, tb, pe, sp)
  PROVE  \A i \in Client : NoNewHold(op[i], op'[i])
BY SettleOps, HoldParts

(* The file an operation bears after a change.                             *)
LEMMA AfterFile ==
  ASSUME NEW o \in Ops, Staged(o), NEW k \in Kids, NEW held
  PROVE  LET u == After(o, k, held)
         IN  /\ u.x \in {Nil, o.x} \/ (o.k = "rename" /\ o.ph = "one" /\ u.x = k[o.n])
             /\ \A x \in File : Bears(u, x) => Take(o, k, Serve(o, k)) /\ o.k = "rename" /\ o.x = x
<1> DEFINE u == After(o, k, held)
<1>0. o \in OpRecords /\ Sound(o) /\ o.k # "idle" /\ \A x \in File : x \notin SubDir /\ x # Nil
  BY IdleParts, DistinctAssumption DEF Ops, Sound, Staged, Ino
<1>1. CASE o.k = "mkdir"
  <2>1. u.x = o.x /\ o.x \in SubDir
    BY <1>0, <1>1 DEF After, OpRecords, Sound
  <2> HIDE DEF u
  <2>2. \A x \in File : ~Bears(u, x)
    BY <1>0, <2>1 DEF Bears
  <2> QED BY <2>1, <2>2 DEF u
<1>2. CASE o.k = "rmdir" /\ o.ph = "one"
  <2>1. u.x = o.x /\ o.x = Nil
    BY <1>0, <1>2 DEF After, OpRecords, Sound
  <2> HIDE DEF u
  <2>2. \A x \in File : ~Bears(u, x)
    BY <1>0, <2>1 DEF Bears
  <2> QED BY <2>1, <2>2 DEF u
<1>3. CASE o.k = "rename" /\ o.ph = "one"
  <2>1. u.x = k[o.n] /\ u.k = "rename" /\ u.ph = "take"
    BY <1>0, <1>3 DEF After, OpRecords
  <2> HIDE DEF u
  <2>2. \A x \in File : ~Bears(u, x)
    BY <2>1 DEF Bears
  <2> QED BY <1>3, <2>1, <2>2 DEF u
<1>4. CASE o.k = "rename" /\ o.ph = "take" /\ o.p # o.q
  <2>1. u.x = o.x
    BY <1>0, <1>4 DEF After, OpRecords
  <2>2. Serve(o, k) = Drop(k, o.n)
    BY <1>4 DEF Serve, rpc_rename_not_same_parent_src
  <2>3. Take(o, k, Serve(o, k))
    BY <1>4, <2>2 DEF Take, Drop, Top
  <2> HIDE DEF u
  <2> QED BY <1>4, <2>1, <2>3 DEF u, Bears
<1>5. CASE u = Idle
  BY <1>5, IdleParts, HoldParts
<1>6. u = Idle \/ o.k = "mkdir" \/ (o.ph = "one" /\ o.k \in {"rmdir", "rename"})
        \/ (o.ph = "take" /\ o.k = "rename" /\ o.p # o.q)
  BY DEF After
<1> QED BY <1>1, <1>2, <1>3, <1>4, <1>5, <1>6

(* The file under a name that a change has journaled, and under any other. *)
Linking(d, rec) ==
  \A e \in Dir, n \in Name :
    truth'[e][n] = IF e = d /\ rec[n] # Keep THEN rec[n] ELSE truth[e][n]

(* What a change leaves the operations with: c bears a file only when it   *)
(* has taken it away, and nobody else gets one.                            *)
Holding(c, k, r) ==
  /\ op'[c].x \in {Nil, op[c].x} \/ (Find(op[c], k, r) /\ op'[c].x = k[op[c].n])
  /\ \A x \in File : Bears(op'[c], x) => Take(op[c], k, r) /\ op[c].k = "rename" /\ op[c].x = x
  /\ \A i \in Client : i # c => NoNewHold(op[i], op'[i])

(* A change keeps a file in one place: it puts the file it bears where     *)
(* no other name is, takes it away before it is borne, or moves it.        *)
LEMMA DoesOnePlace ==
  ASSUME Typed, NEW c \in Client, Staged(op[c]), NEW d \in Dir, NEW r,
         Effect(op[c], truth[d], r), Linking(d, r.rec), Holding(c, truth[d], r),
         NEW x \in File, x \notin Strays(op[c], truth[d]), OnePlace(x)
  PROVE  OnePlace(x)'
<1> DEFINE o == op[c]
           k == truth[d]
<1>0. o \in Ops /\ Sound(o) /\ k \in Kids /\ x # Nil /\ x # Keep /\ x \notin SubDir
  BY OpParts, DistinctAssumption DEF Typed, Ino
<1>1. Bears(op'[c], x) => Take(o, k, r) /\ o.k = "rename" /\ o.x = x
  BY DEF Holding
<1>2. \A i \in Client : i # c /\ Bears(op'[i], x) => Bears(op[i], x)
  BY DEF Holding, NoNewHold
<1>3. o.ph = "take" /\ o.x = x => k[o.n] = x
  BY DEF Strays
<1>4. ASSUME ~Bears(op'[c], x), \A e \in Dir, m \in Name : truth'[e][m] = x => truth[e][m] = x
      PROVE  OnePlace(x)'
  <2>1. Linked(x)' => Linked(x)
    BY <1>4 DEF Linked
  <2>2. \A i \in Client : Bears(op'[i], x) => Bears(op[i], x)
    BY <1>2, <1>4
  <2> QED BY <1>4, <2>1, <2>2 DEF OnePlace
<1>5. CASE \E n \in Name : Put(o, k, r, n)
  <2>1. PICK n \in Name : Put(o, k, r, n)
    BY <1>5
  <2>2. ~Bears(op'[c], x)
    BY <1>1, <2>1 DEF Put, Take
  <2>3. \A e \in Dir, m \in Name :
          truth'[e][m] = x => truth[e][m] = x \/ (e = d /\ m = n /\ o.x = x)
    BY <2>1, EmptyParts DEF Put, Linking, Recs
  <2>4. CASE o.x = x
    <3>0. Bears(o, x)
      BY <2>1, <2>4 DEF Put, Bears
    <3>1. ~Linked(x) /\ \A i \in Client : Bears(op[i], x) => i = c
      BY <3>0 DEF OnePlace
    <3>2. \A e \in Dir, m \in Name : truth'[e][m] = x => e = d /\ m = n
      BY <2>3, <3>1 DEF Linked
    <3>3. \A i \in Client : ~Bears(op'[i], x)
      BY <1>2, <2>2, <3>1
    <3> QED BY <3>2, <3>3 DEF OnePlace
  <2>5. CASE o.x # x
    BY <1>4, <2>2, <2>3, <2>5
  <2> QED BY <2>4, <2>5
<1>6. CASE Take(o, k, r)
  <2>0. o.n \in Name
    BY <1>0, <1>6 DEF Take, Sound
  <2>1. \A e \in Dir, m \in Name : truth'[e][m] = x => truth[e][m] = x /\ ~(e = d /\ m = o.n)
    BY <1>0, <1>6, <2>0, EmptyParts, DistinctAssumption DEF Take, Linking, Recs
  <2>2. CASE Bears(op'[c], x)
    <3>1. Linked(x) /\ k[o.n] = x
      BY <1>1, <1>3, <2>0, <2>2 DEF Linked, Take
    <3>2. \A i \in Client : ~Bears(op[i], x)
      BY <3>1 DEF OnePlace
    <3>3. ~Linked(x)'
      BY <2>0, <2>1, <3>1 DEF Linked, OnePlace
    <3>4. \A i \in Client : Bears(op'[i], x) => i = c
      BY <1>2, <3>2
    <3> QED BY <2>1, <3>3, <3>4 DEF OnePlace
  <2>3. CASE ~Bears(op'[c], x)
    BY <1>4, <2>1, <2>3
  <2> QED BY <2>2, <2>3
<1>7. CASE Shift(o, k, r)
  <2>0. o.n \in Name /\ o.m \in Name /\ o.n # o.m
    BY <1>0, <1>7 DEF Shift, Sound
  <2>1. /\ \A e \in Dir, m \in Name : e # d \/ m \notin {o.n, o.m} => truth'[e][m] = truth[e][m]
        /\ truth'[d][o.n] = Nil /\ (truth'[d][o.m] = o.x \/ o.x = Keep)
    <3>1. /\ r.rec[o.n] = Nil /\ r.rec[o.m] = o.x
          /\ \A m \in Name : m \notin {o.n, o.m} => r.rec[m] = Keep
      BY <1>7, <2>0, EmptyParts DEF Shift, Recs
    <3>2. Nil # Keep
      BY DistinctAssumption
    <3> QED BY <2>0, <3>1, <3>2 DEF Linking
  <2>2. o.x # Keep
    BY OpParts, DistinctAssumption DEF OpRecords, Opt
  <2>3. ~Bears(op'[c], x)
    BY <1>1, <1>7 DEF Shift, Take
  <2>4. CASE o.x = x
    <3>1. k[o.n] = x
      BY <1>3, <1>7, <2>4 DEF Shift
    <3>2. Linked(x)
      BY <2>0, <3>1 DEF Linked
    <3>3. \A i \in Client : ~Bears(op'[i], x)
      BY <1>2, <2>3, <3>2 DEF OnePlace
    <3>4. \A e \in Dir, m \in Name : truth'[e][m] = x => e = d /\ m = o.m
      BY <1>0, <2>0, <2>1, <3>1 DEF OnePlace
    <3> QED BY <3>3, <3>4 DEF OnePlace
  <2>5. CASE o.x # x
    <3>1. \A e \in Dir, m \in Name : truth'[e][m] = x => truth[e][m] = x
      BY <1>0, <2>0, <2>1, <2>2, <2>5
    <3> QED BY <1>4, <2>3, <3>1
  <2> QED BY <2>4, <2>5
<1>8. CASE r.rec = NoChange /\ ~Take(o, k, r)
  <2>1. \A e \in Dir, m \in Name : truth'[e][m] = truth[e][m]
    BY <1>8, EmptyParts DEF Linking
  <2> QED BY <1>1, <1>4, <1>8, <2>1
<1> QED BY <1>5, <1>6, <1>7, <1>8 DEF Effect, Find

(* A change as the entries see it: the client that does it has the entries *)
(* k, which are those the operations made unless the directory is spoilt,  *)
(* and in that case nothing it journals is not in its table.               *)
Done(c, d, k, r, lost) ==
  /\ d = Stage(op[c]) /\ d \in Dir /\ Staged(op[c]) /\ k \in Kids
  /\ Effect(op[c], k, r) /\ Linking(d, r.rec) /\ Holding(c, k, r)
  /\ d \notin spoilt' => k = truth[d] /\ \A n \in Name : r.rec[n] \in {Keep, r.kids[n]}
  /\ crossed' = crossed \cup Strays(op[c], k)
  /\ lost => work' # work
  /\ \E held : op'[c] = IF lost THEN Idle ELSE After(op[c], k, held)
  /\ \A i \in Client : i # c => /\ SameHold(op[i], op'[i])
                                /\ op'[i] = Idle => op[i] = Idle \/ i \notin up'

(* Every change is one.                                                    *)
LEMMA DoesDone ==
  ASSUME Typed, AgreeInv, NEW c \in Client, Doing(c)
  PROVE  /\ spoilt \subseteq spoilt' /\ used' = used
         /\ \E d \in Dir, k \in Kids, lost \in BOOLEAN : \E r : Done(c, d, k, r, lost)
<1>0. PICK s \in Client, D \in SUBSET Dir, lost \in BOOLEAN : \E k, held : Does(c, s, D, k, held, lost)
  BY DEF Doing
<1>1. PICK k, held : Does(c, s, D, k, held, lost)
  BY <1>0
<1> DEFINE o == op[c]
           d == Stage(o)
           tb == Fetched(c, D)
           r == Serve(o, k)
           pe == Journals(c, s, d, o, r.rec, lost)
           tn == NewTables(s, d, o, r.kids, held, tb)
           sq == Spoils(c, D) \cup NewSpoils(d, o, r, held, lost)
           oo == IF lost THEN Idle ELSE After(o, k, held)
           dead == IF lost THEN Victims(c) ELSE {}
<1>2. /\ r.ret = "ok" /\ Served(r, k) /\ k \in Kids /\ d \in Dir /\ Acting(c)
      /\ held = {} => tb[s][d].loc = "LOCAL" /\ k = tb[s][d].kids
      /\ lost => work' # work
      /\ truth' = [truth EXCEPT ![d] = Applied(truth[d], r.rec)] /\ UNCHANGED used
      /\ crossed' = crossed \cup Strays(o, k)
      /\ Settle(c, oo, dead, tn, pe, sq)
  <2>1. DoesParts(c, s, D, k, held, lost)
    BY <1>1, DoesAre
  <2>2. Acting(c) /\ (lost => work' # work) /\ UNCHANGED used
    BY <1>1 DEF Does
  <2> QED BY <2>1, <2>2, Zenon DEF DoesParts
<1>3. Staged(o) /\ o \in Ops
  BY <1>2, OpParts DEF Acting
<1>4. Effect(o, k, r)
  BY <1>2, <1>3, ServeEffect
<1>5. Linking(d, r.rec)
  <2>1. \A e \in Dir : truth'[e] = IF e = d THEN Applied(truth[d], r.rec) ELSE truth[e]
    BY <1>2 DEF Typed
  <2> HIDE DEF r, d
  <2>2. \A n \in Name : Applied(truth[d], r.rec)[n] = IF r.rec[n] # Keep THEN r.rec[n] ELSE truth[d][n]
    BY DEF Applied
  <2>3. ASSUME NEW e \in Dir, NEW n \in Name
        PROVE  truth'[e][n] = IF e = d /\ r.rec[n] # Keep THEN r.rec[n] ELSE truth[e][n]
    <3>1. CASE e = d
      BY <2>1, <2>2, <3>1
    <3>2. CASE e # d
      BY <2>1, <3>2
    <3> QED BY <3>1, <3>2
  <2> QED BY <2>3 DEF Linking
<1>6. sq \subseteq spoilt' /\ spoilt \subseteq sq
  BY <1>2 DEF Settle, Spoils
<1>7. ASSUME d \notin spoilt' PROVE k = truth[d] /\ \A n \in Name : r.rec[n] \in {Keep, r.kids[n]}
  <2>1. d \notin Spoils(c, D) /\ d \notin NewSpoils(d, o, r, held, lost)
    BY <1>6, <1>7
  <2>2. held = {} /\ \A n \in Name : r.rec[n] \in {Keep, r.kids[n]}
    BY <2>1 DEF NewSpoils
  <2>3. k = truth[d]
    BY <1>2, <2>1, <2>2, FetchAgrees DEF Agrees
  <2> QED BY <2>2, <2>3
<1>8. /\ \A i \in Client : i # c => /\ SameHold(op[i], op'[i])
                                    /\ op'[i] = Idle => op[i] = Idle \/ i \notin up'
      /\ op'[c] = oo
  <2>1. lost => oo = Idle
    OBVIOUS
  <2>2. ~lost => c \notin dead
    OBVIOUS
  <2> HIDE DEF oo, tn, pe, sq, dead
  <2> QED BY <1>2, <2>1, <2>2, SettleOps
<1>9. Holding(c, k, r)
  <2>1. op'[c] = Idle \/ op'[c] = After(o, k, held)
    BY <1>8
  <2>2. LET u == After(o, k, held)
        IN  /\ u.x \in {Nil, o.x} \/ (o.k = "rename" /\ o.ph = "one" /\ u.x = k[o.n])
            /\ \A x \in File : Bears(u, x) => Take(o, k, r) /\ o.k = "rename" /\ o.x = x
    BY <1>2, <1>3, AfterFile
  <2>3. o.k = "rename" /\ o.ph = "one" => Find(o, k, r)
    <3>1. o.k = "rename" /\ o.ph = "one" => Serve(o, k) = rpc_rename_lookup(o, k)
      BY DEF Serve
    <3> QED BY <1>2, <3>1 DEF Find, rpc_rename_lookup, Refuse
  <2>4. \A i \in Client : i # c => NoNewHold(op[i], op'[i])
    BY <1>8, HoldParts
  <2> HIDE DEF r
  <2>5. op'[c].x \in {Nil, o.x} \/ (Find(o, k, r) /\ op'[c].x = k[o.n])
    BY <2>1, <2>2, <2>3, IdleParts
  <2>6. \A x \in File : Bears(op'[c], x) => Take(o, k, r) /\ o.k = "rename" /\ o.x = x
    BY <2>1, <2>2, HoldParts
  <2> QED BY <2>4, <2>5, <2>6 DEF Holding
<1>10. \E h : op'[c] = IF lost THEN Idle ELSE After(o, k, h)
  BY <1>8
<1>11. Done(c, d, k, r, lost)
  <2> HIDE DEF r, tn, pe, sq, oo
  <2> QED BY <1>2, <1>3, <1>4, <1>5, <1>7, <1>8, <1>9, <1>10 DEF Done
<1> HIDE DEF d, r
<1> QED BY <1>2, <1>6, <1>11

(* A change.                                                               *)
LEMMA DoesLinks ==
  ASSUME Typed, AgreeInv, LinkInv, NEW c \in Client, Doing(c)
  PROVE  LinkInv'
<1>0. PICK d \in Dir, k \in Kids, lost \in BOOLEAN : \E r : Done(c, d, k, r, lost)
  BY DoesDone
<1>1. PICK r : Done(c, d, k, r, lost)
  BY <1>0
<1> SUFFICES ASSUME spoilt' = {} PROVE AllUsed' /\ \A x \in File \ crossed' : OnePlace(x)'
  BY DEF LinkInv
<1>2. spoilt = {} /\ used' = used /\ d \notin spoilt'
  BY DoesDone
<1>3. AllUsed /\ \A x \in File \ crossed : OnePlace(x)
  BY <1>2 DEF LinkInv
<1>4. k = truth[d] /\ Effect(op[c], k, r) /\ Linking(d, r.rec) /\ Staged(op[c])
      /\ Holding(c, k, r) /\ crossed' = crossed \cup Strays(op[c], k)
  BY <1>1, <1>2 DEF Done
<1>5. \A x \in File \ crossed' : OnePlace(x)'
  BY <1>3, <1>4, DoesOnePlace
<1>6. AllUsed'
  <2>0. op[c] \in Ops /\ Sound(op[c])
    BY OpParts
  <2>1. \A n \in Name : k[n] \in used \cup {Nil}
    BY <1>3, <1>4 DEF AllUsed
  <2>2. \A n \in Name : r.rec[n] \in {Keep, Nil, op[c].x}
    BY <1>4, <2>0, EffectValues
  <2>3. \A e \in Dir, n \in Name : truth'[e][n] \in used \cup {Nil}
    BY <1>3, <1>4, <2>1, <2>2 DEF AllUsed, Linking
  <2>4. op'[c].x \in used \cup {Nil}
    <3>1. op[c].x \in used \cup {Nil}
      BY <1>3 DEF AllUsed
    <3>2. Find(op[c], k, r) => op[c].n \in Name
      BY <2>0 DEF Find, Sound
    <3> QED BY <1>4, <2>1, <3>1, <3>2 DEF Holding
  <2>5. \A i \in Client : op'[i].x \in used \cup {Nil}
    BY <1>3, <1>4, <2>4 DEF AllUsed, Holding, NoNewHold
  <2> QED BY <1>2, <2>3, <2>5 DEF AllUsed
<1> QED BY <1>5, <1>6

(* An operation that starts has a file that nobody has.                    *)
LEMMA BeginLinks ==
  ASSUME Typed, LinkInv, NEW c \in Client, Call(c)
  PROVE  LinkInv'
<1>1. PICK o \in Ops : op[c] = Idle /\ Begin(c, o) /\ o.x \notin used
  BY CallForm DEF Begins
<1> SUFFICES ASSUME spoilt' = {} PROVE AllUsed' /\ \A x \in File \ crossed' : OnePlace(x)'
  BY DEF LinkInv
<1>2. AllUsed /\ (\A x \in File \ crossed : OnePlace(x)) /\ crossed' = crossed
  BY <1>1 DEF Begin, LinkInv
<1>3. \A i \in Client : op'[i] = IF i = c THEN o ELSE op[i]
  BY <1>1 DEF Begin, Typed
<1>4. truth' = truth /\ used' = used \cup ({o.x} \ {Nil})
  BY <1>1 DEF Begin
<1>5. AllUsed'
  BY <1>2, <1>3, <1>4 DEF AllUsed
<1>6. ASSUME NEW x \in File \ crossed' PROVE OnePlace(x)'
  <2>0. OnePlace(x) /\ (Linked(x)' <=> Linked(x)) /\ x # Nil
    BY <1>2, <1>4, DistinctAssumption DEF Linked, Ino
  <2>1. CASE o.x = x
    <3>1. ~Linked(x) /\ \A i \in Client : op[i].x # x
      BY <1>1, <1>2, <2>0, <2>1 DEF AllUsed, Linked
    <3>2. \A i \in Client : Bears(op'[i], x) => i = c
      BY <1>3, <3>1 DEF Bears
    <3> QED BY <1>4, <2>0, <3>1, <3>2 DEF OnePlace
  <2>2. CASE o.x # x
    <3>1. \A i \in Client : Bears(op'[i], x) => Bears(op[i], x)
      BY <1>3, <2>2 DEF Bears
    <3> QED BY <1>4, <2>0, <3>1 DEF OnePlace
  <2> QED BY <2>1, <2>2
<1> QED BY <1>5, <1>6

(* The first state: every file has one name.                               *)
LEMMA InitLinks == Init => LinkInv
<1> SUFFICES ASSUME Init PROVE AllUsed /\ \A x \in File : OnePlace(x)
  BY DEF LinkInv
<1>1. \A c \in Client : op[c] = Idle /\ op[c].x = Nil
  BY IdleParts DEF Init
<1>2. AllUsed
  BY <1>1 DEF AllUsed, Init
<1>3. ASSUME NEW x \in File PROVE OnePlace(x)
  <2>1. x # Nil /\ truth \in Starts
    BY DistinctAssumption DEF Init, Ino
  <2> QED BY <1>1, <2>1, StartsAssumption DEF OnePlace, Bears
<1> QED BY <1>2, <1>3

(* Every step.                                                             *)
LEMMA NextLinks ==
  ASSUME Typed, AgreeInv, LinkInv, [Next]_vars
  PROVE  LinkInv'
<1>1. ASSUME NEW c \in Client, Looking(c) PROVE LinkInv'
  <2>1. PICK D \in SUBSET Dir, o \in Ops, dead \in SUBSET Client : Looks(c, D, o, dead)
    BY <1>1 DEF Looking
  <2>2. Settle(c, o, dead, Fetched(c, D), pend, Spoils(c, D)) /\ UNCHANGED <<truth, used, crossed>>
        /\ (o # Idle => o.x = op[c].x /\ o.k = op[c].k /\ (o.ph = "two" <=> op[c].ph = "two"))
    BY <2>1 DEF Looks, Goes
  <2>3. NoNewHold(op[c], o)
    BY <2>2, HoldParts DEF NoNewHold, Bears
  <2>4. \A i \in Client : NoNewHold(op[i], op'[i])
    BY <2>2, <2>3, SettleHolds
  <2>5. spoilt \subseteq spoilt'
    BY <2>2, SettleOps DEF Spoils
  <2> QED BY <2>2, <2>4, <2>5, QuietLinks
<1>2. ASSUME NEW c \in Client, Jotting(c) PROVE LinkInv'
  <2>1. PICK s \in Client, D \in SUBSET Dir : Jots(c, s, D)
    BY <1>2 DEF Jotting
  <2>2. Stage(op[c]) \in spoilt'
    BY <2>1, SettleOps DEF Jots
  <2> QED BY <2>2 DEF LinkInv
<1>3. ASSUME NEW c \in Client, Leads(c) PROVE LinkInv'
  <2>1. PICK tn, sq : Settle(c, Idle, {}, tn, pend, sq) /\ spoilt \subseteq sq
    BY <1>3 DEF Leads
  <2>2. \A i \in Client : NoNewHold(op[i], op'[i])
    BY <2>1, SettleHolds, HoldParts
  <2>3. spoilt \subseteq spoilt'
    BY <2>1, SettleOps
  <2>4. UNCHANGED <<truth, used, crossed>>
    BY <1>3 DEF Leads
  <2> QED BY <2>2, <2>3, <2>4, QuietLinks
<1>4. ASSUME NEW c \in Client, NEW d \in Dir, Checkpoint(c, d) PROVE LinkInv'
  <2>1. CASE Saves(c, d)
    <3>1. Settle(c, op[c], {}, table, [pend EXCEPT ![c][d] = NoPend], spoilt)
          /\ UNCHANGED <<truth, used, crossed>>
      BY <2>1 DEF Saves
    <3>2. \A i \in Client : NoNewHold(op[i], op'[i])
      <4>1. NoNewHold(op[c], op[c])
        BY DEF NoNewHold
      <4> QED BY <3>1, <4>1, SettleHolds
    <3>3. spoilt \subseteq spoilt'
      BY <3>1, SettleOps
    <3> QED BY <3>1, <3>2, <3>3, QuietLinks
  <2> QED BY <1>1, <1>4, <2>1, SaveForm
<1>5. ASSUME UNCHANGED <<op, truth, used, crossed>>, spoilt \subseteq spoilt' PROVE LinkInv'
  <2>1. \A i \in Client : NoNewHold(op[i], op'[i])
    BY <1>5 DEF NoNewHold
  <2> QED BY <1>5, <2>1, QuietLinks
<1>6. ASSUME NEW c \in Client, directory_table(c) \/ acquire_behind(c) PROVE LinkInv'
  BY <1>5, <1>6 DEF directory_table, acquire_behind
<1>7. ASSUME NEW d \in Dir, Lapse(d) PROVE LinkInv'
  <2>1. ASSUME NEW i \in Client PROVE NoNewHold(op[i], op'[i])
    <3>1. op'[i] = Onwards(i, {}, table')
      BY <1>7 DEF Lapse
    <3>2. SameHold(op[i], op'[i])
      BY <3>1, OnwardsParts DEF SameHold
    <3> QED BY <3>2, HoldParts
  <2>2. UNCHANGED <<truth, used, crossed, spoilt>>
    BY <1>7 DEF Lapse
  <2> QED BY <2>1, <2>2, QuietLinks
<1>8. CASE UNCHANGED vars
  BY <1>5, <1>8 DEF vars
<1>9. ASSUME NEW c \in Client, Formed(c) PROVE LinkInv'
  BY <1>1, <1>2, <1>3, <1>9, DoesLinks DEF Formed
<1> QED BY <1>4, <1>6, <1>7, <1>8, <1>9, StepForm, BeginLinks DEF Next

(* For any set of clients, directories, names and files, as long as no     *)
(* failure or race has hit a directory: no file is under two names, and a  *)
(* file that a rename carries from one directory to the other is under     *)
(* none, whatever creates, removals and renames by other clients meet it   *)
(* between the lookup of a rename and its removal of the old name; but for *)
(* a file that a rename moved when it was no longer under that name.       *)
THEOREM FilesHaveOneName == Spec => []NoDoubleLink
<1> DEFINE Inv == Typed /\ IInv /\ AgreeInv /\ LinkInv
<1>1. Init => Inv
  BY InitTyped, InitLed, InitAgrees, InitLinks
<1>2. Inv /\ [Next]_vars => Inv'
  BY NextTyped, NextLed, NextAgrees, NextLinks
<1>3. Inv => NoDoubleLink
  BY LinkIsNoDoubleLink
<1> QED BY <1>1, <1>2, <1>3, PTL DEF Spec

-----------------------------------------------------------------------------
(* The ways in which a file goes.                                          *)

(* A client that does not run has no tables: one that mounts again starts  *)
(* from nothing.                                                           *)
DownInv == \A c \in Client, d \in Dir : c \notin up => table[c][d] = NoTable

(* How a step ends.                                                        *)
LEMMA SettleDown ==
  ASSUME NEW c, NEW o, NEW dead, NEW tb, NEW pe, NEW sp, Settle(c, o, dead, tb, pe, sp),
         \A i \in Client, d \in Dir : i \notin up => tb[i][d] = NoTable
  PROVE  DownInv'
BY DEF Settle, DownInv

(* A client that runs fetches tables.                                      *)
LEMMA FetchDown ==
  ASSUME Typed, DownInv, NEW c \in Client, NEW D, D = {} \/ c \in up
  PROVE  \A i \in Client, d \in Dir : i \notin up => Fetched(c, D)[i][d] = NoTable
<1>1. CASE D = {}
  BY <1>1, FetchNone DEF DownInv
<1>2. CASE c \in up
  BY <1>2, FetchedType DEF DownInv
<1> QED BY <1>1, <1>2

(* Every step.                                                             *)
LEMMA NextDown ==
  ASSUME Typed, DownInv, [Next]_vars
  PROVE  DownInv'
<1>1. ASSUME NEW c \in Client, Looking(c) PROVE DownInv'
  <2>1. PICK D \in SUBSET Dir, o \in Ops, dead \in SUBSET Client : Looks(c, D, o, dead)
    BY <1>1 DEF Looking
  <2> QED BY <2>1, FetchDown, SettleDown DEF Looks
<1>2. ASSUME NEW c \in Client, Doing(c) PROVE DownInv'
  <2>0. PICK s \in Client, D \in SUBSET Dir, lost \in BOOLEAN : \E k, held : Does(c, s, D, k, held, lost)
    BY <1>2 DEF Doing
  <2>1. PICK k, held : Does(c, s, D, k, held, lost)
    BY <2>0
  <2> DEFINE d == Stage(op[c])
             tb == Fetched(c, D)
             kids == Serve(op[c], k).kids
             tn == NewTables(s, d, op[c], kids, held, tb)
  <2>7. DoesParts(c, s, D, k, held, lost)
    BY <2>1, DoesAre
  <2>2. Acting(c) /\ d \in Dir /\ (held = {} => tb[s][d].loc = "LOCAL")
    <3>1. Acting(c)
      BY <2>1 DEF Does
    <3> QED BY <2>7, <3>1, Zenon DEF DoesParts
  <2>3. \E o, dead, pe, sp : Settle(c, o, dead, tn, pe, sp)
    BY <2>7, Zenon DEF DoesParts
  <2>4. \A i \in Client, e \in Dir : i \notin up => tb[i][e] = NoTable
    BY <2>2, FetchDown, OpParts DEF Acting, Staged
  <2>5. held = {} => s \in up
    BY <2>2, <2>4, TableParts
  <2> HIDE DEF tb, d, kids
  <2>6. \A i \in Client, e \in Dir : i \notin up => tn[i][e] = NoTable
    BY <2>4, <2>5 DEF NewTables
  <2> HIDE DEF tn
  <2> QED BY <2>3, <2>6, SettleDown
<1>3. ASSUME NEW c \in Client, Jotting(c) PROVE DownInv'
  <2>1. PICK s \in Client, D \in SUBSET Dir : Jots(c, s, D)
    BY <1>3 DEF Jotting
  <2>2. c \in up
    BY <2>1, OpParts DEF Jots, Acting, Staged
  <2> QED BY <2>1, <2>2, FetchDown, SettleDown DEF Jots
<1>4. ASSUME NEW c \in Client, Leads(c) PROVE DownInv'
  <2> DEFINE x == op[c].x
             tn == IF table[c][x] = NoTable THEN [table EXCEPT ![c][x] = LocalTable(NoKids)] ELSE table
  <2>1. \E sp : Settle(c, Idle, {}, tn, pend, sp)
    BY <1>4, Zenon DEF Leads
  <2>2. c \in up
    BY <1>4, OpParts DEF Leads
  <2>3. \A i \in Client, e \in Dir : i \notin up => tn[i][e] = NoTable
    BY <2>2 DEF DownInv, Typed
  <2> HIDE DEF tn
  <2> QED BY <2>1, <2>3, SettleDown
<1>5. ASSUME NEW c \in Client, NEW d \in Dir, Checkpoint(c, d) PROVE DownInv'
  <2>1. CASE Saves(c, d)
    BY <2>1, SettleDown DEF Saves, DownInv
  <2> QED BY <1>1, <1>5, <2>1, SaveForm
<1>6. ASSUME NEW c \in Client, Call(c) PROVE DownInv'
  <2>1. PICK o \in Ops : Begin(c, o)
    BY <1>6, CallForm DEF Begins
  <2> QED BY <2>1 DEF Begin, DownInv
<1>7. ASSUME NEW c \in Client, directory_table(c) PROVE DownInv'
  <2>1. /\ table' = Fetched(c, {Root}) /\ up \subseteq up'
        /\ c \notin up' => get_dentry_table(c, Root) = NoTable
    BY <1>7 DEF directory_table
  <2> QED BY <2>1, FetchedType DEF DownInv
<1>8. ASSUME NEW d \in Dir, Lapse(d) PROVE DownInv'
  <2>1. \A i \in Client, e \in Dir : table'[i][e] \in {table[i][e], NoTable}
    BY <1>8 DEF Lapse, Typed
  <2> QED BY <1>8, <2>1 DEF Lapse, DownInv
<1>9. CASE UNCHANGED vars
  BY <1>9 DEF vars, DownInv
<1>10. ASSUME NEW c \in Client, Formed(c) PROVE DownInv'
  BY <1>1, <1>2, <1>3, <1>4, <1>10 DEF Formed
<1>11. ASSUME NEW c \in Client, acquire_behind(c) PROVE DownInv'
  <2>1. c \in up /\ up' = up /\ \A i \in Client, e \in Dir : i # c => table'[i][e] = table[i][e]
    BY <1>11 DEF acquire_behind, Typed
  <2> QED BY <2>1 DEF DownInv
<1> QED BY <1>5, <1>6, <1>7, <1>8, <1>9, <1>10, <1>11, StepForm DEF Next

(* The second half of a rename whose destination is as it was: the file    *)
(* gets its new name.                                                      *)
LEMMA MoveEnds ==
  ASSUME Typed, DownInv, NEW c \in Client, NEW x \in File, Moving(c, x), Steady(c), Step(c)
  PROVE  Linked(x)'
<1> DEFINE o == op[c]
           d == o.d2
<1>0. /\ o \in Ops /\ Sound(o) /\ d \in Dir /\ o.m \in Name /\ o.p # o.q /\ x # Keep
      /\ o.k = "rename" /\ o.ph = "two" /\ o.x = x /\ Stage(o) = d /\ Address(o) = o.at2
  BY OpParts, DistinctAssumption DEF Moving, Sound, Stage, Address, OpRecords, Ino
<1>1. PICK s \in Client : /\ o.old = {}
                          /\ table[s][d].loc = "LOCAL"
                          /\ o.at2 = IF s = c THEN Here ELSE s
                          /\ (o.seen = Nil) = (table[s][d].kids[o.m] = Nil)
  BY DEF Steady
<1> DEFINE k == table[s][d].kids
<1>2. table[s][d] # NoTable /\ s \in up /\ k \in Kids
  <2>1. table[s][d] \in Tables
    BY <1>0 DEF Typed
  <2> QED BY <1>0, <1>1, <2>1, TableParts DEF DownInv
<1>3. Serve(o, k).ret = "ok" /\ Serve(o, k).rec[o.m] = x
  <2>1. Serve(o, k) = rpc_rename_not_same_parent_dst(o, k)
    BY <1>0 DEF Serve
  <2>2. \A kk : Enter(kk, o.m, x).ret = "ok" /\ Enter(kk, o.m, x).rec[o.m] = x
    BY <1>0, EmptyParts DEF Enter, Recs
  <2>3. o.seen # Nil => k[o.m] # Nil
    BY <1>1
  <2> QED BY <1>0, <2>1, <2>2, <2>3 DEF rpc_rename_not_same_parent_dst
<1>4. ASSUME NEW i, NEW tb, NEW sp, Change(c, i, d, k, {}, tb, sp, FALSE) PROVE Linked(x)'
  <2>1. truth' = [truth EXCEPT ![d] = Overlay(truth[d], [kids |-> Serve(o, k).rec])]
    BY <1>4 DEF Change
  <2>2. Overlay(truth[d], [kids |-> Serve(o, k).rec])[o.m] = x
    BY <1>0, <1>3 DEF Overlay
  <2>3. truth'[d][o.m] = x
    BY <1>0, <2>1, <2>2 DEF Typed
  <2> QED BY <1>0, <2>3 DEF Linked
<1>5. CASE local_op(c)
  <2>1. s = c
    BY <1>0, <1>1, <1>5, DistinctAssumption DEF local_op
  <2>2. get_dentry_table(c, d) = table[s][d]
    BY <1>2, <2>1 DEF get_dentry_table
  <2>3. Change(c, c, d, k, {}, Fetched(c, {d}), spoilt \cup Overtaken(c, {d}), FALSE)
    BY <1>0, <1>1, <1>2, <1>3, <1>5, <2>2 DEF local_op
  <2> QED BY <1>4, <2>3
<1>6. ~late_op(c) /\ ~path_traversal(c) /\ ~rmdir_find(c) /\ ~lease_dentry_table_mkdir(c)
  BY <1>0, <1>1 DEF late_op, path_traversal, rmdir_find, lease_dentry_table_mkdir
<1>7. CASE o.at2 # Here
  <2>1. Address(o) = s
    BY <1>0, <1>1, <1>7
  <2>2. ~need_recov(c) /\ ~find_remote_dentry_table_again(c)
    BY <1>0, <1>2, <2>1 DEF need_recov, find_remote_dentry_table_again
  <2>3. CASE remote_op(c)
    <3>1. Change(c, s, d, k, {}, table, spoilt, FALSE)
      BY <1>0, <1>1, <1>2, <1>3, <2>1, <2>3 DEF remote_op
    <3> QED BY <1>4, <3>1
  <2> QED BY <1>5, <1>6, <2>2, <2>3 DEF Step
<1>8. CASE o.at2 = Here
  <2>1. ~Calling(c)
    BY <1>0, <1>8 DEF Calling
  <2>2. ~need_recov(c) /\ ~find_remote_dentry_table_again(c) /\ ~remote_op(c)
    BY <2>1 DEF need_recov, find_remote_dentry_table_again, remote_op
  <2> QED BY <1>5, <1>6, <2>2 DEF Step
<1> QED BY <1>7, <1>8

(* What may become of the file x in a step: it keeps a name or is carried, *)
(* or one of the things FileKept names happens to it.                      *)
Stays(x) ==
  \/ Linked(x)' \/ (\E c \in Client : Moving(c, x))'
  \/ \E c \in Client : /\ <<op[c].k, op[c].ph>> \in {<<"unlink", "one">>, <<"rmdir", "two">>}
                       /\ op'[c] = Idle
                       /\ truth[Stage(op[c])][op[c].n] = x
  \/ \E c \in Client : /\ op[c].k = "rename" /\ op'[c].ph # op[c].ph
                       /\ op[c].ph = "two" \/ (op[c].ph = "take" /\ op[c].p = op[c].q)
                       /\ truth[Stage(op[c])][op[c].m] = x
  \/ \E c \in Client : /\ op[c].k = "rename" /\ op'[c].ph # op[c].ph
                       /\ op[c].ph = "take" /\ op[c].x # x
                       /\ truth[op[c].d1][op[c].n] = x
  \/ \E d \in spoilt', n \in Name : truth[d][n] = x
  \/ \E c \in Client : op[c].k = "rename" /\ (c \notin up' \/ work' # work)
  \/ \E c \in Client : Moving(c, x) /\ ~Steady(c)

(* A change keeps every name but the one it is for: a new entry over an    *)
(* old one is a clash, and a removal, or a rename, is one FileKept names.  *)
LEMMA DoneStays ==
  ASSUME Typed, NEW c \in Client, NEW d \in Dir, NEW k \in Kids, NEW lost \in BOOLEAN, NEW r,
         Done(c, d, k, r, lost), NEW x \in File, Linked(x)
  PROVE  Stays(x)
<1> DEFINE o == op[c]
<1>0. /\ o \in Ops /\ Sound(o) /\ o \in OpRecords /\ x # Nil /\ x # Keep
      /\ Staged(o) /\ d = Stage(o)
      /\ Effect(o, k, r) /\ Linking(d, r.rec)
      /\ lost => work' # work
  BY OpParts, DistinctAssumption DEF Done, Ino
<1>5. PICK held : op'[c] = IF lost THEN Idle ELSE After(o, k, held)
  BY DEF Done
<1>1. PICK e \in Dir, n \in Name : truth[e][n] = x
  BY DEF Linked
<1>2. CASE e # d \/ r.rec[n] = Keep
  <2>1. truth'[e][n] = x
    BY <1>0, <1>1, <1>2 DEF Linking
  <2> QED BY <2>1 DEF Stays, Linked
<1>3. CASE d \in spoilt' /\ e = d
  BY <1>1, <1>3 DEF Stays
<1>6. CASE lost /\ o.k = "rename"
  BY <1>0, <1>6 DEF Stays
<1>4. CASE e = d /\ d \notin spoilt' /\ r.rec[n] # Keep /\ ~(lost /\ o.k = "rename")
  <2>1. k = truth[d] /\ k[n] = x /\ r.rec[n] = r.kids[n] /\ truth'[d][n] = r.rec[n]
    BY <1>0, <1>1, <1>4 DEF Done, Linking
  <2>2. ASSUME NEW m \in Name, Put(o, k, r, m) PROVE Stays(x)
    <3>1. m = n
      BY <1>4, <2>2, EmptyParts DEF Put, Recs
    <3>2. CASE o.k # "rename"
      <4>1. r.kids = k
        BY <1>0, <2>1, <2>2, <3>1, <3>2 DEF Put
      <4>2. truth'[d][n] = x
        BY <2>1, <4>1
      <4> QED BY <4>2 DEF Stays, Linked
    <3>3. CASE o.k = "rename"
      <4>1. n = o.m /\ o.ph = "two"
        BY <2>2, <3>1, <3>3 DEF Put
      <4>2. After(o, k, held) = Idle
        BY <3>3, <4>1 DEF After
      <4>3. op'[c].ph # o.ph
        BY <1>4, <1>5, <3>3, <4>1, <4>2, IdleParts
      <4> QED BY <1>0, <2>1, <3>3, <4>1, <4>3 DEF Stays
    <3> QED BY <3>2, <3>3
  <2>3. CASE Take(o, k, r)
    <3>0. o.n \in Name
      BY <1>0, <2>3 DEF Take, Sound
    <3>1. n = o.n
      BY <1>4, <2>3, <3>0, EmptyParts DEF Take, Recs
    <3>2. CASE o.k = "rename"
      <4>1. o.ph = "take" /\ o.p # o.q /\ d = o.d1
        BY <1>0, <2>3, <3>2 DEF Take, Stage
      <4>2. op'[c] = [o EXCEPT !.ph = "two", !.old = {}]
        BY <1>4, <1>5, <3>2, <4>1 DEF After
      <4>3. op'[c].k = "rename" /\ op'[c].ph = "two" /\ op'[c].x = o.x
        BY <1>0, <3>2, <4>2 DEF OpRecords
      <4>4. CASE o.x = x
        <5>1. (\E i \in Client : Moving(i, x))'
          BY <4>3, <4>4 DEF Moving
        <5> QED BY <5>1 DEF Stays
      <4>5. CASE o.x # x
        BY <2>1, <3>1, <3>2, <4>1, <4>3, <4>5 DEF Stays
      <4> QED BY <4>4, <4>5
    <3>3. CASE o.k # "rename"
      <4>1. <<o.k, o.ph>> \in {<<"unlink", "one">>, <<"rmdir", "two">>}
        BY <1>0, <2>3, <3>3 DEF Take, Top, Sound, Staged
      <4>2. After(o, k, held) = Idle
        BY <4>1 DEF After
      <4>3. op'[c] = Idle
        BY <1>5, <4>2
      <4> QED BY <1>0, <2>1, <3>1, <4>1, <4>3 DEF Stays
    <3> QED BY <3>2, <3>3
  <2>4. CASE Shift(o, k, r)
    <3>0. o.n \in Name /\ o.m \in Name /\ o.n # o.m /\ o.k = "rename" /\ o.p = o.q /\ o.ph = "take"
          /\ d = o.d1
      BY <1>0, <2>4 DEF Shift, Sound, Stage
    <3>1. n \in {o.n, o.m}
      BY <1>4, <2>4, <3>0, EmptyParts DEF Shift, Recs
    <3>2. r.rec[o.m] = o.x
      BY <2>4, <3>0, EmptyParts DEF Shift, Recs
    <3>3. After(o, k, held) = Idle
      BY <3>0 DEF After
    <3>4. op'[c].ph # o.ph
      BY <1>4, <1>5, <3>0, <3>3, IdleParts
    <3>5. CASE n = o.n /\ o.x = x
      <4>1. truth'[d][o.m] = x
        BY <1>0, <3>0, <3>2, <3>5 DEF Linking
      <4> QED BY <3>0, <4>1 DEF Stays, Linked
    <3>6. CASE n = o.n /\ o.x # x
      BY <2>1, <3>0, <3>4, <3>6 DEF Stays
    <3>7. CASE n = o.m
      BY <1>0, <2>1, <3>0, <3>4, <3>7 DEF Stays
    <3> QED BY <3>1, <3>5, <3>6, <3>7
  <2>5. ~(r.rec = NoChange)
    BY <1>4, EmptyParts
  <2> QED BY <1>0, <2>2, <2>3, <2>4, <2>5 DEF Effect, Find
<1> QED BY <1>2, <1>3, <1>6, <1>4

(* A step of another client leaves a rename where it is, or kills it.      *)
LEMMA SettleOther ==
  ASSUME Typed, NEW c \in Client, op[c] # Idle, NEW j \in Client, c # j,
         \E o, dead, tb, pe, sp : Settle(j, o, dead, tb, pe, sp)
  PROVE  (op'[c].k = op[c].k /\ op'[c].x = op[c].x /\ op'[c].ph = op[c].ph) \/ c \notin up'
BY SettleOps DEF SameHold

(* The same for every form of a step.                                      *)
LEMMA FormedOther ==
  ASSUME Typed, NEW c \in Client, op[c] # Idle, NEW j \in Client, c # j, Formed(j)
  PROVE  (op'[c].k = op[c].k /\ op'[c].x = op[c].x /\ op'[c].ph = op[c].ph) \/ c \notin up'
<1>1. CASE Looking(j)
  <2>1. PICK D \in SUBSET Dir, o \in Ops, dead \in SUBSET Client : Looks(j, D, o, dead)
    BY <1>1 DEF Looking
  <2> QED BY <2>1, SettleOther DEF Looks
<1>2. CASE Doing(j)
  <2>0. PICK s \in Client, D \in SUBSET Dir, lost \in BOOLEAN : \E k, held : Does(j, s, D, k, held, lost)
    BY <1>2 DEF Doing
  <2>1. PICK k, held : Does(j, s, D, k, held, lost)
    BY <2>0
  <2>2. \E o, dead, tb, pe, sp : Settle(j, o, dead, tb, pe, sp)
    <3>1. DoesParts(j, s, D, k, held, lost)
      BY <2>1, DoesAre
    <3> QED BY <3>1, Zenon DEF DoesParts
  <2> QED BY <2>2, SettleOther
<1>3. CASE Jotting(j)
  <2>1. PICK s \in Client, D \in SUBSET Dir : Jots(j, s, D)
    BY <1>3 DEF Jotting
  <2> QED BY <2>1, SettleOther DEF Jots
<1>4. CASE Leads(j)
  BY <1>4, SettleOther DEF Leads
<1> QED BY <1>1, <1>2, <1>3, <1>4 DEF Formed

(* A file between the two halves of a rename.                              *)
LEMMA MovingStays ==
  ASSUME Typed, DownInv, NEW c \in Client, NEW x \in File, Moving(c, x), [Next]_vars
  PROVE  Stays(x)
<1>0. op[c].k = "rename" /\ op[c] # Idle
  BY IdleParts DEF Moving
<1>1. ASSUME op'[c].k = op[c].k, op'[c].x = op[c].x, op'[c].ph = op[c].ph PROVE Stays(x)
  <2>1. (\E i \in Client : Moving(i, x))'
    BY <1>1 DEF Moving
  <2> QED BY <2>1 DEF Stays
<1>2. ASSUME c \notin up' \/ work' # work PROVE Stays(x)
  BY <1>0, <1>2 DEF Stays
<1>3. CASE Step(c)
  <2>1. CASE Steady(c)
    BY <1>3, <2>1, MoveEnds DEF Stays
  <2>2. CASE ~Steady(c)
    BY <2>2 DEF Stays
  <2> QED BY <2>1, <2>2
<1>4. ASSUME NEW j \in Client, Lose(j) \/ Crash(j) \/ getattr(j) \/ acquire_behind(j) PROVE Stays(x)
  <2>1. work' = work + 1 /\ work \in Nat
    <3>1. work' = work + 1
      BY <1>4 DEF Lose, Crash, getattr, acquire_behind
    <3> QED BY <3>1, BoundAssumption DEF Typed
  <2> QED BY <1>2, <2>1
<1>5. ASSUME NEW j \in Client, Step(j), j # c PROVE Stays(x)
  <2>1. Formed(j)
    BY <1>5, StepForm
  <2> QED BY <1>0, <1>1, <1>2, <1>5, <2>1, FormedOther
<1>6. ASSUME NEW j \in Client, NEW d \in Dir, Checkpoint(j, d) PROVE Stays(x)
  <2>1. PICK o, dead, pe : /\ Settle(j, o, dead, table, pe, spoilt)
                           /\ o = op[j] \/ dead = {j}
    BY <1>6, Zenon DEF Checkpoint
  <2>2. CASE c # j
    BY <1>0, <1>1, <1>2, <2>1, <2>2, SettleOther
  <2>3. CASE c = j
    <3>1. op'[c] = op[c] \/ c \notin up'
      BY <2>1, <2>3 DEF Settle
    <3> QED BY <1>1, <1>2, <3>1
  <2> QED BY <2>2, <2>3
<1>7. ASSUME NEW j \in Client, Call(j) PROVE Stays(x)
  <2>1. PICK o \in Ops : Begin(j, o) /\ op[j] = Idle
    BY <1>7, CallForm DEF Begins
  <2>2. op'[c] = op[c]
    BY <1>0, <2>1 DEF Begin, Typed
  <2> QED BY <1>1, <2>2
<1>8. ASSUME NEW j \in Client, directory_table(j) PROVE Stays(x)
  BY <1>1, <1>8 DEF directory_table
<1>9. ASSUME NEW d \in Dir, Lapse(d) PROVE Stays(x)
  <2>1. op'[c] = Onwards(c, {}, table')
    BY <1>9 DEF Lapse
  <2>2. op'[c].k = op[c].k /\ op'[c].x = op[c].x /\ op'[c].ph = op[c].ph
    BY <2>1, OnwardsParts
  <2> QED BY <1>1, <2>2
<1>10. CASE UNCHANGED vars
  BY <1>1, <1>10 DEF vars
<1> QED BY <1>3, <1>4, <1>5, <1>6, <1>7, <1>8, <1>9, <1>10 DEF Next

(* A file with a name.                                                     *)
LEMMA LinkedStays ==
  ASSUME Typed, AgreeInv, NEW x \in File, Linked(x), [Next]_vars
  PROVE  Stays(x)
<1>1. ASSUME truth' = truth PROVE Stays(x)
  BY <1>1 DEF Stays, Linked
<1>2. ASSUME NEW c \in Client, Doing(c) PROVE Stays(x)
  <2>1. PICK d \in Dir, k \in Kids, lost \in BOOLEAN : \E r : Done(c, d, k, r, lost)
    BY <1>2, DoesDone
  <2>2. PICK r : Done(c, d, k, r, lost)
    BY <2>1
  <2> QED BY <2>2, DoneStays
<1>3. ASSUME NEW c \in Client, Formed(c), ~Doing(c) PROVE truth' = truth
  BY <1>3, Zenon DEF Formed, Looking, Looks, Jotting, Jots, Leads
<1>4. ASSUME NEW c \in Client, Formed(c) PROVE Stays(x)
  BY <1>1, <1>2, <1>3, <1>4
<1>5. ASSUME NEW c \in Client, NEW d \in Dir, Checkpoint(c, d) PROVE truth' = truth
  BY <1>5 DEF Checkpoint
<1>6. ASSUME NEW c \in Client, Call(c) PROVE truth' = truth
  BY <1>6, CallForm DEF Begins, Begin
<1>7. ASSUME NEW c \in Client, directory_table(c) \/ acquire_behind(c) PROVE truth' = truth
  BY <1>7 DEF directory_table, acquire_behind
<1>8. ASSUME NEW d \in Dir, Lapse(d) PROVE truth' = truth
  BY <1>8 DEF Lapse
<1>9. CASE UNCHANGED vars
  BY <1>1, <1>9 DEF vars
<1> QED BY <1>1, <1>4, <1>5, <1>6, <1>7, <1>8, <1>9, StepForm DEF Next

(* The first state has no tables.                                          *)
LEMMA InitDown == Init => DownInv
BY DEF Init, DownInv

(* For any set of clients, directories, names and files: a file is never   *)
(* lost but by an unlink or another file of its name, by the second half   *)
(* of a rmdir that finds it under the directory's old name, by a rename    *)
(* that found another file under that name before it took the lock again,  *)
(* in a directory that a failure or a race has hit, or in a rename between *)
(* its two halves whose client dies, whose message is lost, or whose       *)
(* destination is no longer as rename looked it up.                        *)
THEOREM FilesAreKept == Spec => FileKept
<1> DEFINE Inv == Typed /\ IInv /\ AgreeInv /\ DownInv
           Keeps == \A x \in File : Linked(x) \/ (\E c \in Client : Moving(c, x)) => Stays(x)
<1>1. Init => Inv
  BY InitTyped, InitLed, InitAgrees, InitDown
<1>2. Inv /\ [Next]_vars => Inv'
  BY NextTyped, NextLed, NextAgrees, NextDown
<1>3. Inv /\ [Next]_vars => [Keeps]_vars
  <2> SUFFICES ASSUME Inv, [Next]_vars PROVE Keeps
    OBVIOUS
  <2> QED BY LinkedStays, MovingStays
<1>4. FileKept <=> [][Keeps]_vars
  BY DEF FileKept, Stays
<1> QED BY <1>1, <1>2, <1>3, <1>4, PTL DEF Spec

=============================================================================
