--------------------------- MODULE OpenFilesProofs ---------------------------
(***************************************************************************)
(* Proofs about OpenFiles, for any number of clients, files and names, any *)
(* range of attributes and any amount of work.                             *)
(***************************************************************************)
EXTENDS OpenFiles, TLAPS

Where == {"fh", "path"}

Object == [kids : [Name -> File \cup {Nil}], attr : [File -> Attr]]

Pending == [kids : [Name -> File \cup {Nil, Keep}],
            attr : [File -> Attr \cup {Keep}],
            stray : BOOLEAN]

RefType == [loc : {"none", "LOCAL", "REMOTE"}, f : File \cup {Nil},
            n : Name \cup {Nil}, at : Client \cup {Nil},
            own : BOOLEAN, attr : Attr]

Kind == Changing \cup {"idle", "getattr", "access", "open"}

OpType == [k : Kind, v : Value, w : Where]

(* What a reference to an inode holds, by where the inode is.              *)
RefOK(r) ==
  /\ r.loc = "none" => r = NoRef
  /\ r.loc = "LOCAL" => r.f \in File
  /\ r.loc = "REMOTE" => r.f \in File /\ r.n \in Name /\ ~r.own

(* The types of the whole state, and an operation under way has an inode.  *)
Shape ==
  /\ leader \in Client \cup {Nil}
  /\ loc \in [Client -> {"none", "LOCAL", "REMOTE"}]
  /\ mem \in Object /\ pool \in Object
  /\ pend \in [Client -> Pending]
  /\ ref \in [Client -> [Where -> RefType]]
  /\ \A c \in Client, w \in Where : RefOK(ref[c][w])
  /\ op \in [Client -> OpType]
  /\ \A c \in Client : op[c] # Idle => ref[c][op[c].w].loc # "none"
  /\ up \subseteq Client /\ used \subseteq File
  /\ truth \in [File -> Attr]
  /\ spoilt \subseteq File /\ rebound \subseteq Name
  /\ work \in 0..MaxWork

(* Only the leader has a table, and only its own handles point into it.    *)
Leads ==
  /\ \A c \in Client : loc[c] = "LOCAL" => leader = c
  /\ \A c \in Client, w \in Where : ref[c][w].own => loc[c] = "LOCAL"

(* A file nobody has created is nowhere, and has no attributes yet.        *)
FromUsed ==
  /\ \A n \in Name : mem.kids[n] \in used \cup {Nil}
  /\ \A n \in Name : pool.kids[n] \in used \cup {Nil}
  /\ \A c \in Client, n \in Name : pend[c].kids[n] \in used \cup {Nil, Keep}
  /\ \A c \in Client, w \in Where : ref[c][w].f \in used \cup {Nil}
  /\ \A f \in File \ used : truth[f] = NewAttr

(* The table, the journals and the pool have the attributes of a file that *)
(* is not spoilt, and while there is a table only its owner has them in    *)
(* its journal.                                                            *)
AttrsAgree ==
  \A f \in File \ spoilt :
    /\ \A c \in Client : loc[c] = "LOCAL" =>
         /\ mem.attr[f] = truth[f]
         /\ \A i \in Client \ {c} : pend[i].attr[f] = Keep
    /\ \A i \in Client : pend[i].attr[f] \in {Keep, truth[f]}
    /\ (\A i \in Client : pend[i].attr[f] = Keep) => pool.attr[f] = truth[f]

(* The journals and the pool together say that name n is file f.           *)
Durable(n, f) ==
  /\ \A i \in Client : pend[i].kids[n] \in {Keep, f}
  /\ (\A i \in Client : pend[i].kids[n] = Keep) => pool.kids[n] = f

(* The same for a name that was not taken from a file; and a remote inode  *)
(* by that name means the file the journals and the pool have there.       *)
NamesAgree ==
  \A n \in Name \ rebound :
    /\ \A c \in Client : loc[c] = "LOCAL" =>
         /\ Durable(n, mem.kids[n])
         /\ \A i \in Client \ {c} : pend[i].kids[n] = Keep
    /\ \A c \in Client, w \in Where :
         ref[c][w].loc = "REMOTE" /\ ref[c][w].n = n =>
           /\ Durable(n, ref[c][w].f)
           /\ (\E i \in Client : loc[i] = "LOCAL") => mem.kids[n] = ref[c][w].f

IInv == Shape /\ Leads /\ FromUsed /\ AttrsAgree /\ NamesAgree

-----------------------------------------------------------------------------
(* Facts about the operators of the model.                                 *)

(* The values the state starts with have their types.                      *)
LEMMA ConstantTypes ==
  /\ NewAttr \in Attr /\ NoRef \in RefType /\ RefOK(NoRef)
  /\ NoPend \in Pending /\ NoMem \in Object /\ Idle \in OpType
<1>1. NewAttr \in Attr
  BY BoundAssumption DEF NewAttr, Attr, Value
<1>2. NoRef \in RefType /\ RefOK(NoRef)
  BY <1>1 DEF NoRef, RefType, RefOK
<1>3. NoPend \in Pending /\ NoMem \in Object
  BY <1>1 DEF NoPend, Pending, NoMem, Object
<1>4. Idle \in OpType
  BY BoundAssumption DEF Idle, OpType, Kind, Where, Value
<1> QED
  BY <1>1, <1>2, <1>3, <1>4

(* A handler makes attributes of attributes.                               *)
LEMMA ServeType ==
  ASSUME NEW k, NEW a \in Attr, NEW v \in Value
  PROVE  Serve(k, a, v) \in Attr
<1>1. /\ [a EXCEPT !.mode = v] \in Attr /\ [a EXCEPT !.owner = v] \in Attr
      /\ [a EXCEPT !.times = v] \in Attr /\ [a EXCEPT !.size = v] \in Attr
      /\ [a EXCEPT !.size = 0] \in Attr
  BY BoundAssumption DEF Attr, Value
<1> QED
  BY <1>1 DEF Serve, rpc_chmod, rpc_chown, rpc_utimens, rpc_truncate, rpc_write,
              rpc_open, rpc_getattr, rpc_access

(* A handler that is not one of the changing ones changes nothing.         *)
LEMMA ServeReads ==
  ASSUME NEW k, k \notin Changing, NEW a, NEW v
  PROVE  Serve(k, a, v) = a
  BY DEF Serve, Changing, rpc_getattr, rpc_access

(* What is not journaled is no change.                                     *)
LEMMA JournalsChanges ==
  ASSUME NEW k, NEW a, NEW v, ~Journals(k, Serve(k, a, v), a)
  PROVE  Serve(k, a, v) = a
  BY ServeReads DEF Journals

(* The references a client gets to an inode are well formed.               *)
LEMMA RefTypes ==
  ASSUME NEW f \in File, NEW n \in Name, NEW s \in Client \cup {Nil}
  PROVE  /\ LocalRef(f) \in RefType /\ RefOK(LocalRef(f))
         /\ LocalRef(f).loc = "LOCAL" /\ LocalRef(f).f = f /\ LocalRef(f).own
         /\ RemoteRef(f, n, s) \in RefType /\ RefOK(RemoteRef(f, n, s))
         /\ RemoteRef(f, n, s).loc = "REMOTE" /\ RemoteRef(f, n, s).f = f
         /\ RemoteRef(f, n, s).n = n /\ ~RemoteRef(f, n, s).own
<1>1. NewAttr \in Attr
  BY ConstantTypes
<1> QED
  BY <1>1 DEF LocalRef, RemoteRef, NoRef, RefType, RefOK

-----------------------------------------------------------------------------
(***************************************************************************)
(* A process dies, in whatever operation: what was in its journal only is  *)
(* spoilt, its table and its references are gone.                          *)
(***************************************************************************)
LEMMA KillInv ==
  ASSUME IInv, NEW c \in Client, Kill(c), work' \in 0..MaxWork,
         UNCHANGED <<leader, mem, pool, used, truth>>
  PROVE  IInv'
<1>1. /\ up' = up \ {c}
      /\ loc' = [loc EXCEPT ![c] = "none"]
      /\ pend' = [pend EXCEPT ![c] = NoPend]
      /\ ref' = [ref EXCEPT ![c] = [w \in Where |-> NoRef]]
      /\ op' = [op EXCEPT ![c] = Idle]
      /\ spoilt' = spoilt \cup {f \in File : pend[c].attr[f] # Keep}
      /\ rebound' = rebound \cup {n \in Name : pend[c].kids[n] # Keep}
      /\ leader' = leader /\ mem' = mem /\ pool' = pool /\ used' = used
      /\ truth' = truth
  BY DEF Kill, Where
<1>2. Shape'
  BY <1>1, ConstantTypes DEF IInv, Shape
<1>3. Leads'
  BY <1>1 DEF IInv, Shape, Leads, NoRef
<1>4. FromUsed'
  BY <1>1 DEF IInv, Shape, FromUsed, NoRef, NoPend
<1>5. AttrsAgree'
  <2>1. \A f \in File \ spoilt', i \in Client : pend'[i].attr[f] = pend[i].attr[f]
    BY <1>1 DEF IInv, Shape, NoPend
  <2> QED
    BY <1>1, <2>1 DEF IInv, Shape, AttrsAgree
<1>6. NamesAgree'
  <2>1. \A n \in Name \ rebound', i \in Client : pend'[i].kids[n] = pend[i].kids[n]
    BY <1>1 DEF IInv, Shape, NoPend
  <2>2. /\ \A i \in Client : loc'[i] = "LOCAL" => loc[i] = "LOCAL"
        /\ \A i \in Client, w \in Where :
             ref'[i][w].loc = "REMOTE" => ref'[i][w] = ref[i][w]
    BY <1>1 DEF IInv, Shape, NoRef
  <2>3. rebound \subseteq rebound' /\ mem' = mem /\ pool' = pool
    BY <1>1
  <2> QED
    BY <2>1, <2>2, <2>3 DEF IInv, NamesAgree, Durable
<1> QED
  BY <1>2, <1>3, <1>4, <1>5, <1>6 DEF IInv

-----------------------------------------------------------------------------
(* What a client works on when it has, or loads, the table.                *)
TableOf(c) == IF Loads(c) THEN pool ELSE mem

(* Every remote inode a client has after the step it had before.           *)
RefsKept ==
  \A i \in Client, w \in Where : ref'[i][w].loc = "REMOTE" =>
    \E u \in Where : /\ ref[i][u].loc = "REMOTE"
                     /\ ref[i][u].n = ref'[i][w].n
                     /\ ref[i][u].f = ref'[i][w].f

(***************************************************************************)
(* The table of a client that has one, or that loads one now, holds the    *)
(* attributes and the names of whatever was not missed, and nobody else    *)
(* has a table.                                                            *)
(***************************************************************************)
LEMMA TableFacts ==
  ASSUME IInv, NEW c \in Client, get_dentry_table(c) = "LOCAL"
  PROVE  /\ TableOf(c) \in Object
         /\ leader \in {Nil, c}
         /\ \A i \in Client : loc[i] = "LOCAL" => i = c
         /\ \A n \in Name : TableOf(c).kids[n] \in used \cup {Nil}
         /\ \A f \in File \ (spoilt \cup Missed(c)) :
              /\ TableOf(c).attr[f] = truth[f]
              /\ \A i \in Client \ {c} : pend[i].attr[f] = Keep
         /\ \A n \in Name \ (rebound \cup MissedNames(c)) :
              /\ Durable(n, TableOf(c).kids[n])
              /\ \A i \in Client \ {c} : pend[i].kids[n] = Keep
              /\ \A i \in Client, w \in Where :
                   ref[i][w].loc = "REMOTE" /\ ref[i][w].n = n =>
                     ref[i][w].f = TableOf(c).kids[n]
<1> USE NilAssumption
<1>1. CASE Loads(c)
  <2>1. /\ TableOf(c) = pool
        /\ Missed(c) = {f \in File : \E i \in Client : pend[i].attr[f] # Keep}
        /\ MissedNames(c) = {n \in Name : \E i \in Client : pend[i].kids[n] # Keep}
    BY <1>1 DEF TableOf, Missed, MissedNames
  <2>2. leader \in {Nil, c} /\ \A i \in Client : loc[i] # "LOCAL"
    BY <1>1 DEF Loads, IInv, Leads
  <2>3. \A f \in File \ (spoilt \cup Missed(c)) :
          /\ pool.attr[f] = truth[f]
          /\ \A i \in Client : pend[i].attr[f] = Keep
    BY <2>1 DEF IInv, AttrsAgree
  <2>4. \A n \in Name \ (rebound \cup MissedNames(c)) :
          /\ Durable(n, pool.kids[n])
          /\ \A i \in Client : pend[i].kids[n] = Keep
    BY <2>1 DEF Durable
  <2>5. \A n \in Name \ (rebound \cup MissedNames(c)), i \in Client, w \in Where :
          ref[i][w].loc = "REMOTE" /\ ref[i][w].n = n => ref[i][w].f = pool.kids[n]
    BY <2>4 DEF IInv, NamesAgree, Durable
  <2> QED
    BY <2>1, <2>2, <2>3, <2>4, <2>5 DEF IInv, Shape, FromUsed
<1>2. CASE ~Loads(c)
  <2>1. TableOf(c) = mem /\ Missed(c) = {} /\ MissedNames(c) = {}
    BY <1>2 DEF TableOf, Missed, MissedNames
  <2>2. loc[c] = "LOCAL"
    BY <1>2 DEF get_dentry_table
  <2>3. leader = c /\ \A i \in Client : loc[i] = "LOCAL" => i = c
    BY <2>2 DEF IInv, Leads
  <2> QED
    BY <2>1, <2>2, <2>3 DEF IInv, Shape, FromUsed, AttrsAgree, NamesAgree
<1> QED
  BY <1>1, <1>2

(* No name changes, nobody gets a table: the names still agree.            *)
LEMMA NamesKept ==
  ASSUME IInv, RefsKept, rebound \subseteq rebound', pool'.kids = pool.kids,
         \A i \in Client : loc'[i] = "LOCAL" =>
                             loc[i] = "LOCAL" /\ mem'.kids = mem.kids,
         \A i \in Client, n \in Name : pend'[i].kids[n] = pend[i].kids[n]
  PROVE  NamesAgree'
<1>1. \A n \in Name : \A f : Durable(n, f)' <=> Durable(n, f)
  BY DEF Durable
<1>2. ASSUME NEW n \in Name \ rebound', NEW c \in Client, loc'[c] = "LOCAL"
      PROVE  /\ Durable(n, mem.kids[n])' /\ mem'.kids[n] = mem.kids[n]
             /\ \A i \in Client \ {c} : pend'[i].kids[n] = Keep
  BY <1>1, <1>2 DEF IInv, NamesAgree, Durable
<1>3. ASSUME NEW n \in Name \ rebound', NEW c \in Client, NEW w \in Where,
             ref'[c][w].loc = "REMOTE", ref'[c][w].n = n
      PROVE  /\ Durable(n, ref[c][w].f)'
             /\ (\E i \in Client : loc'[i] = "LOCAL") => mem'.kids[n] = ref'[c][w].f
  <2>1. PICK u \in Where : /\ ref[c][u].loc = "REMOTE" /\ ref[c][u].n = n
                           /\ ref[c][u].f = ref'[c][w].f
    BY <1>3 DEF RefsKept
  <2>2. /\ Durable(n, ref[c][u].f)
        /\ (\E i \in Client : loc[i] = "LOCAL") => mem.kids[n] = ref[c][u].f
    BY <1>3, <2>1 DEF IInv, NamesAgree
  <2>3. Durable(n, ref[c][w].f)'
    BY <2>1, <2>2 DEF Durable
  <2>4. (\E i \in Client : loc'[i] = "LOCAL") => mem'.kids[n] = ref'[c][w].f
    BY <2>1, <2>2
  <2> QED
    BY <2>3, <2>4
<1> QED
  BY <1>2, <1>3 DEF NamesAgree

(* A client has or loads the table; no name changes.                       *)
LEMMA NamesLoaded ==
  ASSUME IInv, RefsKept, NEW c \in Client, get_dentry_table(c) = "LOCAL",
         rebound' = rebound \cup MissedNames(c), pool' = pool,
         mem'.kids = TableOf(c).kids,
         \A i \in Client \ {c} : loc'[i] = loc[i],
         \A i \in Client, n \in Name : pend'[i].kids[n] = pend[i].kids[n]
  PROVE  NamesAgree'
<1>1. ASSUME NEW n \in Name \ rebound'
      PROVE  /\ Durable(n, mem.kids[n])'
             /\ \A i \in Client \ {c} : pend'[i].kids[n] = Keep
  BY <1>1, TableFacts DEF Durable
<1>2. ASSUME NEW n \in Name \ rebound', NEW i \in Client, NEW w \in Where,
             ref'[i][w].loc = "REMOTE", ref'[i][w].n = n
      PROVE  ref'[i][w].f = mem'.kids[n]
  BY <1>2, TableFacts DEF RefsKept
<1>3. \A i \in Client : loc'[i] = "LOCAL" => i = c
  BY TableFacts
<1> QED
  BY <1>1, <1>2, <1>3 DEF NamesAgree, Durable

(* No attribute changes, nobody gets a table: the attributes still agree.  *)
LEMMA AttrsKept ==
  ASSUME IInv, spoilt \subseteq spoilt', pool'.attr = pool.attr,
         \A i \in Client : loc'[i] = "LOCAL" =>
                             loc[i] = "LOCAL" /\ mem'.attr = mem.attr,
         \A i \in Client, f \in File \ spoilt' : pend'[i].attr[f] = pend[i].attr[f],
         \A f \in File \ spoilt' : truth'[f] = truth[f]
  PROVE  AttrsAgree'
  BY DEF IInv, AttrsAgree

(* A client has or loads the table and may change attributes in it, in its *)
(* journal and in the history alike.                                       *)
LEMMA AttrsLoaded ==
  ASSUME IInv, NEW c \in Client, get_dentry_table(c) = "LOCAL",
         spoilt \cup Missed(c) \subseteq spoilt', pool' = pool,
         \A i \in Client \ {c} : loc'[i] = loc[i],
         \A f \in File \ spoilt' :
           /\ mem'.attr[f] = truth'[f]
           /\ \A i \in Client \ {c} : pend'[i].attr[f] = pend[i].attr[f]
           /\ \/ pend'[c].attr[f] = pend[c].attr[f] /\ truth'[f] = truth[f]
              \/ pend'[c].attr[f] = truth'[f] /\ pend'[c].attr[f] # Keep
  PROVE  AttrsAgree'
<1>1. \A i \in Client : loc'[i] = "LOCAL" => i = c
  BY TableFacts
<1>2. ASSUME NEW f \in File \ spoilt'
      PROVE  /\ \A i \in Client \ {c} : pend'[i].attr[f] = Keep
             /\ \A i \in Client : pend'[i].attr[f] \in {Keep, truth'[f]}
             /\ (\A i \in Client : pend'[i].attr[f] = Keep) => pool'.attr[f] = truth'[f]
  <2>1. /\ \A i \in Client \ {c} : pend[i].attr[f] = Keep
        /\ pend[c].attr[f] \in {Keep, truth[f]}
        /\ (\A i \in Client : pend[i].attr[f] = Keep) => pool.attr[f] = truth[f]
    BY <1>2, TableFacts DEF IInv, AttrsAgree
  <2> QED
    BY <1>2, <2>1
<1> QED
  BY <1>1, <1>2 DEF AttrsAgree

(***************************************************************************)
(* A handler works on the inode of file g for somebody who means file f.   *)
(***************************************************************************)
LEMMA ApplyInv ==
  ASSUME IInv, NEW c \in Client, get_dentry_table(c) = "LOCAL",
         NEW g \in used, NEW f \in used, NEW k, NEW v \in Value,
         Apply(c, TableOf(c), g, f, k, v),
         spoilt \cup Missed(c) \subseteq spoilt', pool' = pool,
         g # f /\ k \in Changing => g \in spoilt' /\ f \in spoilt',
         \A i \in Client \ {c} : loc'[i] = loc[i]
  PROVE  /\ mem' \in Object /\ mem'.kids = TableOf(c).kids
         /\ pend' \in [Client -> Pending]
         /\ \A i \in Client, n \in Name : pend'[i].kids[n] = pend[i].kids[n]
         /\ truth' \in [File -> Attr]
         /\ \A h \in File \ used : truth'[h] = NewAttr
         /\ AttrsAgree'
<1> DEFINE m == TableOf(c)
           a == Serve(k, m.attr[g], v)
<1>1. m \in Object /\ g \in File /\ f \in File /\ truth \in [File -> Attr]
      /\ pend \in [Client -> Pending]
  BY TableFacts DEF IInv, Shape
<1>2. a \in Attr /\ Serve(k, truth[f], v) \in Attr
  BY <1>1, ServeType DEF Object
<1>3. /\ mem' = [m EXCEPT !.attr = [m.attr EXCEPT ![g] = a]]
      /\ truth' = [truth EXCEPT ![f] = Serve(k, truth[f], v)]
      /\ pend' = IF Journals(k, a, m.attr[g])
                   THEN [pend EXCEPT ![c] = [pend[c] EXCEPT !.attr =
                                              [pend[c].attr EXCEPT ![g] = a]]]
                   ELSE pend
  BY <1>1 DEF Apply, Object
<1> HIDE DEF m, a
<1>4. /\ mem' \in Object /\ mem'.kids = m.kids
      /\ \A h \in File : mem'.attr[h] = IF h = g THEN a ELSE m.attr[h]
  BY <1>1, <1>2, <1>3 DEF Object
<1>5. /\ truth' \in [File -> Attr]
      /\ \A h \in File \ used : truth'[h] = NewAttr
      /\ \A h \in File : h # f => truth'[h] = truth[h]
  BY <1>1, <1>2, <1>3 DEF IInv, FromUsed
<1>6. /\ pend' \in [Client -> Pending]
      /\ \A i \in Client, n \in Name : pend'[i].kids[n] = pend[i].kids[n]
      /\ \A i \in Client \ {c} : pend'[i] = pend[i]
      /\ \A h \in File \ {g} : pend'[c].attr[h] = pend[c].attr[h]
      /\ \/ pend'[c].attr[g] = a
         \/ pend'[c].attr[g] = pend[c].attr[g] /\ ~Journals(k, a, m.attr[g])
  <2> DEFINE p == [pend[c] EXCEPT !.attr = [pend[c].attr EXCEPT ![g] = a]]
  <2>1. /\ p \in Pending /\ p.kids = pend[c].kids /\ p.attr[g] = a
        /\ \A h \in File \ {g} : p.attr[h] = pend[c].attr[h]
    BY <1>1, <1>2 DEF Pending
  <2>2. CASE pend' = [pend EXCEPT ![c] = p]
    <3> HIDE DEF p
    <3> QED
      BY <1>1, <2>1, <2>2
  <2>3. CASE pend' = pend /\ ~Journals(k, a, m.attr[g])
    BY <1>1, <2>3
  <2> QED
    BY <1>3, <2>2, <2>3
<1>7. ASSUME NEW h \in File \ spoilt'
      PROVE  /\ mem'.attr[h] = truth'[h]
             /\ \A i \in Client \ {c} : pend'[i].attr[h] = pend[i].attr[h]
             /\ \/ pend'[c].attr[h] = pend[c].attr[h] /\ truth'[h] = truth[h]
                \/ pend'[c].attr[h] = truth'[h] /\ pend'[c].attr[h] # Keep
  <2>1. m.attr[h] = truth[h]
    BY <1>7, TableFacts DEF m
  <2>2. CASE k \notin Changing
    <3>1. a = m.attr[g] /\ Serve(k, truth[f], v) = truth[f] /\ ~Journals(k, a, m.attr[g])
      BY <2>2, ServeReads DEF a, Journals
    <3> QED
      BY <1>1, <1>3, <1>4, <1>6, <1>7, <2>1, <3>1
  <2>3. CASE k \in Changing /\ h # f
    <3>1. h # g
      BY <1>7, <2>3
    <3> QED
      BY <1>1, <1>4, <1>5, <1>6, <2>1, <2>3, <3>1
  <2>4. CASE k \in Changing /\ h = f
    <3>1. h = g /\ truth'[h] = a
      BY <1>1, <1>3, <1>7, <2>1, <2>4 DEF a
    <3>2. a # Keep
      BY <1>2, KeepAssumption
    <3>3. Journals(k, a, m.attr[g]) \/ a = truth[h]
      BY <2>1, <3>1, JournalsChanges DEF a
    <3> QED
      BY <1>4, <1>6, <3>1, <3>2, <3>3
  <2> QED
    BY <2>2, <2>3, <2>4
<1>8. AttrsAgree'
  BY <1>7, AttrsLoaded
<1> QED
  BY <1>4, <1>5, <1>6, <1>8 DEF m

-----------------------------------------------------------------------------
(* An operation that starts leaves the bound on work intact.               *)
LEMMA AbleWork ==
  ASSUME IInv, NEW c, NEW k, Able(c, k)
  PROVE  work' \in 0..MaxWork /\ op[c] = Idle
  BY BoundAssumption DEF IInv, Shape, Able

(* The leader does an operation that names a path at once.                 *)
LEMMA ByPathLocal ==
  ASSUME IInv, NEW c \in Client, NEW k, NEW v \in Value, NEW n \in Name,
         Able(c, k), TableOf(c).kids[n] # Nil, get_dentry_table(c) = "LOCAL",
         leader' = c, loc' = [loc EXCEPT ![c] = "LOCAL"],
         Apply(c, TableOf(c), TableOf(c).kids[n], TableOf(c).kids[n], k, v),
         ref' = IF Opens(k) THEN [ref EXCEPT ![c]["fh"] = LocalRef(TableOf(c).kids[n])]
                            ELSE ref,
         spoilt' = spoilt \cup Missed(c), rebound' = rebound \cup MissedNames(c),
         UNCHANGED <<op, up, pool, used>>
  PROVE  IInv'
<1> DEFINE g == TableOf(c).kids[n]
<1>1. g \in used /\ g \in File
  BY TableFacts DEF IInv, Shape
<1> HIDE DEF g
<1>2. /\ mem' \in Object /\ mem'.kids = TableOf(c).kids
      /\ pend' \in [Client -> Pending]
      /\ \A i \in Client, l \in Name : pend'[i].kids[l] = pend[i].kids[l]
      /\ truth' \in [File -> Attr]
      /\ \A h \in File \ used : truth'[h] = NewAttr
      /\ AttrsAgree'
  <2>1. Apply(c, TableOf(c), g, g, k, v)
    BY DEF g
  <2>2. \A i \in Client \ {c} : loc'[i] = loc[i]
    BY DEF IInv, Shape
  <2> QED
    BY <1>1, <2>1, <2>2, ApplyInv
<1>3. /\ ref' \in [Client -> [Where -> RefType]]
      /\ \A i \in Client, w \in Where :
           \/ ref'[i][w] = ref[i][w]
           \/ i = c /\ ref'[i][w] = LocalRef(g)
  <2>1. LocalRef(g) \in RefType
    BY <1>1, RefTypes
  <2>2. ref' = ref \/ ref' = [ref EXCEPT ![c] = [ref[c] EXCEPT !["fh"] = LocalRef(g)]]
    BY DEF g, IInv, Shape
  <2> QED
    BY <2>1, <2>2 DEF IInv, Shape, Where
<1>0. /\ RefOK(LocalRef(g)) /\ LocalRef(g).loc = "LOCAL" /\ LocalRef(g).f = g
  BY <1>1, RefTypes
<1>4. Shape'
  <2>1. /\ leader' \in Client \cup {Nil}
        /\ loc' \in [Client -> {"none", "LOCAL", "REMOTE"}]
        /\ spoilt' \subseteq File /\ rebound' \subseteq Name
    BY DEF IInv, Shape, Missed, MissedNames
  <2>2. \A i \in Client, w \in Where : RefOK(ref'[i][w])
    BY <1>0, <1>3 DEF IInv, Shape
  <2>3. \A i \in Client : op[i] # Idle => ref'[i][op[i].w].loc # "none"
    BY <1>0, <1>3 DEF IInv, Shape, OpType
  <2> QED
    BY <1>2, <1>3, <2>1, <2>2, <2>3, AbleWork DEF IInv, Shape
<1>5. Leads'
  <2>1. loc'[c] = "LOCAL" /\ \A i \in Client : loc[i] = "LOCAL" => i = c
    BY TableFacts DEF IInv, Shape
  <2>2. \A i \in Client : i # c => loc'[i] = loc[i]
    BY DEF IInv, Shape
  <2> QED
    BY <1>3, <2>1, <2>2 DEF IInv, Leads
<1>6. FromUsed'
  <2>1. \A i \in Client, w \in Where : ref'[i][w].f \in used \cup {Nil}
    BY <1>0, <1>1, <1>3 DEF IInv, FromUsed
  <2>2. \A l \in Name : mem'.kids[l] \in used \cup {Nil}
    BY <1>2, TableFacts
  <2> QED
    BY <1>2, <2>1, <2>2 DEF IInv, FromUsed
<1>7. NamesAgree'
  <2>1. RefsKept
    BY <1>0, <1>3 DEF RefsKept
  <2> QED
    BY <1>2, <2>1, NamesLoaded DEF IInv, Shape
<1> QED
  BY <1>2, <1>4, <1>5, <1>6, <1>7 DEF IInv

(* Another client looks the file up at the leader and gets a remote inode. *)
LEMMA ByPathRemote ==
  ASSUME IInv, NEW c \in Client, NEW k \in Kind, NEW v \in Value, NEW n \in Name,
         Able(c, k), mem.kids[n] # Nil,
         get_dentry_table(c) = "REMOTE", leader \in up, loc[leader] = "LOCAL",
         loc' = [loc EXCEPT ![c] = "REMOTE"],
         op' = [op EXCEPT ![c] = [k |-> k, v |-> v, w |-> "path"]],
         ref' = [ref EXCEPT ![c]["path"] = RemoteRef(mem.kids[n], n, leader)],
         UNCHANGED <<leader, mem, pend, truth, spoilt, rebound, up, pool, used>>
  PROVE  IInv'
<1> DEFINE g == mem.kids[n]
           r == RemoteRef(g, n, leader)
<1>1. g \in used /\ g \in File /\ leader \in Client
  BY DEF IInv, Shape, FromUsed
<1>2. /\ r \in RefType /\ RefOK(r) /\ r.loc = "REMOTE" /\ r.f = g /\ r.n = n
      /\ ~r.own
  BY <1>1, RefTypes
<1>3. ref' = [ref EXCEPT ![c] = [ref[c] EXCEPT !["path"] = r]]
  BY DEF IInv, Shape
<1> HIDE DEF r
<1>4. /\ ref' \in [Client -> [Where -> RefType]]
      /\ \A i \in Client, w \in Where :
           \/ ref'[i][w] = ref[i][w]
           \/ i = c /\ w = "path" /\ ref'[i][w] = r
      /\ ref'[c]["path"] = r
  BY <1>2, <1>3 DEF IInv, Shape, Where
<1>5. /\ loc' \in [Client -> {"none", "LOCAL", "REMOTE"}] /\ loc[c] # "LOCAL"
      /\ \A i \in Client : loc'[i] = "LOCAL" <=> loc[i] = "LOCAL"
  BY DEF IInv, Shape, get_dentry_table
<1>6. Shape'
  <2>1. op' \in [Client -> OpType] /\ \A i \in Client : i # c => op'[i] = op[i]
        /\ op'[c].w = "path"
    BY DEF IInv, Shape, OpType, Where
  <2>2. \A i \in Client : op'[i] # Idle => ref'[i][op'[i].w].loc # "none"
    BY <1>2, <1>4, <2>1 DEF IInv, Shape, OpType
  <2>3. \A i \in Client, w \in Where : RefOK(ref'[i][w])
    BY <1>2, <1>4 DEF IInv, Shape
  <2> QED
    BY <1>4, <1>5, <2>1, <2>2, <2>3, AbleWork DEF IInv, Shape
<1>7. Leads'
  BY <1>2, <1>4, <1>5 DEF IInv, Leads
<1>8. FromUsed'
  BY <1>1, <1>2, <1>4 DEF IInv, FromUsed
<1>9. AttrsAgree'
  BY <1>5 DEF IInv, AttrsAgree
<1>10. NamesAgree'
  <2>1. \A l \in Name : \A f : Durable(l, f)' <=> Durable(l, f)
    BY DEF Durable
  <2>2. n \notin rebound => Durable(n, g)
    BY <1>1 DEF IInv, NamesAgree
  <2>3. ASSUME NEW l \in Name \ rebound, NEW i \in Client, NEW w \in Where,
               ref'[i][w].loc = "REMOTE", ref'[i][w].n = l
        PROVE  Durable(l, ref'[i][w].f) /\ mem.kids[l] = ref'[i][w].f
    BY <1>1, <1>2, <1>4, <2>2, <2>3 DEF IInv, NamesAgree
  <2>4. \A l \in Name \ rebound, i \in Client : loc[i] = "LOCAL" =>
          Durable(l, mem.kids[l]) /\ \A j \in Client \ {i} : pend[j].kids[l] = Keep
    BY DEF IInv, NamesAgree
  <2> QED
    BY <1>5, <2>3, <2>4 DEF NamesAgree, Durable
<1> QED
  BY <1>6, <1>7, <1>8, <1>9, <1>10 DEF IInv

(* An operation that names a path.                                         *)
LEMMA ByPathInv ==
  ASSUME IInv, NEW c \in Client, NEW k \in Kind, NEW v \in Value, ByPath(c, k, v)
  PROVE  IInv'
<1> DEFINE Died == Kill(c) /\ UNCHANGED <<leader, mem, truth>>
<1>1. PICK n \in Name :
        /\ Able(c, k)
        /\ TableOf(c).kids[n] # Nil
        /\ \/ /\ get_dentry_table(c) = "LOCAL"
              /\ leader' = c
              /\ loc' = [loc EXCEPT ![c] = "LOCAL"]
              /\ Apply(c, TableOf(c), TableOf(c).kids[n], TableOf(c).kids[n], k, v)
              /\ ref' = IF Opens(k)
                          THEN [ref EXCEPT ![c]["fh"] = LocalRef(TableOf(c).kids[n])]
                          ELSE ref
              /\ spoilt' = spoilt \cup Missed(c)
              /\ rebound' = rebound \cup MissedNames(c)
              /\ UNCHANGED <<op, up>>
           \/ /\ get_dentry_table(c) = "REMOTE" /\ leader \in up /\ loc[leader] = "LOCAL"
              /\ loc' = [loc EXCEPT ![c] = "REMOTE"]
              /\ op' = [op EXCEPT ![c] = [k |-> k, v |-> v, w |-> "path"]]
              /\ ref' = [ref EXCEPT ![c]["path"] =
                           RemoteRef(TableOf(c).kids[n], n, leader)]
              /\ UNCHANGED <<leader, mem, pend, truth, spoilt, rebound, up>>
           \/ Died
        /\ UNCHANGED <<pool, used>>
  BY Zenon DEF ByPath, TableOf
<1>2. CASE get_dentry_table(c) = "LOCAL" /\ ~Died
  BY <1>1, <1>2, ByPathLocal
<1>3. CASE get_dentry_table(c) = "REMOTE" /\ ~Died
  <2>1. TableOf(c) = mem
    BY <1>3 DEF TableOf, get_dentry_table, Loads
  <2> QED
    BY <1>1, <1>3, <2>1, ByPathRemote
<1>4. CASE Died
  BY <1>1, <1>4, AbleWork, KillInv
<1> QED
  BY <1>1, <1>2, <1>3, <1>4

(* An operation on an open file starts with the inode of the handle.       *)
LEMMA ByHandleInv ==
  ASSUME IInv, NEW c \in Client, NEW k \in Kind, NEW v \in Value, ByHandle(c, k, v)
  PROVE  IInv'
<1>1. /\ op' = [op EXCEPT ![c] = [k |-> k, v |-> v, w |-> "fh"]]
      /\ ref[c]["fh"] # NoRef /\ work' \in 0..MaxWork
      /\ UNCHANGED <<leader, loc, mem, pool, pend, ref, up, used, truth, spoilt, rebound>>
  BY AbleWork DEF ByHandle
<1>2. Shape'
  <2>1. op' \in [Client -> OpType]
    BY <1>1 DEF IInv, Shape, OpType, Where
  <2>2. \A i \in Client : op'[i] # Idle => ref[i][op'[i].w].loc # "none"
    BY <1>1 DEF IInv, Shape, RefOK, Where
  <2> QED
    BY <1>1, <2>1, <2>2 DEF IInv, Shape
<1>3. Leads' /\ FromUsed' /\ AttrsAgree' /\ NamesAgree'
  BY <1>1 DEF IInv, Leads, FromUsed, AttrsAgree, NamesAgree, Durable
<1> QED
  BY <1>2, <1>3 DEF IInv

-----------------------------------------------------------------------------
(* After the step a client has references it had before, or none.          *)
RefsFromOwn ==
  \A i \in Client, w \in Where :
    ref'[i][w] = NoRef \/ \E u \in Where : ref'[i][w] = ref[i][u]

(* Such references are well formed and mean files that exist.              *)
LEMMA RefsFromOwnFacts ==
  ASSUME IInv, RefsFromOwn
  PROVE  /\ RefsKept
         /\ \A i \in Client, w \in Where : RefOK(ref'[i][w])
         /\ \A i \in Client, w \in Where : ref'[i][w].f \in used \cup {Nil}
         /\ \A i \in Client, w \in Where : ref'[i][w].own => loc[i] = "LOCAL"
<1>1. RefOK(NoRef) /\ NoRef.loc = "none" /\ NoRef.f = Nil /\ ~NoRef.own
  BY ConstantTypes DEF NoRef
<1>2. RefsKept
  BY <1>1 DEF RefsFromOwn, RefsKept
<1>3. \A i \in Client, w \in Where : RefOK(ref'[i][w])
  BY <1>1 DEF RefsFromOwn, IInv, Shape
<1>4. \A i \in Client, w \in Where : ref'[i][w].f \in used \cup {Nil}
  BY <1>1 DEF RefsFromOwn, IInv, FromUsed
<1>5. \A i \in Client, w \in Where : ref'[i][w].own => loc[i] = "LOCAL"
  BY <1>1 DEF RefsFromOwn, IInv, Leads
<1> QED
  BY <1>2, <1>3, <1>4, <1>5

(* The end of an operation.                                                *)
LEMMA DoneFacts ==
  ASSUME IInv, NEW c \in Client, Done(c)
  PROVE  /\ RefsFromOwn
         /\ ref' \in [Client -> [Where -> RefType]]
         /\ op' \in [Client -> OpType]
         /\ \A i \in Client : op'[i] # Idle => ref'[i][op'[i].w].loc # "none"
<1> DEFINE r == [fh |-> IF Opens(op[c].k) THEN ref[c]["path"] ELSE ref[c]["fh"],
                 path |-> NoRef]
<1>1. /\ r \in [Where -> RefType] /\ r["path"] = NoRef
      /\ r["fh"] = ref[c]["path"] \/ r["fh"] = ref[c]["fh"]
  BY ConstantTypes DEF IInv, Shape, Where
<1>2. /\ ref' = [ref EXCEPT ![c] = r] /\ op' = [op EXCEPT ![c] = Idle]
  BY DEF Done
<1> HIDE DEF r
<1>3. RefsFromOwn
  <2>1. ASSUME NEW i \in Client, NEW w \in Where
        PROVE  ref'[i][w] = NoRef \/ \E u \in Where : ref'[i][w] = ref[i][u]
    <3>1. CASE i = c
      BY <1>1, <1>2, <3>1 DEF IInv, Shape, Where
    <3>2. CASE i # c
      BY <1>2, <3>2 DEF IInv, Shape
    <3> QED
      BY <3>1, <3>2
  <2> QED
    BY <2>1 DEF RefsFromOwn
<1>4. ref' \in [Client -> [Where -> RefType]] /\ op' \in [Client -> OpType]
  BY <1>1, <1>2, ConstantTypes DEF IInv, Shape
<1>5. \A i \in Client : op'[i] # Idle => ref'[i][op'[i].w].loc # "none"
  BY <1>2 DEF IInv, Shape
<1> QED
  BY <1>3, <1>4, <1>5

(* The handle leaves the list.                                             *)
LEMMA ReleaseInv ==
  ASSUME IInv, NEW c \in Client, release(c)
  PROVE  IInv'
<1>1. /\ op[c] = Idle /\ ref' = [ref EXCEPT ![c] = [ref[c] EXCEPT !["fh"] = NoRef]]
      /\ UNCHANGED <<leader, loc, mem, pool, pend, op, up, used, truth, spoilt,
                     rebound, work>>
  BY DEF release, IInv, Shape
<1>2. RefsFromOwn /\ ref' \in [Client -> [Where -> RefType]]
      /\ \A i \in Client : i # c => ref'[i] = ref[i]
  BY <1>1, ConstantTypes DEF RefsFromOwn, IInv, Shape, Where
<1>3. Shape'
  <2>1. \A i \in Client : op[i] # Idle => ref'[i][op[i].w].loc # "none"
    BY <1>1, <1>2 DEF IInv, Shape
  <2> QED
    BY <1>1, <1>2, <2>1, RefsFromOwnFacts DEF IInv, Shape
<1>4. Leads' /\ FromUsed'
  BY <1>1, <1>2, RefsFromOwnFacts DEF IInv, Leads, FromUsed
<1>5. AttrsAgree'
  BY <1>1 DEF IInv, AttrsAgree
<1>6. NamesAgree'
  BY <1>1, <1>2, RefsFromOwnFacts, NamesKept
<1> QED
  BY <1>3, <1>4, <1>5, <1>6 DEF IInv

(* A pointer into the table: the leader changes its own inode.             *)
LEMMA LocalOpOwn ==
  ASSUME IInv, NEW c \in Client, op[c] # Idle, ref[c][op[c].w].loc = "LOCAL",
         ref[c][op[c].w].own,
         op' = [op EXCEPT ![c] = Idle],
         Apply(c, mem, ref[c][op[c].w].f, ref[c][op[c].w].f, op[c].k, op[c].v),
         UNCHANGED <<ref, spoilt, leader, loc, pool, up, used, rebound, work>>
  PROVE  IInv'
<1> DEFINE g == ref[c][op[c].w].f
<1>1. op[c].w \in Where /\ op[c].v \in Value /\ g \in File
  BY DEF IInv, Shape, OpType, RefOK
<1>2. loc[c] = "LOCAL" /\ g \in used
  BY <1>1, NilAssumption DEF IInv, Leads, FromUsed
<1>3. /\ get_dentry_table(c) = "LOCAL" /\ TableOf(c) = mem
      /\ Missed(c) = {} /\ MissedNames(c) = {}
  BY <1>2 DEF get_dentry_table, TableOf, Loads, Missed, MissedNames
<1>4. /\ mem' \in Object /\ mem'.kids = mem.kids
      /\ pend' \in [Client -> Pending]
      /\ \A i \in Client, n \in Name : pend'[i].kids[n] = pend[i].kids[n]
      /\ truth' \in [File -> Attr]
      /\ \A h \in File \ used : truth'[h] = NewAttr
      /\ AttrsAgree'
  <2>1. Apply(c, TableOf(c), g, g, op[c].k, op[c].v)
    BY <1>3
  <2> HIDE DEF g
  <2> QED
    BY <1>1, <1>2, <1>3, <2>1, ApplyInv
<1>5. Shape'
  BY <1>4, ConstantTypes DEF IInv, Shape
<1>6. Leads' /\ FromUsed'
  BY <1>4 DEF IInv, Leads, FromUsed
<1>7. NamesAgree'
  <2>1. RefsKept
    BY DEF RefsKept
  <2> QED
    BY <1>4, <2>1, NamesKept
<1> QED
  BY <1>4, <1>5, <1>6, <1>7 DEF IInv

(* A pointer that outlived the table: the inode it holds is changed and    *)
(* journaled, and the file is spoilt.                                      *)
LEMMA LocalOpStale ==
  ASSUME IInv, NEW c \in Client, NEW w \in Where, w = op[c].w,
         NEW r, r = ref[c][w], NEW a, a = Serve(op[c].k, r.attr, op[c].v),
         r.loc = "LOCAL", ~r.own,
         op' = [op EXCEPT ![c] = Idle],
         ref' = [ref EXCEPT ![c] = [ref[c] EXCEPT ![w] = [r EXCEPT !.attr = a]]],
         pend' = IF Journals(op[c].k, a, r.attr)
                   THEN [pend EXCEPT ![c].attr[r.f] = a] ELSE pend,
         truth' = [truth EXCEPT ![r.f] = Serve(op[c].k, @, op[c].v)],
         spoilt' = spoilt \cup IF op[c].k \in Changing THEN {r.f} ELSE {},
         UNCHANGED <<mem, leader, loc, pool, up, used, rebound, work>>
  PROVE  IInv'
<1> DEFINE s == [r EXCEPT !.attr = a]
<1>1. /\ r \in RefType /\ RefOK(r) /\ r.f \in File /\ op[c].v \in Value
      /\ truth \in [File -> Attr] /\ pend \in [Client -> Pending]
  BY DEF IInv, Shape, OpType, RefOK
<1>2. r.f \in used
  BY <1>1, NilAssumption DEF IInv, FromUsed
<1>3. a \in Attr /\ Serve(op[c].k, truth[r.f], op[c].v) \in Attr
  <2>1. r.attr \in Attr
    BY <1>1 DEF RefType
  <2> QED
    BY <1>1, <2>1, ServeType
<1>4. /\ s \in RefType /\ RefOK(s) /\ s.loc = "LOCAL" /\ s.f = r.f /\ ~s.own
  BY <1>1, <1>3 DEF RefType, RefOK
<1>0. ref' = [ref EXCEPT ![c] = [ref[c] EXCEPT ![w] = s]]
  OBVIOUS
<1> HIDE DEF s
<1>5. /\ ref' \in [Client -> [Where -> RefType]]
      /\ \A i \in Client, u \in Where :
           ref'[i][u] = ref[i][u] \/ (ref'[i][u] = s /\ i = c)
  BY <1>0, <1>4 DEF IInv, Shape
<1>6. /\ truth' \in [File -> Attr]
      /\ \A h \in File \ used : truth'[h] = NewAttr
      /\ \A h \in File \ spoilt' : truth'[h] = truth[h]
  <2>1. op[c].k \notin Changing => Serve(op[c].k, truth[r.f], op[c].v) = truth[r.f]
    BY ServeReads
  <2> QED
    BY <1>1, <1>2, <1>3, <2>1 DEF IInv, FromUsed
<1>7. /\ pend' \in [Client -> Pending]
      /\ \A i \in Client, n \in Name : pend'[i].kids[n] = pend[i].kids[n]
      /\ \A i \in Client, h \in File \ spoilt' : pend'[i].attr[h] = pend[i].attr[h]
  <2> DEFINE p == [pend[c] EXCEPT !.attr = [pend[c].attr EXCEPT ![r.f] = a]]
  <2>1. /\ p \in Pending /\ p.kids = pend[c].kids
        /\ \A h \in File : h # r.f => p.attr[h] = pend[c].attr[h]
    BY <1>1, <1>3 DEF Pending
  <2>2. pend' = IF Journals(op[c].k, a, r.attr) THEN [pend EXCEPT ![c] = p] ELSE pend
    BY <1>1
  <2>3. Journals(op[c].k, a, r.attr) => op[c].k \in Changing
    BY DEF Journals
  <2> HIDE DEF p
  <2> QED
    BY <1>1, <2>1, <2>2, <2>3
<1>8. Shape'
  <2>1. op' \in [Client -> OpType] /\ spoilt' \subseteq File
    BY <1>1, ConstantTypes DEF IInv, Shape
  <2>2. \A i \in Client, u \in Where : RefOK(ref'[i][u])
    BY <1>4, <1>5 DEF IInv, Shape
  <2>3. \A i \in Client : op'[i] # Idle => ref'[i][op'[i].w].loc # "none"
    BY <1>5 DEF IInv, Shape, OpType
  <2> QED
    BY <1>5, <1>6, <1>7, <2>1, <2>2, <2>3 DEF IInv, Shape
<1>9. Leads'
  BY <1>4, <1>5 DEF IInv, Leads
<1>10. FromUsed'
  <2>1. \A i \in Client, u \in Where : ref'[i][u].f \in used \cup {Nil}
    BY <1>2, <1>4, <1>5 DEF IInv, FromUsed
  <2> QED
    BY <1>6, <1>7, <2>1 DEF IInv, FromUsed
<1>11. AttrsAgree'
  BY <1>6, <1>7, AttrsKept
<1>12. NamesAgree'
  <2>1. RefsKept
    BY <1>4, <1>5 DEF RefsKept
  <2> QED
    BY <1>7, <2>1, NamesKept
<1> QED
  BY <1>8, <1>9, <1>10, <1>11, <1>12 DEF IInv

(* An operation on a pointer.                                              *)
LEMMA LocalOpInv ==
  ASSUME IInv, NEW c \in Client, local_op(c)
  PROVE  IInv'
<1> DEFINE r == ref[c][op[c].w]
           a == Serve(op[c].k, r.attr, op[c].v)
<1>1. op[c].w \in Where
  BY DEF IInv, Shape, OpType
<1>2. CASE r.own
  BY <1>2, LocalOpOwn DEF local_op
<1>3. CASE ~r.own
  <2>1. /\ r.loc = "LOCAL" /\ op' = [op EXCEPT ![c] = Idle]
        /\ ref' = [ref EXCEPT ![c][op[c].w].attr = a]
        /\ pend' = IF Journals(op[c].k, a, r.attr)
                     THEN [pend EXCEPT ![c].attr[r.f] = a] ELSE pend
        /\ truth' = [truth EXCEPT ![r.f] = Serve(op[c].k, @, op[c].v)]
        /\ spoilt' = spoilt \cup IF op[c].k \in Changing THEN {r.f} ELSE {}
        /\ UNCHANGED <<mem, leader, loc, pool, up, used, rebound, work>>
    BY <1>3 DEF local_op
  <2>2. ref' = [ref EXCEPT ![c] = [ref[c] EXCEPT ![op[c].w] = [r EXCEPT !.attr = a]]]
    BY <1>1, <2>1 DEF IInv, Shape
  <2> HIDE DEF r, a
  <2>3. r = ref[c][op[c].w] /\ a = Serve(op[c].k, r.attr, op[c].v)
    BY DEF r, a
  <2> QED
    BY <1>1, <1>3, <2>1, <2>2, <2>3, LocalOpStale
<1> QED
  BY <1>2, <1>3

-----------------------------------------------------------------------------
(* An operation on a remote inode ends and no name changes.                *)
LEMMA DoneInv ==
  ASSUME IInv, NEW c \in Client, Done(c),
         UNCHANGED <<leader, loc, pool, up, used, rebound, work>>,
         mem' \in Object, mem'.kids = mem.kids, pend' \in [Client -> Pending],
         \A i \in Client, n \in Name : pend'[i].kids[n] = pend[i].kids[n],
         truth' \in [File -> Attr], \A h \in File \ used : truth'[h] = NewAttr,
         spoilt' \subseteq File, AttrsAgree'
  PROVE  IInv'
<1>1. Shape'
  BY DoneFacts, RefsFromOwnFacts DEF IInv, Shape
<1>2. Leads' /\ FromUsed'
  BY DoneFacts, RefsFromOwnFacts DEF IInv, Leads, FromUsed
<1>3. NamesAgree'
  BY DoneFacts, RefsFromOwnFacts, NamesKept
<1> QED
  BY <1>1, <1>2, <1>3 DEF IInv

(* The leader serves a request for the name, whatever file is there now.   *)
LEMMA ServedInv ==
  ASSUME IInv, NEW c \in Client, NEW s \in Client, NEW g \in File, NEW f \in used,
         NEW k, NEW v \in Value, NEW n \in Name, loc[s] = "LOCAL", g = mem.kids[n],
         Apply(s, mem, g, f, k, v), Done(c),
         spoilt' = spoilt \cup IF g # f /\ k \in Changing THEN {g, f} ELSE {},
         UNCHANGED <<leader, loc, pool, up, used, rebound, work>>
  PROVE  IInv'
<1>1. /\ get_dentry_table(s) = "LOCAL" /\ TableOf(s) = mem /\ Missed(s) = {}
  BY DEF get_dentry_table, TableOf, Loads, Missed
<1>2. g \in used /\ f \in File
  BY NilAssumption DEF IInv, Shape, FromUsed
<1>3. /\ mem' \in Object /\ mem'.kids = mem.kids
      /\ pend' \in [Client -> Pending]
      /\ \A i \in Client, l \in Name : pend'[i].kids[l] = pend[i].kids[l]
      /\ truth' \in [File -> Attr]
      /\ \A h \in File \ used : truth'[h] = NewAttr
      /\ AttrsAgree'
  <2>1. Apply(s, TableOf(s), g, f, k, v) /\ spoilt \cup Missed(s) \subseteq spoilt'
    BY <1>1
  <2>2. g # f /\ k \in Changing => g \in spoilt' /\ f \in spoilt'
    OBVIOUS
  <2> QED
    BY <1>1, <1>2, <2>1, <2>2, ApplyInv
<1>4. spoilt' \subseteq File
  BY <1>2 DEF IInv, Shape
<1> QED
  BY <1>3, <1>4, DoneInv

(* A client that does not lead the directory changes an empty inode and    *)
(* journals that, for whatever directory.                                  *)
LEMMA MisservedInv ==
  ASSUME IInv, NEW c \in Client, NEW s \in Client, NEW f \in used, NEW k,
         NEW v \in Value, NEW b \in BOOLEAN, Done(c),
         truth' = [truth EXCEPT ![f] = Serve(k, @, v)],
         spoilt' = spoilt \cup IF k \in Changing THEN {f} ELSE {},
         pend' = [pend EXCEPT ![s].stray = @ \/ b],
         UNCHANGED <<leader, loc, mem, pool, up, used, rebound, work>>
  PROVE  IInv'
<1>1. f \in File /\ pend \in [Client -> Pending] /\ truth \in [File -> Attr]
  BY DEF IInv, Shape
<1>2. Serve(k, truth[f], v) \in Attr /\ (k \notin Changing => Serve(k, truth[f], v) = truth[f])
  BY <1>1, ServeType, ServeReads
<1>3. /\ truth' \in [File -> Attr] /\ \A h \in File \ used : truth'[h] = NewAttr
      /\ \A h \in File \ spoilt' : truth'[h] = truth[h]
  BY <1>1, <1>2 DEF IInv, FromUsed
<1>4. /\ pend' \in [Client -> Pending]
      /\ \A i \in Client : pend'[i].kids = pend[i].kids /\ pend'[i].attr = pend[i].attr
  <2> DEFINE p == [pend[s] EXCEPT !.stray = (pend[s].stray \/ b)]
  <2>1. (pend[s].stray \/ b) \in BOOLEAN
    OBVIOUS
  <2>2. p \in Pending /\ p.kids = pend[s].kids /\ p.attr = pend[s].attr
    BY <1>1, <2>1 DEF Pending
  <2>3. pend' = [pend EXCEPT ![s] = p]
    BY <1>1
  <2> HIDE DEF p
  <2> QED
    BY <1>1, <2>2, <2>3
<1>5. spoilt' \subseteq File /\ spoilt \subseteq spoilt'
  BY <1>1 DEF IInv, Shape
<1>6. AttrsAgree'
  BY <1>3, <1>4, <1>5, AttrsKept
<1> QED
  BY <1>3, <1>4, <1>5, <1>6, DoneInv DEF IInv, Shape

(* A request to the address the remote inode has.                          *)
LEMMA RemoteOpInv ==
  ASSUME IInv, NEW c \in Client, remote_op(c)
  PROVE  IInv'
<1> DEFINE o == op[c]
           r == ref[c][o.w]
           g == mem.kids[r.n]
<1>1. /\ o.w \in Where /\ o.v \in Value /\ r.f \in File /\ r.n \in Name
      /\ r.at \in Client /\ UNCHANGED <<leader, pool, used, work>>
  BY DEF remote_op, Calling, IInv, Shape, OpType, RefOK
<1>2. r.f \in used /\ g \in File \cup {Nil}
  BY <1>1, NilAssumption DEF IInv, Shape, FromUsed, Object
<1>3. CASE /\ loc[r.at] = "LOCAL" /\ g # Nil
           /\ Apply(r.at, mem, g, r.f, o.k, o.v)
           /\ Done(c)
           /\ spoilt' = spoilt \cup IF g # r.f /\ o.k \in Changing THEN {g, r.f} ELSE {}
           /\ UNCHANGED <<loc, up, rebound>>
  <2>1. g \in File
    BY <1>2, <1>3
  <2> QED
    BY <1>1, <1>2, <1>3, <2>1, ServedInv
<1>4. CASE Done(c) /\ UNCHANGED <<loc, mem, pend, up, truth, spoilt, rebound>>
  <2>1. AttrsAgree'
    BY <1>1, <1>4, AttrsKept
  <2> QED
    BY <1>1, <1>4, <2>1, DoneInv DEF IInv, Shape, FromUsed
<1>5. CASE /\ Done(c)
           /\ truth' = [truth EXCEPT ![r.f] = Serve(o.k, @, o.v)]
           /\ spoilt' = spoilt \cup IF o.k \in Changing THEN {r.f} ELSE {}
           /\ \E size \in Value :
                pend' = [pend EXCEPT ![r.at].stray =
                           @ \/ (o.k \in Changing /\ (o.k = "write" => size < o.v))]
           /\ UNCHANGED <<loc, mem, up, rebound>>
  <2>1. PICK size \in Value :
          pend' = [pend EXCEPT ![r.at].stray =
                     @ \/ (o.k \in Changing /\ (o.k = "write" => size < o.v))]
    BY <1>5
  <2> DEFINE b == o.k \in Changing /\ (o.k = "write" => size < o.v)
  <2>2. b \in BOOLEAN /\ pend' = [pend EXCEPT ![r.at].stray = @ \/ b]
    BY <2>1
  <2> HIDE DEF b
  <2> QED
    BY <1>1, <1>2, <1>5, <2>2, MisservedInv
<1>6. CASE Kill(c) /\ UNCHANGED <<mem, truth>>
  <2>1. work' \in 0..MaxWork
    BY <1>1 DEF IInv, Shape
  <2> QED
    BY <1>1, <1>6, <2>1, KillInv
<1> QED
  BY <1>3, <1>4, <1>5, <1>6 DEF remote_op

(* ENOTLEADER: the client looks for the leader again, and may become it.   *)
LEMMA FindAgainInv ==
  ASSUME IInv, NEW c \in Client, find_remote_dentry_table_again(c)
  PROVE  IInv'
<1> DEFINE w == op[c].w
           r == ref[c][w]
           x == IF get_dentry_table(c) = "LOCAL" THEN Nil ELSE leader
           s == [r EXCEPT !.at = x]
<1>1. /\ w \in Where /\ r.loc = "REMOTE" /\ r \in RefType /\ RefOK(r) /\ op[c] # Idle
      /\ ref \in [Client -> [Where -> RefType]]
  BY DEF find_remote_dentry_table_again, Calling, IInv, Shape, OpType
<1>2. /\ loc' = [loc EXCEPT ![c] = get_dentry_table(c)]
      /\ leader' = IF Loads(c) THEN c ELSE leader
      /\ mem' = IF Loads(c) THEN pool ELSE mem
      /\ ref' = [ref EXCEPT ![c] = [ref[c] EXCEPT ![w] = s]]
      /\ spoilt' = spoilt \cup Missed(c)
      /\ rebound' = rebound \cup MissedNames(c)
      /\ UNCHANGED <<pool, pend, op, up, used, truth, work>>
  BY <1>1 DEF find_remote_dentry_table_again
<1>3. /\ s \in RefType /\ RefOK(s) /\ s.loc = "REMOTE" /\ s.f = r.f /\ s.n = r.n
      /\ ~s.own
  <2>1. x \in Client \cup {Nil}
    BY DEF IInv, Shape
  <2> HIDE DEF x
  <2> QED
    BY <1>1, <2>1 DEF RefType, RefOK, NoRef
<1> HIDE DEF s, x
<1>4. /\ ref' \in [Client -> [Where -> RefType]]
      /\ \A i \in Client, u \in Where :
           ref'[i][u] = ref[i][u] \/ (i = c /\ u = w /\ ref'[i][u] = s)
  BY <1>1, <1>2, <1>3
<1>5. RefsKept
  BY <1>1, <1>3, <1>4 DEF RefsKept
<1>6. /\ loc' \in [Client -> {"none", "LOCAL", "REMOTE"}]
      /\ loc'[c] = get_dentry_table(c) /\ \A i \in Client : i # c => loc'[i] = loc[i]
  BY <1>2 DEF IInv, Shape, get_dentry_table
<1>7. Shape'
  <2>1. /\ leader' \in Client \cup {Nil} /\ mem' \in Object
        /\ spoilt' \subseteq File /\ rebound' \subseteq Name
    BY <1>2 DEF IInv, Shape, Missed, MissedNames
  <2>2. \A i \in Client, u \in Where : RefOK(ref'[i][u])
    BY <1>3, <1>4 DEF IInv, Shape
  <2>3. \A i \in Client : op[i] # Idle => ref'[i][op[i].w].loc # "none"
    BY <1>3, <1>4 DEF IInv, Shape, OpType
  <2> QED
    BY <1>2, <1>4, <1>6, <2>1, <2>2, <2>3 DEF IInv, Shape
<1>8. FromUsed'
  <2>1. \A i \in Client, u \in Where : ref'[i][u].f \in used \cup {Nil}
    BY <1>1, <1>3, <1>4 DEF IInv, FromUsed
  <2> QED
    BY <1>2, <2>1 DEF IInv, FromUsed
<1>9. CASE get_dentry_table(c) = "LOCAL"
  <2>1. Leads'
    <3>1. leader' = c /\ \A i \in Client : loc[i] = "LOCAL" => i = c
      BY <1>2, <1>9, TableFacts DEF get_dentry_table, IInv, Leads
    <3> QED
      BY <1>3, <1>4, <1>6, <1>9, <3>1 DEF IInv, Leads
  <2>2. mem' = TableOf(c)
    BY <1>2 DEF TableOf
  <2>3. AttrsAgree'
    BY <1>2, <1>6, <1>9, <2>2, TableFacts, AttrsLoaded
  <2>4. NamesAgree'
    BY <1>2, <1>5, <1>6, <1>9, <2>2, NamesLoaded
  <2> QED
    BY <1>7, <1>8, <2>1, <2>3, <2>4 DEF IInv
<1>10. CASE get_dentry_table(c) # "LOCAL"
  <2>1. ~Loads(c) /\ loc[c] # "LOCAL"
    BY <1>10 DEF get_dentry_table, Loads
  <2>2. mem' = mem /\ leader' = leader
    BY <1>2, <2>1
  <2>3. Leads'
    BY <1>3, <1>4, <1>6, <1>10, <2>1, <2>2 DEF IInv, Leads
  <2>4. AttrsAgree'
    BY <1>2, <1>6, <1>10, <2>2, AttrsKept
  <2>5. NamesAgree'
    BY <1>2, <1>5, <1>6, <1>10, <2>2, NamesKept
  <2> QED
    BY <1>7, <1>8, <2>3, <2>4, <2>5 DEF IInv
<1> QED
  BY <1>9, <1>10

-----------------------------------------------------------------------------
(* The leader gives the names the files in kids, taking those in taken     *)
(* away from a file, and has p in its journal afterwards.                  *)
Rebinds(kids, taken, p) ==
  /\ Rebind(kids, taken)
  /\ kids \in [Name -> File \cup {Nil}] /\ taken \subseteq Name
  /\ \A n \in Name : kids[n] \in used' \cup {Nil}
  /\ \A n \in Name \ (rebound \cup taken) :
       kids[n] = mem.kids[n] \/ mem.kids[n] = Nil
  /\ used \subseteq used' /\ used' \subseteq File
  /\ p \in Pending /\ p.kids = Noted(kids)
  /\ \A h \in File \ spoilt : p.attr[h] \in {pend[leader].attr[h], truth[h]}
  /\ pend' = [pend EXCEPT ![leader] = p]
  /\ ref' \in [Client -> [Where -> RefType]]
  /\ \A i \in Client, w \in Where :
       \/ ref'[i][w] = ref[i][w]
       \/ /\ RefOK(ref'[i][w]) /\ ref'[i][w].f \in used' /\ op[i] = Idle
          /\ ref'[i][w].own => i = leader
          /\ ref'[i][w].loc = "REMOTE" => kids[ref'[i][w].n] = ref'[i][w].f
  /\ loc' \in [Client -> {"none", "LOCAL", "REMOTE"}]
  /\ \A i \in Client : loc'[i] = "LOCAL" <=> loc[i] = "LOCAL"
  /\ UNCHANGED <<leader, pool, op, up, truth, spoilt>>

(***************************************************************************)
(* The leader changes names and journals them.  A name it does not take    *)
(* from a file stays, or was free: then no remote inode has it, and its    *)
(* file is in the leader's journal alone.                                  *)
(***************************************************************************)
LEMMA RebindInv ==
  ASSUME IInv, NEW kids, NEW taken, NEW p, Rebinds(kids, taken, p)
  PROVE  IInv'
<1> USE DEF Rebinds
<1>1. /\ leader \in Client /\ loc[leader] = "LOCAL" /\ work' \in 0..MaxWork
      /\ rebound' = rebound \cup taken
      /\ \A i \in Client : loc[i] = "LOCAL" => i = leader
  BY BoundAssumption DEF Rebind, IInv, Shape, Leads
<1>2. mem' \in Object /\ mem'.kids = kids /\ mem'.attr = mem.attr
  <2>1. mem' = [mem EXCEPT !.kids = kids]
    BY DEF Rebind
  <2> QED
    BY <2>1 DEF IInv, Shape, Object
<1>3. /\ pend' \in [Client -> Pending] /\ pend'[leader] = p
      /\ \A i \in Client : i # leader => pend'[i] = pend[i]
  BY <1>1 DEF IInv, Shape
<1>4. \A n \in Name : p.kids[n] = IF kids[n] # mem.kids[n] THEN kids[n]
                                                          ELSE pend[leader].kids[n]
  BY DEF Noted
<1>5. Shape'
  <2>1. \A i \in Client, w \in Where : RefOK(ref'[i][w])
    BY DEF IInv, Shape
  <2>2. \A i \in Client : op[i] # Idle => ref'[i][op[i].w].loc # "none"
    BY DEF IInv, Shape, OpType
  <2> QED
    BY <1>1, <1>2, <1>3, <2>1, <2>2 DEF IInv, Shape
<1>6. Leads'
  BY <1>1 DEF IInv, Leads
<1>7. FromUsed'
  <2>1. \A i \in Client, n \in Name : pend'[i].kids[n] \in used' \cup {Nil, Keep}
    BY <1>3, <1>4 DEF IInv, FromUsed
  <2>2. \A i \in Client, w \in Where : ref'[i][w].f \in used' \cup {Nil}
    BY DEF IInv, FromUsed
  <2> QED
    BY <1>2, <2>1, <2>2 DEF IInv, FromUsed
<1>8. AttrsAgree'
  <2>1. get_dentry_table(leader) = "LOCAL" /\ Missed(leader) = {}
    BY <1>1 DEF get_dentry_table, Missed, Loads
  <2>2. \A h \in File \ spoilt : mem.attr[h] = truth[h] /\ truth[h] # Keep
    BY <1>1, KeepAssumption DEF IInv, Shape, AttrsAgree
  <2>3. \A h \in File \ spoilt' :
          /\ mem'.attr[h] = truth'[h]
          /\ \A i \in Client \ {leader} : pend'[i].attr[h] = pend[i].attr[h]
          /\ \/ pend'[leader].attr[h] = pend[leader].attr[h] /\ truth'[h] = truth[h]
             \/ pend'[leader].attr[h] = truth'[h] /\ pend'[leader].attr[h] # Keep
    BY <1>2, <1>3, <2>2
  <2>4. ASSUME NEW h \in File \ spoilt'
        PROVE  /\ \A i \in Client \ {leader} : pend'[i].attr[h] = Keep
               /\ \A i \in Client : pend'[i].attr[h] \in {Keep, truth'[h]}
               /\ (\A i \in Client : pend'[i].attr[h] = Keep) =>
                    pool'.attr[h] = truth'[h]
    BY <1>1, <2>3 DEF IInv, AttrsAgree
  <2> QED
    BY <1>1, <2>3, <2>4 DEF AttrsAgree
<1>9. NamesAgree'
  <2>1. ASSUME NEW n \in Name \ rebound'
        PROVE  /\ Durable(n, mem.kids[n])'
               /\ \A i \in Client \ {leader} : pend'[i].kids[n] = Keep
    <3>1. Durable(n, mem.kids[n]) /\ \A i \in Client \ {leader} : pend[i].kids[n] = Keep
      BY <1>1, <2>1 DEF IInv, NamesAgree
    <3>2. kids[n] # Keep
      BY NilAssumption
    <3>3. CASE kids[n] = mem.kids[n]
      BY <1>1, <1>2, <1>3, <1>4, <3>1, <3>3 DEF Durable
    <3>4. CASE kids[n] # mem.kids[n]
      BY <1>1, <1>2, <1>3, <1>4, <3>1, <3>2, <3>4 DEF Durable
    <3> QED
      BY <3>3, <3>4
  <2>2. ASSUME NEW n \in Name \ rebound', NEW i \in Client, NEW w \in Where,
               ref'[i][w].loc = "REMOTE", ref'[i][w].n = n
        PROVE  mem'.kids[n] = ref'[i][w].f
    <3>1. CASE ref'[i][w] = ref[i][w]
      <4>1. mem.kids[n] = ref[i][w].f /\ ref[i][w].f # Nil
        BY <1>1, <2>2, <3>1, NilAssumption DEF IInv, Shape, NamesAgree, RefOK
      <4> QED
        BY <1>1, <1>2, <3>1, <4>1
    <3>2. CASE ref'[i][w] # ref[i][w]
      BY <1>2, <2>2, <3>2
    <3> QED
      BY <3>1, <3>2
  <2> QED
    BY <1>1, <2>1, <2>2 DEF NamesAgree, Durable
<1> QED
  BY <1>5, <1>6, <1>7, <1>8, <1>9 DEF IInv

(* A file's name is removed.                                               *)
LEMMA UnlinkInv == IInv /\ unlink => IInv'
<1> SUFFICES ASSUME IInv, unlink PROVE IInv'
  OBVIOUS
<1>1. PICK n \in Name :
        LET kids == [mem.kids EXCEPT ![n] = Nil] IN
        /\ Rebind(kids, {n})
        /\ pend' = [pend EXCEPT ![leader].kids = Noted(kids)]
        /\ UNCHANGED <<leader, loc, pool, ref, op, up, used, truth, spoilt>>
  BY Zenon DEF unlink
<1> DEFINE kids == [mem.kids EXCEPT ![n] = Nil]
           p == [pend[leader] EXCEPT !.kids = Noted(kids)]
<1>2. leader \in Client /\ pend[leader] \in Pending
  BY <1>1 DEF Rebind, IInv, Shape
<1>3. /\ kids \in [Name -> File \cup {Nil}]
      /\ \A l \in Name : kids[l] \in used \cup {Nil}
      /\ \A l \in Name \ {n} : kids[l] = mem.kids[l]
  BY DEF IInv, Shape, Object, FromUsed
<1>4. Rebind(kids, {n}) /\ pend' = [pend EXCEPT ![leader] = p]
      /\ UNCHANGED <<leader, loc, pool, ref, op, up, used, truth, spoilt>>
  BY <1>1, <1>2
<1> HIDE DEF kids
<1>5. Noted(kids) \in [Name -> File \cup {Nil, Keep}]
  BY <1>2, <1>3 DEF Noted, Pending
<1>6. p \in Pending /\ p.kids = Noted(kids) /\ p.attr = pend[leader].attr
  BY <1>2, <1>5 DEF Pending
<1> HIDE DEF p
<1> QED
  <2>1. Rebinds(kids, {n}, p)
    BY <1>3, <1>4, <1>6 DEF Rebinds, IInv, Shape
  <2> QED
    BY <2>1, RebindInv

(* A file gets another name, and its inode is journaled with it.           *)
LEMMA RenameInv == IInv /\ rename => IInv'
<1> SUFFICES ASSUME IInv, rename PROVE IInv'
  OBVIOUS
<1>1. PICK n \in Name, m \in Name :
        LET kids == [mem.kids EXCEPT ![n] = Nil, ![m] = mem.kids[n]] IN
        /\ n # m /\ mem.kids[n] # Nil
        /\ Rebind(kids, {n, m})
        /\ pend' = [pend EXCEPT ![leader].kids = Noted(kids),
                                ![leader].attr[mem.kids[n]] = mem.attr[mem.kids[n]]]
        /\ UNCHANGED <<leader, loc, pool, ref, op, up, used, truth, spoilt>>
  BY Zenon DEF rename
<1> DEFINE g == mem.kids[n]
           kids == [mem.kids EXCEPT ![n] = Nil, ![m] = g]
           q == Noted(kids)
           p == [pend[leader] EXCEPT !.kids = q,
                                     !.attr = [pend[leader].attr EXCEPT ![g] = mem.attr[g]]]
<1>2. /\ leader \in Client /\ pend \in [Client -> Pending] /\ loc[leader] = "LOCAL"
      /\ g \in used /\ g \in File /\ mem.attr[g] \in Attr
  BY <1>1 DEF Rebind, IInv, Shape, FromUsed, Object
<1>3. /\ kids \in [Name -> File \cup {Nil}]
      /\ \A l \in Name : kids[l] \in used \cup {Nil}
      /\ \A l \in Name \ {n, m} : kids[l] = mem.kids[l]
  BY <1>2 DEF IInv, Shape, Object, FromUsed
<1>4. Rebind(kids, {n, m}) /\ pend' = [pend EXCEPT ![leader] = p]
      /\ UNCHANGED <<leader, loc, pool, ref, op, up, used, truth, spoilt>>
  BY <1>1, <1>2 DEF Pending
<1> HIDE DEF kids
<1>5. q \in [Name -> File \cup {Nil, Keep}]
  BY <1>2, <1>3 DEF Noted, Pending
<1> HIDE DEF q
<1>6. /\ p \in Pending /\ p.kids = q
      /\ \A h \in File : p.attr[h] = IF h = g THEN mem.attr[g] ELSE pend[leader].attr[h]
  BY <1>2, <1>5 DEF Pending
<1> HIDE DEF p
<1>7. \A h \in File \ spoilt : p.attr[h] \in {pend[leader].attr[h], truth[h]}
  BY <1>2, <1>6 DEF IInv, AttrsAgree
<1>8. \A i \in Client, w \in Where : ref'[i][w] = ref[i][w]
  BY <1>4
<1>9. p.kids = Noted(kids)
  BY <1>6 DEF q
<1> QED
  <2>1. Rebinds(kids, {n, m}, p)
    BY <1>3, <1>4, <1>6, <1>7, <1>8, <1>9 DEF Rebinds, IInv, Shape
  <2> QED
    BY <2>1, RebindInv

(* A file is created under a free name, and opened.                        *)
LEMMA CreateInv ==
  ASSUME IInv, NEW c \in Client, create(c)
  PROVE  IInv'
<1>1. PICK n \in Name, f \in File \ used :
        LET kids == [mem.kids EXCEPT ![n] = f] IN
        /\ c \in up /\ op[c] = Idle /\ ref[c]["fh"] = NoRef
        /\ mem.kids[n] = Nil
        /\ Rebind(kids, {})
        /\ pend' = [pend EXCEPT ![leader].kids = Noted(kids),
                                ![leader].attr[f] = NewAttr]
        /\ ref' = [ref EXCEPT ![c]["fh"] = IF c = leader THEN LocalRef(f)
                                                         ELSE RemoteRef(f, n, leader)]
        /\ loc' = [loc EXCEPT ![c] = get_dentry_table(c)]
        /\ used' = used \cup {f}
        /\ UNCHANGED <<leader, pool, op, up, truth, spoilt>>
  BY Zenon DEF create
<1> DEFINE kids == [mem.kids EXCEPT ![n] = f]
           q == Noted(kids)
           r == IF c = leader THEN LocalRef(f) ELSE RemoteRef(f, n, leader)
           p == [pend[leader] EXCEPT !.kids = q,
                                     !.attr = [pend[leader].attr EXCEPT ![f] = NewAttr]]
<1>2. /\ leader \in Client /\ pend \in [Client -> Pending] /\ loc[leader] = "LOCAL"
      /\ ref \in [Client -> [Where -> RefType]]
  BY <1>1 DEF Rebind, IInv, Shape
<1>3. /\ kids \in [Name -> File \cup {Nil}] /\ kids[n] = f
      /\ \A l \in Name : kids[l] \in used' \cup {Nil}
      /\ \A l \in Name \ {n} : kids[l] = mem.kids[l]
  BY <1>1 DEF IInv, Shape, Object, FromUsed
<1>4. /\ Rebind(kids, {}) /\ pend' = [pend EXCEPT ![leader] = p]
      /\ ref' = [ref EXCEPT ![c] = [ref[c] EXCEPT !["fh"] = r]]
  BY <1>1, <1>2 DEF Pending
<1> HIDE DEF kids
<1>5. q \in [Name -> File \cup {Nil, Keep}]
  BY <1>2, <1>3 DEF Noted, Pending
<1> HIDE DEF q
<1>6. /\ p \in Pending /\ p.kids = q
      /\ \A h \in File : p.attr[h] = IF h = f THEN NewAttr ELSE pend[leader].attr[h]
  BY <1>2, <1>5, ConstantTypes DEF Pending
<1> HIDE DEF p
<1>7. \A h \in File \ spoilt : p.attr[h] \in {pend[leader].attr[h], truth[h]}
  BY <1>6 DEF IInv, FromUsed
<1>8. /\ r \in RefType /\ RefOK(r) /\ r.f = f
      /\ r.own => c = leader
      /\ r.loc = "REMOTE" => kids[r.n] = r.f
  BY <1>2, <1>3, RefTypes
<1> HIDE DEF r
<1>9. /\ ref' \in [Client -> [Where -> RefType]]
      /\ \A i \in Client, w \in Where : ref'[i][w] = ref[i][w] \/ (i = c /\ ref'[i][w] = r)
  BY <1>2, <1>4, <1>8 DEF Where
<1>10. /\ loc' \in [Client -> {"none", "LOCAL", "REMOTE"}]
       /\ \A i \in Client : loc'[i] = "LOCAL" <=> loc[i] = "LOCAL"
  <2>1. get_dentry_table(c) = "LOCAL" <=> loc[c] = "LOCAL"
    BY <1>2, NilAssumption DEF get_dentry_table, Loads
  <2>2. get_dentry_table(c) \in {"none", "LOCAL", "REMOTE"}
    BY DEF get_dentry_table, IInv, Shape
  <2> QED
    BY <1>1, <2>1, <2>2 DEF IInv, Shape
<1>11. p.kids = Noted(kids)
  BY <1>6 DEF q
<1>12. \A i \in Client, w \in Where :
         \/ ref'[i][w] = ref[i][w]
         \/ /\ RefOK(ref'[i][w]) /\ ref'[i][w].f \in used' /\ op[i] = Idle
            /\ ref'[i][w].own => i = leader
            /\ ref'[i][w].loc = "REMOTE" => kids[ref'[i][w].n] = ref'[i][w].f
  BY <1>1, <1>8, <1>9
<1>13. \A l \in Name \ (rebound \cup {}) : kids[l] = mem.kids[l] \/ mem.kids[l] = Nil
  BY <1>1, <1>3
<1>14. used \subseteq used' /\ used' \subseteq File
  BY <1>1 DEF IInv, Shape
<1>15. Rebinds(kids, {}, p)
  BY <1>1, <1>3, <1>4, <1>6, <1>7, <1>9, <1>10, <1>11, <1>12, <1>13, <1>14 DEF Rebinds
<1> QED
  BY <1>15, RebindInv

-----------------------------------------------------------------------------
(* The lease runs out: nobody has a table, pointers outlive it.            *)
LEMMA LapseInv == IInv /\ Lapse => IInv'
<1> SUFFICES ASSUME IInv, Lapse PROVE IInv'
  OBVIOUS
<1> DEFINE Out(r) == IF r.own THEN [r EXCEPT !.own = FALSE, !.attr = mem.attr[r.f]] ELSE r
<1>1. /\ leader' = Nil /\ loc' = [c \in Client |-> "none"]
      /\ ref' = [c \in Client |-> [w \in Where |-> Out(ref[c][w])]]
      /\ mem' = NoMem
      /\ UNCHANGED <<pool, pend, op, up, used, truth, spoilt, rebound, work>>
  BY DEF Lapse, Where
<1>2. ASSUME NEW c \in Client, NEW w \in Where
      PROVE  /\ Out(ref[c][w]) \in RefType /\ RefOK(Out(ref[c][w]))
             /\ Out(ref[c][w]).loc = ref[c][w].loc /\ Out(ref[c][w]).f = ref[c][w].f
             /\ Out(ref[c][w]).n = ref[c][w].n /\ ~Out(ref[c][w]).own
  <2> DEFINE r == ref[c][w]
  <2>1. r \in RefType /\ RefOK(r)
    BY <1>2 DEF IInv, Shape
  <2>2. CASE ~r.own
    BY <2>1, <2>2
  <2>3. CASE r.own
    <3>1. r.loc = "LOCAL" /\ r.f \in File
      BY <2>1, <2>3 DEF RefOK, RefType, NoRef
    <3>2. mem.attr[r.f] \in Attr
      BY <3>1 DEF IInv, Shape, Object
    <3> HIDE DEF r
    <3>3. /\ Out(r) \in RefType /\ RefOK(Out(r)) /\ Out(r).loc = r.loc
          /\ Out(r).f = r.f /\ Out(r).n = r.n /\ ~Out(r).own
      BY <2>1, <2>3, <3>1, <3>2 DEF RefType, RefOK
    <3> QED
      BY <3>3 DEF r
  <2> QED
    BY <2>2, <2>3
<1> HIDE DEF Out
<1>3. Shape'
  <2>1. \A i \in Client : op[i] # Idle => ref'[i][op[i].w].loc # "none"
    BY <1>1, <1>2 DEF IInv, Shape, OpType
  <2>2. ref' \in [Client -> [Where -> RefType]]
        /\ \A i \in Client, w \in Where : RefOK(ref'[i][w])
    BY <1>1, <1>2
  <2> QED
    BY <1>1, <2>1, <2>2, ConstantTypes DEF IInv, Shape
<1>4. Leads'
  BY <1>1, <1>2 DEF Leads
<1>5. FromUsed'
  BY <1>1, <1>2 DEF IInv, FromUsed, NoMem
<1>6. AttrsAgree'
  BY <1>1, AttrsKept
<1>7. NamesAgree'
  <2>1. RefsKept
    BY <1>1, <1>2 DEF RefsKept
  <2> QED
    BY <1>1, <2>1, NamesKept
<1> QED
  BY <1>3, <1>4, <1>5, <1>6, <1>7 DEF IInv

(* A journal is written to the pool: what the two say together stays.      *)
LEMMA CheckpointInv ==
  ASSUME IInv, NEW c \in Client, Checkpoint(c)
  PROVE  IInv'
<1> DEFINE p == [NoPend EXCEPT !.stray = pend[c].stray]
<1>1. /\ pool' = [kids |-> [n \in Name |-> IF pend[c].kids[n] = Keep THEN pool.kids[n]
                                           ELSE pend[c].kids[n]],
                  attr |-> [f \in File |-> IF pend[c].attr[f] = Keep THEN pool.attr[f]
                                           ELSE pend[c].attr[f]]]
      /\ pend' = [pend EXCEPT ![c] = p]
      /\ UNCHANGED <<leader, loc, mem, ref, op, up, used, truth, spoilt, rebound, work>>
  BY DEF Checkpoint
<1>2. pend \in [Client -> Pending] /\ pool \in Object
  BY DEF IInv, Shape
<1>3. p \in Pending /\ (\A n \in Name : p.kids[n] = Keep) /\ \A f \in File : p.attr[f] = Keep
  <2>1. pend[c].stray \in BOOLEAN
    BY <1>2 DEF Pending
  <2> QED
    BY <2>1, ConstantTypes DEF NoPend, Pending
<1> HIDE DEF p
<1>4. /\ pend' \in [Client -> Pending]
      /\ \A n \in Name : pend'[c].kids[n] = Keep
      /\ \A f \in File : pend'[c].attr[f] = Keep
      /\ \A i \in Client : i # c => pend'[i] = pend[i]
  BY <1>1, <1>2, <1>3
<1>5. /\ pool' \in Object
      /\ \A n \in Name : pool'.kids[n] = IF pend[c].kids[n] = Keep THEN pool.kids[n]
                                                                  ELSE pend[c].kids[n]
      /\ \A f \in File : pool'.attr[f] = IF pend[c].attr[f] = Keep THEN pool.attr[f]
                                                                  ELSE pend[c].attr[f]
  BY <1>1, <1>2 DEF Object, Pending
<1>6. Shape'
  BY <1>1, <1>4, <1>5 DEF IInv, Shape
<1>7. Leads'
  BY <1>1 DEF IInv, Leads
<1>8. FromUsed'
  <2>1. \A n \in Name : pool'.kids[n] \in used \cup {Nil}
    BY <1>5 DEF IInv, FromUsed
  <2>2. \A i \in Client, n \in Name : pend'[i].kids[n] \in used \cup {Nil, Keep}
    BY <1>4 DEF IInv, FromUsed
  <2> QED
    BY <1>1, <2>1, <2>2 DEF IInv, FromUsed
<1>9. AttrsAgree'
  BY <1>1, <1>4, <1>5 DEF IInv, AttrsAgree
<1>10. NamesAgree'
  <2>2. ASSUME NEW n \in Name \ rebound, NEW i \in Client, loc[i] = "LOCAL"
        PROVE  /\ Durable(n, mem.kids[n])'
               /\ \A j \in Client \ {i} : pend'[j].kids[n] = Keep
    <3>1. /\ Durable(n, mem.kids[n]) /\ mem' = mem
          /\ \A j \in Client \ {i} : pend[j].kids[n] = Keep
      BY <1>1, <2>2 DEF IInv, NamesAgree
    <3>2. \A j \in Client \ {i} : pend'[j].kids[n] = Keep
      BY <1>4, <3>1
    <3>3. Durable(n, mem.kids[n])'
      BY <1>4, <1>5, <3>1 DEF Durable
    <3> QED
      BY <3>2, <3>3
  <2>3. ASSUME NEW n \in Name \ rebound, NEW i \in Client, NEW w \in Where,
               ref[i][w].loc = "REMOTE", ref[i][w].n = n
        PROVE  /\ Durable(n, ref[i][w].f)'
               /\ (\E j \in Client : loc[j] = "LOCAL") => mem.kids[n] = ref[i][w].f
    <3>1. /\ Durable(n, ref[i][w].f) /\ ref' = ref
          /\ (\E j \in Client : loc[j] = "LOCAL") => mem.kids[n] = ref[i][w].f
      BY <1>1, <2>3 DEF IInv, NamesAgree
    <3>2. Durable(n, ref[i][w].f)'
      BY <1>4, <1>5, <3>1 DEF Durable
    <3> QED
      BY <3>1, <3>2
  <2> QED
    BY <1>1, <2>2, <2>3 DEF NamesAgree, Durable
<1> QED
  BY <1>6, <1>7, <1>8, <1>9, <1>10 DEF IInv

(* The checkpoint of a directory nobody named.                             *)
LEMMA CheckpointStrayInv ==
  ASSUME IInv, NEW c \in Client, CheckpointStray(c)
  PROVE  IInv'
<1> DEFINE p == [pend[c] EXCEPT !.stray = FALSE]
<1>1. UNCHANGED <<leader, mem, pool, used, truth, work>>
  BY DEF CheckpointStray
<1>2. CASE Kill(c)
  <2>1. work' \in 0..MaxWork
    BY <1>1 DEF IInv, Shape
  <2> QED
    BY <1>1, <1>2, <2>1, KillInv
<1>3. CASE /\ pend' = [pend EXCEPT ![c] = p]
           /\ UNCHANGED <<loc, ref, op, up, spoilt, rebound>>
  <2>1. pend \in [Client -> Pending]
    BY DEF IInv, Shape
  <2>2. p \in Pending /\ p.kids = pend[c].kids /\ p.attr = pend[c].attr
    BY <2>1 DEF Pending
  <2> HIDE DEF p
  <2>3. /\ pend' \in [Client -> Pending]
        /\ \A i \in Client : pend'[i].kids = pend[i].kids /\ pend'[i].attr = pend[i].attr
    BY <1>3, <2>1, <2>2
  <2>4. Shape' /\ Leads' /\ FromUsed'
    BY <1>1, <1>3, <2>3 DEF IInv, Shape, Leads, FromUsed
  <2>5. AttrsAgree'
    BY <1>1, <1>3, <2>3, AttrsKept
  <2>6. NamesAgree'
    <3>1. RefsKept
      BY <1>3 DEF RefsKept
    <3> QED
      BY <1>1, <1>3, <2>3, <3>1, NamesKept
  <2> QED
    BY <2>4, <2>5, <2>6 DEF IInv
<1> QED
  BY <1>2, <1>3 DEF CheckpointStray

(* The initial state satisfies the inductive invariant.                    *)
LEMMA InitInv == Init => IInv
<1> SUFFICES ASSUME Init PROVE IInv
  OBVIOUS
<1> USE FirstAssumption, NilAssumption, BoundAssumption
<1>1. /\ pool = [kids |-> First, attr |-> [f \in File |-> NewAttr]] /\ truth = pool.attr
      /\ mem = NoMem /\ pend = [c \in Client |-> NoPend] /\ op = [c \in Client |-> Idle]
      /\ ref = [c \in Client |-> [w \in Where |-> NoRef]]
      /\ loc = [c \in Client |-> "none"] /\ leader = Nil /\ up = Client
      /\ used = {First[n] : n \in Name} \ {Nil}
      /\ spoilt = {} /\ rebound = {} /\ work = 0
  BY DEF Init, Where
<1>2. pool \in Object /\ truth = [f \in File |-> NewAttr] /\ truth \in [File -> Attr]
  BY <1>1, ConstantTypes DEF Object
<1>3. Shape
  BY <1>1, <1>2, ConstantTypes DEF Shape
<1>4. Leads
  BY <1>1 DEF Leads, NoRef
<1>5. FromUsed
  BY <1>1, <1>2 DEF FromUsed, NoMem, NoPend, NoRef
<1>6. AttrsAgree
  BY <1>1, <1>2 DEF AttrsAgree, NoPend
<1>7. NamesAgree
  BY <1>1 DEF NamesAgree, NoRef
<1> QED
  BY <1>3, <1>4, <1>5, <1>6, <1>7 DEF IInv

(* Every step preserves the inductive invariant.                           *)
LEMMA NextInv == IInv /\ [Next]_vars => IInv'
<1> SUFFICES ASSUME IInv, [Next]_vars PROVE IInv'
  OBVIOUS
<1>1. ASSUME NEW c \in Client, Call(c) PROVE IInv'
  <2>1. \A k \in Kind, v \in Value : ByPath(c, k, v) \/ ByHandle(c, k, v) => IInv'
    BY ByPathInv, ByHandleInv
  <2>2. 0 \in Value /\ Changing \subseteq Kind /\ {"getattr", "access", "open"} \subseteq Kind
        /\ {"opentrunc", "chmod", "chown", "utimens", "truncate", "write"} \subseteq Kind
    BY BoundAssumption DEF Value, Kind, Changing
  <2>3. CASE getattr(c) \/ access(c) \/ open(c)
    BY <2>1, <2>2, <2>3 DEF getattr, access, open
  <2>4. CASE chmod(c) \/ chown(c) \/ utimens(c) \/ truncate(c) \/ write(c)
    BY <2>1, <2>2, <2>4 DEF chmod, chown, utimens, truncate, write
  <2> QED
    BY <1>1, <2>3, <2>4, ReleaseInv, CreateInv DEF Call
<1>2. ASSUME NEW c \in Client, Step(c) PROVE IInv'
  <2>1. CASE need_recov(c)
    <3>1. Kill(c) /\ UNCHANGED <<leader, mem, pool, used, truth, work>>
      BY <2>1 DEF need_recov
    <3>2. work' \in 0..MaxWork
      BY <3>1 DEF IInv, Shape
    <3> QED
      BY <3>1, <3>2, KillInv
  <2> QED
    BY <1>2, <2>1, LocalOpInv, RemoteOpInv, FindAgainInv DEF Step
<1>3. ASSUME NEW c \in Client, Crash(c) PROVE IInv'
  <2>1. Kill(c) /\ UNCHANGED <<leader, mem, pool, used, truth>> /\ work' \in 0..MaxWork
    BY <1>3, BoundAssumption DEF Crash, IInv, Shape
  <2> QED
    BY <2>1, KillInv
<1>4. ASSUME NEW c \in Client, Mount(c) PROVE IInv'
  <2>1. up' \subseteq Client
        /\ UNCHANGED <<leader, loc, mem, pool, pend, ref, op, used, truth, spoilt,
                       rebound, work>>
    BY <1>4 DEF Mount, IInv, Shape
  <2> QED
    BY <2>1 DEF IInv, Shape, Leads, FromUsed, AttrsAgree, NamesAgree, Durable
<1>5. CASE UNCHANGED vars
  BY <1>5 DEF vars, IInv, Shape, Leads, FromUsed, AttrsAgree, NamesAgree, Durable
<1> QED
  BY <1>1, <1>2, <1>3, <1>4, <1>5, CheckpointInv, CheckpointStrayInv, UnlinkInv,
     RenameInv, LapseInv DEF Next

(* The inductive invariant holds in every reachable state.                 *)
LEMMA Invariance == Spec => []IInv
  BY InitInv, NextInv, PTL DEF Spec

(***************************************************************************)
(* The state has its types; in particular an operation under way has an    *)
(* inode to work on, whatever happened to the table it came from.          *)
(***************************************************************************)
THEOREM TypeCorrect == Spec => []TypeOK
<1>1. IInv => TypeOK
  <2> SUFFICES ASSUME IInv PROVE TypeOK
    OBVIOUS
  <2>1. ASSUME NEW c \in Client, NEW w \in Where
        PROVE  /\ ref[c][w].loc = "LOCAL" => ref[c][w].f \in File
               /\ ref[c][w].loc = "REMOTE" =>
                    /\ ref[c][w].f \in File /\ ref[c][w].n \in Name
                    /\ ref[c][w].at \in Client \cup {Nil}
    BY <2>1 DEF IInv, Shape, RefOK, RefType
  <2>2. ASSUME NEW c \in Client
        PROVE  op[c].v \in Value /\ (op[c] # Idle => ref[c][op[c].w] # NoRef)
    BY <2>2 DEF IInv, Shape, OpType, NoRef
  <2>3. ASSUME NEW c \in Client
        PROVE  /\ pend[c].kids \in [Name -> File \cup {Nil, Keep}]
               /\ \A f \in File : pend[c].attr[f] = Keep \/ pend[c].attr[f] \in Attr
               /\ pend[c].stray \in BOOLEAN
    BY <2>3 DEF IInv, Shape, Pending
  <2>4. /\ mem.kids \in [Name -> File \cup {Nil}] /\ mem.attr \in [File -> Attr]
        /\ pool.kids \in [Name -> File \cup {Nil}] /\ pool.attr \in [File -> Attr]
    BY DEF IInv, Shape, Object
  <2> QED
    BY <2>1, <2>2, <2>3, <2>4 DEF IInv, Shape, TypeOK, Where
<1> QED
  BY <1>1, Invariance, PTL

(***************************************************************************)
(* Every acknowledged change of a file's attributes is where the next      *)
(* reader finds it, unless one of the things happened to the file that     *)
(* spoil it.                                                               *)
(***************************************************************************)
THEOREM AttributesAreKept == Spec => []AttributesKept
<1>1. IInv => AttributesKept
  <2> SUFFICES ASSUME IInv, NEW f \in File \ spoilt
               PROVE  /\ (\E c \in Client : loc[c] = "LOCAL") => mem.attr[f] = truth[f]
                      /\ LET journaled == {pend[c].attr[f] : c \in Client} \ {Keep}
                         IN  IF journaled = {} THEN pool.attr[f] = truth[f]
                                               ELSE journaled = {truth[f]}
    BY DEF AttributesKept
  <2> DEFINE journaled == {pend[c].attr[f] : c \in Client} \ {Keep}
  <2>1. (\E c \in Client : loc[c] = "LOCAL") => mem.attr[f] = truth[f]
    BY DEF IInv, AttrsAgree
  <2>2. journaled = {} => pool.attr[f] = truth[f]
    <3>1. journaled = {} => \A c \in Client : pend[c].attr[f] = Keep
      OBVIOUS
    <3> QED
      BY <3>1 DEF IInv, AttrsAgree
  <2>3. journaled # {} => journaled = {truth[f]}
    <3>1. journaled \subseteq {truth[f]}
      BY DEF IInv, AttrsAgree
    <3> QED
      BY <3>1
  <2> QED
    BY <2>1, <2>2, <2>3
<1> QED
  BY <1>1, Invariance, PTL

(***************************************************************************)
(* A remote inode's name is its file's, at whatever leader, as long as     *)
(* nobody takes the name away and nothing about it is lost.                *)
(***************************************************************************)
THEOREM NamesHold == Spec => []NameHolds
<1>1. IInv => NameHolds
  BY DEF IInv, Shape, RefOK, NamesAgree, NameHolds, Where
<1> QED
  BY <1>1, Invariance, PTL

=============================================================================
