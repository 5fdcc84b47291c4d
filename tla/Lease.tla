------------------------------- MODULE Lease -------------------------------
(***************************************************************************)
(* The directory leases of nmfs: the manager's lease table                 *)
(* (src/manager/lease) and the lease table each client keeps               *)
(* (src/client/lease), joined by the acquire RPC.                          *)
(*                                                                         *)
(* A lease is never renewed and never given back: it runs out.  Whoever    *)
(* asks next is the directory's leader for another Period.                 *)
(*                                                                         *)
(* A client is identified with its RPC server address.  A client has at    *)
(* most one acquire under way, because every caller of                     *)
(* lease_client::acquire holds directory_table_mutex; but the calls of a   *)
(* client that gave up on them live on inside the manager.                 *)
(***************************************************************************)
EXTENDS Integers

CONSTANTS
  Client,      \* the clients, by the address their RPC server listens on
  Ino,         \* the directories a lease may be asked for
  Call,        \* slots for acquire RPCs under way, one gRPC handler thread each
  None,        \* no client, no call
  Period,      \* LEASE_PERIOD_MS, in ticks of the clock
  Skew,        \* Skew[c]: how far the clock of c runs ahead of the manager's
  MaxTime      \* bound on the clock

ASSUME PeriodAssumption == Period \in Nat \ {0}
ASSUME MaxTimeAssumption == MaxTime \in Nat
ASSUME NoneAssumption == None \notin Client /\ None \notin Call
(* No client's clock is behind the manager's.  The two compare a due date  *)
(* the manager computed with their own system_clock.                       *)
ASSUME SkewAssumption == Skew \in [Client -> Nat]

VARIABLES
  now,         \* the manager's system_clock
  entry,       \* the manager's table: due date and leader of each directory
  call,        \* the acquire RPCs under way
  cur,         \* the RPC each client waits for, or None
  tab          \* the clients' tables: due date, and whether the lease is mine

vars == <<now, entry, call, cur, tab>>

----------------------------------------------------------------------------
(* A directory that is not in the manager's map has no leader; one that is *)
(* not in a client's map has due date 0, which is never ahead of a clock.  *)
NoEntry == [due |-> 0, addr |-> None]
NoLease == [due |-> 0, leader |-> FALSE]
FreeCall == [pc |-> "free", client |-> None, ino |-> None,
             ret |-> 0, due |-> 0, addr |-> None]
CallType == [pc : {"free", "sent", "cas", "insert", "replied"},
             client : Client \cup {None}, ino : Ino \cup {None},
             ret : {0, -1}, due : Nat, addr : Client \cup {None}]

(***************************************************************************)
(* The types of the state of both tables and of the RPCs between them.     *)
(***************************************************************************)
TypeOK ==
  /\ now \in Nat
  /\ entry \in [Ino -> [due : Nat, addr : Client \cup {None}]]
  /\ call \in [Call -> CallType]
  /\ \A k \in Call : call[k].pc # "free" => /\ call[k].client \in Client
                                            /\ call[k].ino \in Ino
  /\ cur \in [Client -> Call \cup {None}]
  /\ tab \in [Client -> [Ino -> [due : Nat, leader : BOOLEAN]]]

Init ==
  /\ now = 0
  /\ entry = [i \in Ino |-> NoEntry]
  /\ call = [k \in Call |-> FreeCall]
  /\ cur = [c \in Client |-> None]
  /\ tab = [c \in Client |-> [i \in Ino |-> NoLease]]

(* lease_table_client::is_valid and is_mine, read off the client's clock.  *)
is_valid(c, i) == now + Skew[c] < tab[c][i].due
is_mine(c, i) == tab[c][i].leader /\ now + Skew[c] < tab[c][i].due

Free(k) == call[k].pc = "free"
Awaited(k) == \E c \in Client : cur[c] = k

----------------------------------------------------------------------------
(* The client: lease_client::acquire.                                      *)

(* It asks the manager only when its own table does not say it leads.      *)
Acquire(c, i, k) ==
  /\ cur[c] = None
  /\ ~is_mine(c, i)
  /\ Free(k)
  /\ call' = [call EXCEPT ![k] = [pc |-> "sent", client |-> c, ino |-> i,
                                  ret |-> 0, due |-> 0, addr |-> c]]
  /\ cur' = [cur EXCEPT ![c] = k]
  /\ UNCHANGED <<now, entry, tab>>

(* lease_table_client::lease_entry::set_info *)
SetInfo(e, newDue, mine) ==
  IF newDue > e.due THEN [due |-> newDue, leader |-> mine] ELSE e

(* The answer arrives: lease_table_client::update, then acquire returns.   *)
Receive(c, k) ==
  /\ cur[c] = k
  /\ call[k].pc = "replied"
  /\ tab' = [tab EXCEPT ![c][call[k].ino] =
                          SetInfo(@, call[k].due, call[k].ret = 0)]
  /\ cur' = [cur EXCEPT ![c] = None]
  /\ call' = [call EXCEPT ![k] = FreeCall]
  /\ UNCHANGED <<now, entry>>

(* The RPC fails and acquire throws.  The request, the handler or the      *)
(* answer is still somewhere; nobody waits for it.                         *)
RpcFail(c) ==
  /\ cur[c] # None
  /\ cur' = [cur EXCEPT ![c] = None]
  /\ UNCHANGED <<now, entry, call, tab>>

(* The client process dies and is mounted again under the same address.    *)
Remount(c) ==
  /\ cur' = [cur EXCEPT ![c] = None]
  /\ tab' = [tab EXCEPT ![c] = [i \in Ino |-> NoLease]]
  /\ UNCHANGED <<now, entry, call>>

(* A request or an answer nobody waits for is lost.                        *)
Drop(k) ==
  /\ call[k].pc \in {"sent", "replied"}
  /\ ~Awaited(k)
  /\ call' = [call EXCEPT ![k] = FreeCall]
  /\ UNCHANGED <<now, entry, cur, tab>>

----------------------------------------------------------------------------
(* The manager: lease_impl::acquire and lease_table::acquire, one handler  *)
(* thread per call.  Between the lookup and what follows it the table is   *)
(* unlocked.                                                               *)

Reply(k, ret, due, addr) ==
  call' = [call EXCEPT ![k] = [@ EXCEPT !.pc = "replied", !.ret = ret,
                                        !.due = due, !.addr = addr]]

(* The lookup under the shared lock.                                       *)
Lookup(k) ==
  /\ call[k].pc = "sent"
  /\ call' = [call EXCEPT ![k].pc =
                IF entry[call[k].ino].addr # None THEN "cas" ELSE "insert"]
  /\ UNCHANGED <<now, entry, cur, tab>>

(* Slips of Grant: one tick too long; the period taken off, not added.     *)
GrantLong(k) ==
  /\ entry' = [entry EXCEPT ![call[k].ino] =
                 [due |-> now + Period + 1, addr |-> call[k].client]]
  /\ Reply(k, 0, now + Period + 1, call[k].client)

GrantPast(k) ==
  /\ entry' = [entry EXCEPT ![call[k].ino] =
                 [due |-> now - Period, addr |-> call[k].client]]
  /\ Reply(k, 0, now - Period, call[k].client)

Grant(k) ==
  /\ entry' = [entry EXCEPT ![call[k].ino] =
                 [due |-> now + Period, addr |-> call[k].client]]
  /\ Reply(k, 0, now + Period, call[k].client)

(* Slips of Cas: the address is not compared; the leader's lease is        *)
(* extended when it asks again.                                            *)
CasAnybody(k) ==
  LET e == entry[call[k].ino]
  IN /\ call[k].pc = "cas"
     /\ \/ now >= e.due /\ Grant(k)
        \/ /\ now < e.due
           /\ Reply(k, 0, e.due, call[k].client)
           /\ UNCHANGED entry
     /\ UNCHANGED <<now, cur, tab>>

CasExtends(k) ==
  LET e == entry[call[k].ino]
      c == call[k].client
  IN /\ call[k].pc = "cas"
     /\ \/ (now >= e.due \/ e.addr = c) /\ Grant(k)
        \/ /\ now < e.due /\ e.addr # c
           /\ Reply(k, -1, e.due, e.addr)
           /\ UNCHANGED entry
     /\ UNCHANGED <<now, cur, tab>>

(* lease_entry::cas, under the entry's lock: an expired lease changes      *)
(* hands, a running one is confirmed to its leader as it is, anybody else  *)
(* is told who leads.                                                      *)
Cas(k) ==
  LET e == entry[call[k].ino]
      c == call[k].client
  IN /\ call[k].pc = "cas"
     /\ \/ now >= e.due /\ Grant(k)
        \/ /\ now < e.due /\ e.addr = c
           /\ Reply(k, 0, e.due, c)
           /\ UNCHANGED entry
        \/ /\ now < e.due /\ e.addr # c
           /\ Reply(k, -1, e.due, e.addr)
           /\ UNCHANGED entry
     /\ UNCHANGED <<now, cur, tab>>

(* Slips of Insert: it overwrites an entry inserted meanwhile; it calls    *)
(* everybody who lost the race a leader.                                   *)
InsertOverwrites(k) ==
  /\ call[k].pc = "insert"
  /\ Grant(k)
  /\ UNCHANGED <<now, cur, tab>>

InsertPromotes(k) ==
  LET e == entry[call[k].ino]
  IN /\ call[k].pc = "insert"
     /\ \/ e.addr = None /\ Grant(k)
        \/ /\ e.addr # None
           /\ Reply(k, 0, e.due, call[k].client)
           /\ UNCHANGED entry
     /\ UNCHANGED <<now, cur, tab>>

(* The insertion under the unique lock.  When another handler inserted the *)
(* directory first, that entry's data is the answer: its age is not        *)
(* looked at and the address in the answer stays the requestor's own.      *)
Insert(k) ==
  LET e == entry[call[k].ino]
      c == call[k].client
  IN /\ call[k].pc = "insert"
     /\ \/ e.addr = None /\ Grant(k)
        \/ /\ e.addr # None
           /\ Reply(k, IF e.addr = c THEN 0 ELSE -1, e.due, c)
           /\ UNCHANGED entry
     /\ UNCHANGED <<now, cur, tab>>

Tick ==
  /\ now < MaxTime
  /\ now' = now + 1
  /\ UNCHANGED <<entry, call, cur, tab>>

----------------------------------------------------------------------------
ClientStep(c) ==
  \/ \E i \in Ino, k \in Call : Acquire(c, i, k)
  \/ \E k \in Call : Receive(c, k)
  \/ RpcFail(c)
  \/ Remount(c)

ManagerStep(k) == Lookup(k) \/ Cas(k) \/ Insert(k)

Next ==
  \/ \E c \in Client : ClientStep(c)
  \/ \E k \in Call : ManagerStep(k) \/ Drop(k)
  \/ Tick

Spec == Init /\ [][Next]_vars

----------------------------------------------------------------------------
(***************************************************************************)
(* At most one client believes it leads a directory.  Every local          *)
(* operation and every served RPC relies on it: the leader alone changes   *)
(* the directory in its memory and writes its journal.                     *)
(***************************************************************************)
LeaseExclusive ==
  \A c1, c2 \in Client, i \in Ino :
    is_mine(c1, i) /\ is_mine(c2, i) => c1 = c2

(***************************************************************************)
(* Whatever unexpired information a client holds, about its own lease or   *)
(* about somebody else's, is what the manager's table says: the due date,  *)
(* and whether the client is the leader.  set_info may therefore decide    *)
(* by the due date alone which of two answers is the newer one.            *)
(***************************************************************************)
ValidAgrees ==
  \A c \in Client, i \in Ino :
    is_valid(c, i) =>
      /\ entry[i].due = tab[c][i].due
      /\ tab[c][i].leader <=> entry[i].addr = c

(***************************************************************************)
(* No lease, in a table or in an answer still on its way, reaches more     *)
(* than one Period into the future: a leader that dies blocks its          *)
(* directories for at most that long.                                      *)
(***************************************************************************)
DueBounded ==
  /\ \A i \in Ino : entry[i].due <= now + Period
  /\ \A c \in Client, i \in Ino : tab[c][i].due <= now + Period
  /\ \A k \in Call : call[k].pc = "replied" => call[k].due <= now + Period

(***************************************************************************)
(* cas never takes a running lease away from its leader and never moves    *)
(* its due date: the leader of a directory changes only once the due date  *)
(* it was told has passed.                                                 *)
(***************************************************************************)
RunningLeaseStays ==
  [][\A i \in Ino :
       entry[i].addr # None /\ now < entry[i].due => entry'[i] = entry[i]]_vars

----------------------------------------------------------------------------
(* The client the manager's table names as the leader now.                 *)
LeaderNow == [i \in Ino |-> IF now < entry[i].due THEN entry[i].addr ELSE None]
(* The directories each client's table says are its own now.               *)
Mine == [c \in Client |-> {i \in Ino : is_mine(c, i)}]

Abs == INSTANCE Leadership WITH leader <- LeaderNow, acting <- Mine

(***************************************************************************)
(* The two tables and the RPC between them implement the leadership        *)
(* service: whatever the order of lookups, insertions, lost answers and    *)
(* remounts, a directory gets a leader only when it has none, a client     *)
(* acts only on what is its own, and loses it only by the clock.           *)
(***************************************************************************)
ImplementsLeadership == Abs!AbsSpec

============================================================================
