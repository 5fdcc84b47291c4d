------------------------------ MODULE Session ------------------------------
(***************************************************************************)
(* Client identifiers: the manager's session service                       *)
(* (src/manager/session) and the client's constructor that asks it for an  *)
(* identifier (src/client/client).  The next identifier lives in the       *)
(* manager's memory and, for the sake of restarts, in an object of the     *)
(* metadata pool; the handler holds a mutex from the choice of an          *)
(* identifier to the end of the write.                                     *)
(***************************************************************************)
EXTENDS Integers

CONSTANTS
  Client,      \* client machines; each may mount, leave and mount again
  Limit,       \* 2^CLIENT_BITS: identifiers are below it
  None,        \* no client
  MaxCrashes   \* bound on the number of restarts of the manager

ASSUME LimitAssumption == Limit \in Nat \ {0}
ASSUME NoneAssumption == None \notin Client
ASSUME MaxCrashesAssumption == MaxCrashes \in Nat

VARIABLES
  next_id,     \* session_impl::next_id
  stored,      \* the object "next_id" of the pool, 0 when there is none
  holder,      \* the client whose handler holds session_impl::m
  picked,      \* the identifier that handler has chosen
  phase,       \* how far each client's mount has come
  id,          \* the identifier in the answer to each client
  used,        \* history: the identifiers clients have been mounted under
  crashes

vars == <<next_id, stored, holder, picked, phase, id, used, crashes>>

(* What set_id(-1) hands out when the identifiers are used up.             *)
Exhausted == -1

TypeOK ==
  /\ next_id \in Nat \ {0}
  /\ stored \in Nat
  /\ holder \in Client \cup {None}
  /\ picked \in Nat
  /\ phase \in [Client -> {"out", "asking", "served", "answered", "mounted"}]
  /\ id \in [Client -> Int]
  /\ used \subseteq Nat
  /\ crashes \in Nat

Init ==
  /\ next_id = 1
  /\ stored = 0
  /\ holder = None
  /\ picked = 0
  /\ phase = [c \in Client |-> "out"]
  /\ id = [c \in Client |-> 0]
  /\ used = {}
  /\ crashes = 0

----------------------------------------------------------------------------
(* session_client::mount sends the RPC. *)
Ask(c) ==
  /\ phase[c] = "out"
  /\ phase' = [phase EXCEPT ![c] = "asking"]
  /\ UNCHANGED <<next_id, stored, holder, picked, id, used, crashes>>

(* session_impl::mount takes the mutex and an identifier.                  *)
Pick(c) ==
  /\ phase[c] = "asking"
  /\ holder = None
  /\ next_id < Limit
  /\ picked' = next_id
  /\ next_id' = next_id + 1
  /\ holder' = c
  /\ phase' = [phase EXCEPT ![c] = "served"]
  /\ UNCHANGED <<stored, id, used, crashes>>

(* A slip of Store: the identifier just given out is what is written.      *)
StorePicked ==
  /\ holder # None
  /\ stored' = picked
  /\ holder' = None
  /\ IF phase[holder] = "served"
       THEN /\ phase' = [phase EXCEPT ![holder] = "answered"]
            /\ id' = [id EXCEPT ![holder] = picked]
       ELSE UNCHANGED <<phase, id>>
  /\ UNCHANGED <<next_id, picked, used, crashes>>

(* pool->write, and the answer.  The client may have given up meanwhile.   *)
Store ==
  /\ holder # None
  /\ stored' = next_id
  /\ holder' = None
  /\ IF phase[holder] = "served"
       THEN /\ phase' = [phase EXCEPT ![holder] = "answered"]
            /\ id' = [id EXCEPT ![holder] = picked]
       ELSE UNCHANGED <<phase, id>>
  /\ UNCHANGED <<next_id, picked, used, crashes>>

(* No identifier is left: the answer is -1. *)
RunOut(c) ==
  /\ phase[c] = "asking"
  /\ holder = None
  /\ next_id >= Limit
  /\ phase' = [phase EXCEPT ![c] = "answered"]
  /\ id' = [id EXCEPT ![c] = Exhausted]
  /\ UNCHANGED <<next_id, stored, holder, picked, used, crashes>>

(* client::client stores the answer, whatever it is. *)
Mounted(c) ==
  /\ phase[c] = "answered"
  /\ phase' = [phase EXCEPT ![c] = "mounted"]
  /\ used' = used \cup ({id[c]} \ {Exhausted})
  /\ UNCHANGED <<next_id, stored, holder, picked, id, crashes>>

(* The RPC fails: session_client::mount throws and the client never runs.  *)
Fail(c) ==
  /\ phase[c] \in {"asking", "served", "answered"}
  /\ phase' = [phase EXCEPT ![c] = "out"]
  /\ UNCHANGED <<next_id, stored, holder, picked, id, used, crashes>>

(* The client is unmounted or dies.  No identifier is given back:          *)
(* session_impl::umount does nothing.                                      *)
Leave(c) ==
  /\ phase[c] = "mounted"
  /\ phase' = [phase EXCEPT ![c] = "out"]
  /\ UNCHANGED <<next_id, stored, holder, picked, id, used, crashes>>

(* A slip of Crash: the constructor forgets that there may be no object.   *)
CrashUnread ==
  /\ crashes < MaxCrashes
  /\ crashes' = crashes + 1
  /\ next_id' = stored
  /\ holder' = None
  /\ phase' = [c \in Client |->
                 IF phase[c] \in {"asking", "served"} THEN "out" ELSE phase[c]]
  /\ UNCHANGED <<stored, picked, id, used>>

(* The manager dies and starts again: the constructor reads the object.    *)
(* Handlers die with it; an answer already sent may still arrive.          *)
Crash ==
  /\ crashes < MaxCrashes
  /\ crashes' = crashes + 1
  /\ next_id' = IF stored = 0 THEN 1 ELSE stored
  /\ holder' = None
  /\ phase' = [c \in Client |->
                 IF phase[c] \in {"asking", "served"} THEN "out" ELSE phase[c]]
  /\ UNCHANGED <<stored, picked, id, used>>

ClientStep(c) ==
  Ask(c) \/ Pick(c) \/ RunOut(c) \/ Mounted(c) \/ Fail(c) \/ Leave(c)

Next ==
  \/ \E c \in Client : ClientStep(c)
  \/ Store
  \/ Crash

Spec == Init /\ [][Next]_vars

----------------------------------------------------------------------------
(***************************************************************************)
(* A client is never mounted under an identifier that another mount,       *)
(* before or after a restart of the manager, has had: the write of next_id *)
(* precedes the answer.  (The -1 of an exhausted manager is no identifier.)*)
(***************************************************************************)
FreshId ==
  [][\A c \in Client :
       phase[c] = "answered" /\ phase'[c] = "mounted" /\ id[c] # Exhausted
         => id[c] \notin used]_vars

============================================================================
