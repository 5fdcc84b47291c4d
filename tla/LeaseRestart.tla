---------------------------- MODULE LeaseRestart ----------------------------
(***************************************************************************)
(* The lease service when the manager process dies and is started again.   *)
(* lease_table lives in memory only: the new process knows no lease        *)
(* (src/manager/main.cpp builds an empty lease_impl), while the clients'   *)
(* tables still do.                                                        *)
(***************************************************************************)
EXTENDS Lease

CONSTANT MaxRestarts     \* bound on the number of restarts

ASSUME MaxRestartsAssumption == MaxRestarts \in Nat

VARIABLES
  bootTime,    \* when the present manager process started
  restarts     \* how often the manager was started again

restartVars == <<now, entry, call, cur, tab, bootTime, restarts>>

RestartInit == Init /\ bootTime = 0 /\ restarts = 0

(* The handlers die with the process and their clients see the RPC fail; a *)
(* request that was not delivered yet or an answer already sent survives.  *)
ManagerRestart ==
  LET dead == {k \in Call : call[k].pc \in {"cas", "insert"}}
  IN /\ restarts < MaxRestarts
     /\ restarts' = restarts + 1
     /\ bootTime' = now
     /\ entry' = [i \in Ino |-> NoEntry]
     /\ call' = [k \in Call |-> IF k \in dead THEN FreeCall ELSE call[k]]
     /\ cur' = [c \in Client |-> IF cur[c] \in dead THEN None ELSE cur[c]]
     /\ UNCHANGED <<now, tab>>

RestartNext ==
  \/ Next /\ UNCHANGED <<bootTime, restarts>>
  \/ ManagerRestart

RestartSpec == RestartInit /\ [][RestartNext]_restartVars

----------------------------------------------------------------------------
(***************************************************************************)
(* One Period after a restart the leases the dead manager gave are gone,   *)
(* in the tables and in every answer still on its way, and leadership is   *)
(* exclusive again.                                                        *)
(***************************************************************************)
ExclusiveAfterGrace == now >= bootTime + Period => LeaseExclusive

=============================================================================
