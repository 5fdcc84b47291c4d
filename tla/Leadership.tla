----------------------------- MODULE Leadership -----------------------------
(***************************************************************************)
(* What the lease service promises the rest of nmfs: each directory has at *)
(* most one leader, a client acts as leader only of directories that are   *)
(* its own, and leadership ends by itself, never by somebody else taking   *)
(* it.                                                                     *)
(***************************************************************************)
CONSTANTS Client, Ino, None

VARIABLES
  leader,      \* the leader of each directory, or None
  acting       \* the directories each client acts as the leader of

absVars == <<leader, acting>>

AbsInit ==
  /\ leader = [i \in Ino |-> None]
  /\ acting = [c \in Client |-> {}]

(* A directory without a leader gets one. *)
Elect(i, c) ==
  /\ leader[i] = None
  /\ leader' = [leader EXCEPT ![i] = c]
  /\ UNCHANGED acting

(* The leader learns that it is the leader. *)
Act(c, i) ==
  /\ leader[i] = c
  /\ acting' = [acting EXCEPT ![c] = @ \cup {i}]
  /\ UNCHANGED leader

(* Clients stop acting, and directories nobody acts on lose their leader.  *)
Lapse ==
  /\ acting' \in [Client -> SUBSET Ino]
  /\ \A c \in Client : acting'[c] \subseteq acting[c]
  /\ leader' \in [Ino -> Client \cup {None}]
  /\ \A i \in Ino : leader'[i] # leader[i] =>
                      /\ leader'[i] = None
                      /\ \A c \in Client : i \notin acting'[c]

AbsNext ==
  \/ \E i \in Ino, c \in Client : Elect(i, c) \/ Act(c, i)
  \/ Lapse

AbsSpec == AbsInit /\ [][AbsNext]_absVars
=============================================================================
