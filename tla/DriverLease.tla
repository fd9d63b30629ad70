---------------------------- MODULE DriverLease ----------------------------
(***************************************************************************)
(* What a WebDriverManager promises to those who launch sessions, with its *)
(* map, the races for it and the children hidden.  A session is a lease on *)
(* a driver process.  All the leases of one key are on one process, which  *)
(* has no other leases; a process is kept for as long as there is a lease  *)
(* on it, and ends with the last one; one that has ended does not return.  *)
(***************************************************************************)
CONSTANTS Users, Keys, Processes

VARIABLES
  lease,    \* user -> <<key, process>> while it has a session, else <<>>
  process   \* process -> "new", then "kept", then "ended"

vars == <<lease, process>>

Leases   == {u \in Users : lease[u] # <<>>}
IsFree(p) == process[p] = "kept" /\ \A u \in Leases : lease[u][2] # p

Init ==
  /\ lease   = [u \in Users |-> <<>>]
  /\ process = [p \in Processes |-> "new"]

Start(p) ==
  /\ process[p] = "new"
  /\ process' = [process EXCEPT ![p] = "kept"]
  /\ UNCHANGED lease

(* A process that no session came to: the launch failed, or another was faster. *)
Discard(p) ==
  /\ IsFree(p)
  /\ process' = [process EXCEPT ![p] = "ended"]
  /\ UNCHANGED lease

(* A session of key k gets process p, which all others of k are on, and only
   they; a free process of its own may go in the same step. *)
Lend(u, k, p) ==
  /\ lease[u] = <<>> /\ process[p] = "kept"
  /\ \A v \in Leases : lease[v][1] = k <=> lease[v][2] = p
  /\ lease' = [lease EXCEPT ![u] = <<k, p>>]
  /\ \/ UNCHANGED process
     \/ \E q \in Processes \ {p} : IsFree(q) /\ process' = [process EXCEPT ![q] = "ended"]

(* A session ends, and its process with the last one on it. *)
GiveBack(u) ==
  /\ lease[u] # <<>>
  /\ lease' = [lease EXCEPT ![u] = <<>>]
  /\ process' = IF \E v \in Leases \ {u} : lease[v][2] = lease[u][2] THEN process
                ELSE [process EXCEPT ![lease[u][2]] = "ended"]

Next ==
  \/ \E p \in Processes : Start(p) \/ Discard(p)
  \/ \E u \in Users : GiveBack(u) \/ \E k \in Keys, p \in Processes : Lend(u, k, p)

Spec == Init /\ [][Next]_vars
=============================================================================
