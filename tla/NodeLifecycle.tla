--------------------------- MODULE NodeLifecycle ---------------------------
(***************************************************************************)
(* The states an operator may rely on: what each node may become, without  *)
(* requests, nonces or clocks.  A revoked node stays revoked and silent    *)
(* until an operator reactivates it, and pending until a heartbeat takes   *)
(* effect after that, be it one that was checked before the revocation.    *)
(***************************************************************************)
CONSTANTS Node

VARIABLES
  state,  \* what the node is
  heard   \* the nodes for which a heartbeat counts

lifecycleVars == <<state, heard>>

Init ==
  /\ state = [n \in Node |-> "absent"]
  /\ heard = {}

Become(n, s) == state' = [state EXCEPT ![n] = s]

Enrol(n)      == state[n] # "revoked" /\ Become(n, "pending") /\ UNCHANGED heard
Hear(n)       == state[n] \in {"pending", "active"} /\ Become(n, "active") /\ heard' = heard \cup {n}
Revoke(n)     == state[n] # "absent" /\ Become(n, "revoked") /\ UNCHANGED heard
Reactivate(n) == state[n] = "revoked" /\ Become(n, "pending") /\ heard' = heard \ {n}

Next == \E n \in Node : Enrol(n) \/ Hear(n) \/ Revoke(n) \/ Reactivate(n)

Spec == Init /\ [][Next]_lifecycleVars
=============================================================================
