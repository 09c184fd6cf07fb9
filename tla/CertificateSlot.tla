-------------------------- MODULE CertificateSlot --------------------------
(***************************************************************************)
(* What node_certificates promises, without handlers, statements or time:  *)
(* each node has a slot that holds at most one certificate; a slot is      *)
(* filled only when it is empty and only with a certificate never used     *)
(* before, for any node.                                                   *)
(***************************************************************************)
CONSTANTS Node, CertId, NoCert

VARIABLES
  active,  \* the certificate in each node's slot, or NoCert
  used     \* certificates that are or have been in a slot

slotVars == <<active, used>>

Init ==
  /\ active = [n \in Node |-> NoCert]
  /\ used = {}

Install(n, c) ==
  /\ active[n] = NoCert
  /\ c \notin used
  /\ active' = [active EXCEPT ![n] = c]
  /\ used' = used \cup {c}

Retire(n) ==
  /\ active[n] # NoCert
  /\ active' = [active EXCEPT ![n] = NoCert]
  /\ UNCHANGED used

Next == \E n \in Node : Retire(n) \/ \E c \in CertId : Install(n, c)

Spec == Init /\ [][Next]_slotVars
=============================================================================
