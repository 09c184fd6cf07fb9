--------------------------- MODULE MCNodeIdentity ---------------------------
(* NodeIdentity on a small instance.                                        *)
EXTENDS NodeIdentity

CONSTANTS n1, k1, k2, a, b

Msg(kind, k, nonce, t) == [kind |-> kind, node |-> n1, key |-> k, nonce |-> nonce, signedAt |-> t]

\* A registration, heartbeats before and after an agent that counts its nonces
\* from the start again, and a registration and a heartbeat with another key.
MCSent == {Msg("register", k1, a, 1), Msg("heartbeat", k1, a, 1),
           Msg("heartbeat", k1, a, 3), Msg("register", k2, b, 2),
           Msg("heartbeat", k2, b, 3)}
=============================================================================
