---------------------------- MODULE NodeIdentity ----------------------------
(***************************************************************************)
(* How core-platform takes the signed requests of nodes (RegisterNode,     *)
(* NodeHeartbeat) while operators revoke and reactivate the nodes.         *)
(*                                                                         *)
(* A request is checked against the clock, then against the row of its     *)
(* node, then its nonce is consumed, then the row is written: each is a    *)
(* statement of its own, and other requests come between.  The network may *)
(* deliver a request late and more than once.  The certificate check       *)
(* (verifyNodeTLSIdentity) only rejects, so it is left out here.           *)
(***************************************************************************)
EXTENDS Integers, FiniteSets

CONSTANTS
  Node,      \* node_key_id
  Key,       \* node_public_key
  OwnerKey,  \* the key CreateNode makes up
  NoKey,     \* of a node that has no row
  Nonce,
  Sent,      \* the signed requests that are ever sent, each any number of times
  Request,   \* handlers that may be in flight at the same time
  NoMsg,     \* an idle handler's request
  Skew,      \* NodeSignatureMaxSkew
  MaxTime,   \* bound of the model: the clock stops here
  NoTime     \* last_heartbeat_at IS NULL

Message == [kind : {"register", "heartbeat"}, node : Node, key : Key,
            nonce : Nonce, signedAt : Nat \ {0}]

ASSUME SentAssumption == Sent \subseteq Message /\ NoMsg \notin Message
ASSUME KeyAssumption  == OwnerKey \notin Key /\ NoKey \notin Key \cup {OwnerKey}
ASSUME TimeAssumption == Skew \in Nat /\ MaxTime \in Nat /\ NoTime \notin Nat

VARIABLES
  now,     \* the clock of the server and of the database
  status,  \* nodes.status
  key,     \* nodes.node_public_key
  lastHb,  \* nodes.last_heartbeat_at
  nonces,  \* node_request_nonces: the requests that have left their nonce there
  req,     \* the handlers in flight
  taken    \* requests whose nonce has been consumed (history variable)

vars == <<now, status, key, lastHb, nonces, req, taken>>
node == <<status, key, lastHb>>

TypeOK ==
  /\ now \in Nat
  /\ status \in [Node -> {"absent", "pending", "active", "revoked"}]
  /\ key \in [Node -> Key \cup {OwnerKey, NoKey}]
  /\ lastHb \in [Node -> Nat \cup {NoTime}]
  /\ nonces \subseteq Sent
  /\ req \in [Request -> [pc : {"idle", "load", "purge", "consume", "apply"},
                          msg : Sent \cup {NoMsg}]]
  /\ taken \subseteq Sent

Idle == [pc |-> "idle", msg |-> NoMsg]

Init ==
  /\ now = 0
  /\ status = [n \in Node |-> "absent"]
  /\ key = [n \in Node |-> NoKey]
  /\ lastHb = [n \in Node |-> NoTime]
  /\ nonces = {}
  /\ req = [r \in Request |-> Idle]
  /\ taken = {}
-----------------------------------------------------------------------------
Move(r, pc) == req' = [req EXCEPT ![r].pc = pc]
Finish(r)   == req' = [req EXCEPT ![r] = Idle]

\* validateSignedAt.
Timely(m) == m.signedAt - now <= Skew /\ now - m.signedAt <= Skew

\* expires_at of the row a request leaves in node_request_nonces.
Deadline(m) == m.signedAt + Skew

\* The unique index on node_request_nonces.
SameNonce(m, x) == m.kind = x.kind /\ m.node = x.node /\ m.nonce = x.nonce

\* RegisterNode, NodeHeartbeat up to the first statement.  The signature of a
\* registration covers the key it brings and is not checked against the row.
Receive(r, m) ==
  /\ req[r].pc = "idle"
  /\ Timely(m)
  /\ req' = [req EXCEPT ![r] = [pc  |-> IF m.kind = "heartbeat" THEN "load" ELSE "purge",
                                msg |-> m]]
  /\ UNCHANGED <<now, node, nonces, taken>>

\* Fault: the signature is checked with the key the request brings.
Load_AnyKey(r) ==
  /\ req[r].pc = "load"
  /\ IF status[req[r].msg.node] \notin {"absent", "revoked"} THEN Move(r, "purge") ELSE Finish(r)
  /\ UNCHANGED <<now, node, nonces, taken>>

\* NodeHeartbeat reads the row: 404, 403 node_revoked, or 401 as the signature
\* does not verify with the stored key.
Load(r) ==
  /\ req[r].pc = "load"
  /\ LET m == req[r].msg IN
       IF status[m.node] \notin {"absent", "revoked"} /\ key[m.node] = m.key
         THEN Move(r, "purge")
         ELSE Finish(r)
  /\ UNCHANGED <<now, node, nonces, taken>>

\* Fault: rows are purged by signed_at.
Purge_Early(r) ==
  /\ req[r].pc = "purge"
  /\ nonces' = {m \in nonces : m.signedAt >= now}
  /\ Move(r, "consume")
  /\ UNCHANGED <<now, node, taken>>

\* ConsumeNodeNonce first deletes the rows that have expired; its error, if
\* any, is ignored.
Purge(r) ==
  /\ req[r].pc = "purge"
  /\ nonces' \in {nonces, {m \in nonces : Deadline(m) >= now}}
  /\ Move(r, "consume")
  /\ UNCHANGED <<now, node, taken>>

\* Fault: the conflict is not told from success.
Consume_Ignored(r) ==
  /\ req[r].pc = "consume"
  /\ nonces' = nonces \cup {req[r].msg}
  /\ taken' = taken \cup {req[r].msg}
  /\ Move(r, "apply")
  /\ UNCHANGED <<now, node>>

\* ... and then inserts its own.
Consume(r) ==
  /\ req[r].pc = "consume"
  /\ LET m == req[r].msg IN
       IF \E x \in nonces : SameNonce(m, x)
         THEN Finish(r) /\ UNCHANGED <<nonces, taken>>      \* 409 replay_detected
         ELSE /\ nonces' = nonces \cup {m}
              /\ taken' = taken \cup {m}
              /\ Move(r, "apply")
  /\ UNCHANGED <<now, node>>

\* Fault: the row of a revoked node is reset like any other.
Register_Revives(r) ==
  /\ req[r].pc = "apply" /\ req[r].msg.kind = "register"
  /\ LET m == req[r].msg IN
       /\ status' = [status EXCEPT ![m.node] = "pending"]
       /\ key' = [key EXCEPT ![m.node] = m.key]
  /\ Finish(r)
  /\ UNCHANGED <<now, lastHb, nonces, taken>>

\* UpsertNodeRegistration.  A revoked node stays revoked (and the caller gets
\* 403), but its key is overwritten; last_heartbeat_at is kept.
Register(r) ==
  /\ req[r].pc = "apply" /\ req[r].msg.kind = "register"
  /\ LET m == req[r].msg IN
       /\ status' = [status EXCEPT ![m.node] = IF @ = "revoked" THEN @ ELSE "pending"]
       /\ key' = [key EXCEPT ![m.node] = m.key]
  /\ Finish(r)
  /\ UNCHANGED <<now, lastHb, nonces, taken>>

Touch(n) ==
  /\ status' = [status EXCEPT ![n] = "active"]
  /\ lastHb' = [lastHb EXCEPT ![n] = now]
  /\ UNCHANGED <<now, key, nonces, taken>>

\* Fault: the status that was read is trusted.
Heartbeat_Trusting(r) ==
  /\ req[r].pc = "apply" /\ req[r].msg.kind = "heartbeat"
  /\ Touch(req[r].msg.node)
  /\ Finish(r)

\* TouchNodeHeartbeat; 404 when the node has been revoked since it was read.
Heartbeat(r) ==
  /\ req[r].pc = "apply" /\ req[r].msg.kind = "heartbeat"
  /\ LET n == req[r].msg.node IN
       IF status[n] = "revoked" THEN UNCHANGED <<now, node, nonces, taken>> ELSE Touch(n)
  /\ Finish(r)

\* The handler stops between two statements: no answer, and no undoing.
Fail(r) ==
  /\ req[r].pc # "idle"
  /\ Finish(r)
  /\ UNCHANGED <<now, node, nonces, taken>>
-----------------------------------------------------------------------------
(***************************************************************************)
(* Operators, the local bootstrap, the environment.                        *)
(***************************************************************************)
CreateNode(n) ==
  /\ status[n] = "absent"
  /\ status' = [status EXCEPT ![n] = "pending"]
  /\ key' = [key EXCEPT ![n] = OwnerKey]
  /\ UNCHANGED <<now, lastHb, nonces, req, taken>>

RevokeNode(n) ==
  /\ status[n] # "absent"
  /\ status' = [status EXCEPT ![n] = "revoked"]
  /\ UNCHANGED <<now, key, lastHb, nonces, req, taken>>

\* The row is read first, but the UPDATE repeats the check.
ReactivateNode(n) ==
  /\ status[n] = "revoked"
  /\ status' = [status EXCEPT ![n] = "pending"]
  /\ lastHb' = [lastHb EXCEPT ![n] = NoTime]
  /\ UNCHANGED <<now, key, nonces, req, taken>>

\* Fault: a status no other part knows.
MarkNodeRuntimeOnline_Word(n) ==
  /\ status[n] \notin {"absent", "revoked"}
  /\ status' = [status EXCEPT ![n] = "online"]
  /\ lastHb' = [lastHb EXCEPT ![n] = now]
  /\ UNCHANGED <<now, key, nonces, req, taken>>

\* ApplyNodeRuntimeConfig counts as a heartbeat of a local node; the UPDATE
\* repeats the check of shouldMarkBootstrapOnline.
MarkNodeRuntimeOnline(n) ==
  /\ status[n] \notin {"absent", "revoked"}
  /\ Touch(n)
  /\ UNCHANGED req

Restart ==
  /\ \E r \in Request : req[r].pc # "idle"
  /\ req' = [r \in Request |-> Idle]
  /\ UNCHANGED <<now, node, nonces, taken>>

Tick ==
  /\ now < MaxTime
  /\ now' = now + 1
  /\ UNCHANGED <<node, nonces, req, taken>>
-----------------------------------------------------------------------------
Step(r) == Load(r) \/ Purge(r) \/ Consume(r) \/ Register(r) \/ Heartbeat(r)

Operate(n) == CreateNode(n) \/ RevokeNode(n) \/ ReactivateNode(n) \/ MarkNodeRuntimeOnline(n)

Next ==
  \/ \E r \in Request : (\E m \in Sent : Receive(r, m)) \/ Step(r) \/ Fail(r)
  \/ \E n \in Node : Operate(n)
  \/ Restart
  \/ Tick

Spec == Init /\ [][Next]_vars
-----------------------------------------------------------------------------
(***************************************************************************)
(* What the handlers promise together.                                     *)
(***************************************************************************)
Takes(r) == req[r].pc = "consume" /\ req'[r].pc = "apply"

\* A request that is delivered again is turned away, whichever handlers hold
\* copies of it, as long as its signature is fresh: the row of its nonce may be
\* purged by then, but not earlier.
TakenOnceInTime ==
  [][\A r \in Request : Takes(r) /\ req[r].msg \in taken => now > Deadline(req[r].msg)]_vars

\* A request that was taken and is still fresh is on record.
TakenOnRecord == \A m \in taken : m \in nonces \/ now > Deadline(m)

\* A request is never taken twice.
TakenOnce == [][\A r \in Request : Takes(r) => req[r].msg \notin taken]_vars

\* No heartbeat is taken that is not signed with a key which a registration of the
\* node brought, and that registration was taken before: neither a key from
\* CreateNode nor a registration that was replayed or broke off lets a heartbeat
\* through, whatever was registered, revoked and reactivated since.
HeardByKey == \A m \in taken :
  m.kind = "heartbeat" =>
    \E x \in taken : x.kind = "register" /\ x.node = m.node /\ x.key = m.key

\* The rows of nodes follow the life cycle operators rely on (NodeLifecycle):
\* no request that passed its checks before a revocation revives a node.
Lifecycle == INSTANCE NodeLifecycle WITH
  state <- status, heard <- {n \in Node : lastHb[n] # NoTime}
ImplementsLifecycle == Lifecycle!Spec
=============================================================================
