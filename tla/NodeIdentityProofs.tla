------------------------- MODULE NodeIdentityProofs -------------------------
(***************************************************************************)
(* What NodeIdentity does, for any nodes, requests, handlers and times.    *)
(***************************************************************************)
EXTENDS NodeIdentity, TLAPS

\* A handler in flight has a request, and a heartbeat that passed Load is of a
\* node that has a row: rows are never deleted.
HandlersSound == \A r \in Request :
  /\ req[r].pc # "idle" => req[r].msg \in Sent
  /\ req[r].pc \in {"purge", "consume", "apply"} /\ req[r].msg.kind = "heartbeat" =>
       status[req[r].msg.node] # "absent"

\* A registration of node n with key k has been taken.
Registered(n, k) == \E x \in taken : x.kind = "register" /\ x.node = n /\ x.key = k

\* The keys of agents in the rows and in the heartbeats that passed Load are
\* registered; what is about to be applied has been taken.
KeysRegistered ==
  /\ \A n \in Node : key[n] \in Key => Registered(n, key[n])
  /\ \A r \in Request :
       /\ req[r].pc \in {"purge", "consume", "apply"} /\ req[r].msg.kind = "heartbeat" =>
            Registered(req[r].msg.node, req[r].msg.key)
       /\ req[r].pc = "apply" => req[r].msg \in taken
  /\ HeardByKey

IInv ==
  /\ TypeOK
  /\ HandlersSound
  /\ TakenOnRecord
  /\ KeysRegistered
-----------------------------------------------------------------------------
LEMMA MessageType ==
  ASSUME NEW m \in Sent
  PROVE  /\ m.kind \in {"register", "heartbeat"} /\ m.node \in Node /\ m.key \in Key
         /\ m.nonce \in Nonce /\ m.signedAt \in Nat /\ Deadline(m) \in Nat
         /\ m # NoMsg
  <1>1. m \in Message
    BY SentAssumption
  <1>2. m.signedAt \in Nat
    BY <1>1 DEF Message
  <1> QED BY <1>1, <1>2, SentAssumption, TimeAssumption DEF Message, Deadline

LEMMA IdleType == Idle.pc = "idle" /\ Idle \in
  [pc : {"idle", "load", "purge", "consume", "apply"}, msg : Sent \cup {NoMsg}]
  BY DEF Idle

\* Every reachable state is well typed.
LEMMA TypeStep ==
  ASSUME TypeOK, HandlersSound, [Next]_vars
  PROVE  TypeOK'
  <1> USE MessageType, IdleType, TimeAssumption DEF TypeOK, Move, Finish, node
  <1>1. ASSUME NEW r \in Request, NEW m \in Sent, Receive(r, m) PROVE TypeOK'
    BY <1>1 DEF Receive
  <1>2. ASSUME NEW r \in Request, Load(r) PROVE TypeOK'
    BY <1>2 DEF Load
  <1>3. ASSUME NEW r \in Request, Purge(r) PROVE TypeOK'
    BY <1>3 DEF Purge
  <1>4. ASSUME NEW r \in Request, Consume(r) PROVE TypeOK'
    <2>1. req[r].msg \in Sent
      BY <1>4 DEF Consume, HandlersSound
    <2> QED BY <1>4, <2>1 DEF Consume
  <1>5. ASSUME NEW r \in Request, Register(r) PROVE TypeOK'
    <2>1. req[r].msg \in Sent
      BY <1>5 DEF Register, HandlersSound
    <2> QED BY <1>5, <2>1 DEF Register
  <1>6. ASSUME NEW r \in Request, Heartbeat(r) PROVE TypeOK'
    <2>1. req[r].msg \in Sent
      BY <1>6 DEF Heartbeat, HandlersSound
    <2> QED BY <1>6, <2>1 DEF Heartbeat, Touch
  <1>7. ASSUME NEW r \in Request, Fail(r) PROVE TypeOK'
    BY <1>7 DEF Fail
  <1>8. ASSUME NEW n \in Node, Operate(n) PROVE TypeOK'
    BY <1>8 DEF Operate, CreateNode, RevokeNode, ReactivateNode, MarkNodeRuntimeOnline, Touch
  <1>9. CASE Restart \/ Tick \/ UNCHANGED vars
    BY <1>9 DEF Restart, Tick, vars
  <1> QED BY <1>1, <1>2, <1>3, <1>4, <1>5, <1>6, <1>7, <1>8, <1>9 DEF Next, Step

\* Only Load lets a heartbeat through, and no step removes a row.
LEMMA HandlersStep ==
  ASSUME TypeOK, HandlersSound, [Next]_vars
  PROVE  HandlersSound'
  <1> USE MessageType DEF TypeOK, HandlersSound, Move, Finish, Idle, node
  <1>1. ASSUME NEW r \in Request, NEW m \in Sent, Receive(r, m) PROVE HandlersSound'
    BY <1>1 DEF Receive
  <1>2. ASSUME NEW r \in Request, Load(r) PROVE HandlersSound'
    BY <1>2 DEF Load
  <1>3. ASSUME NEW r \in Request, Purge(r) PROVE HandlersSound'
    BY <1>3 DEF Purge
  <1>4. ASSUME NEW r \in Request, Consume(r) PROVE HandlersSound'
    BY <1>4 DEF Consume
  <1>5. ASSUME NEW r \in Request, Register(r) PROVE HandlersSound'
    BY <1>5 DEF Register
  <1>6. ASSUME NEW r \in Request, Heartbeat(r) PROVE HandlersSound'
    BY <1>6 DEF Heartbeat, Touch
  <1>7. ASSUME NEW r \in Request, Fail(r) PROVE HandlersSound'
    BY <1>7 DEF Fail
  <1>8. ASSUME NEW n \in Node, Operate(n) PROVE HandlersSound'
    BY <1>8 DEF Operate, CreateNode, RevokeNode, ReactivateNode, MarkNodeRuntimeOnline, Touch
  <1>9. CASE Restart \/ Tick \/ UNCHANGED vars
    BY <1>9 DEF Restart, Tick, vars
  <1> QED BY <1>1, <1>2, <1>3, <1>4, <1>5, <1>6, <1>7, <1>8, <1>9 DEF Next, Step

\* A row leaves node_request_nonces only when its request is stale.
LEMMA RecordStep ==
  ASSUME TypeOK, HandlersSound, TakenOnRecord, [Next]_vars
  PROVE  TakenOnRecord'
  <1> USE MessageType DEF TypeOK, TakenOnRecord, Deadline
  <1>1. ASSUME NEW r \in Request, Purge(r) PROVE TakenOnRecord'
    BY <1>1 DEF Purge
  <1>2. ASSUME NEW r \in Request, Consume(r) PROVE TakenOnRecord'
    BY <1>2 DEF Consume
  <1>3. CASE Tick
    <2>1. now' = now + 1 /\ UNCHANGED <<taken, nonces>>
      BY <1>3 DEF Tick
    <2>2. \A m \in Sent : now > Deadline(m) => now' > Deadline(m)
      BY <2>1, TimeAssumption
    <2> QED BY <2>1, <2>2
  <1>4. CASE UNCHANGED <<now, taken, nonces>>
    BY <1>4
  <1>5. ASSUME NEW r \in Request, (\E m \in Sent : Receive(r, m)) \/ Load(r) \/ Register(r)
                                  \/ Heartbeat(r) \/ Fail(r)
        PROVE  UNCHANGED <<now, taken, nonces>>
    BY <1>5 DEF Receive, Load, Register, Heartbeat, Touch, Fail
  <1>6. ASSUME NEW n \in Node, Operate(n) PROVE UNCHANGED <<now, taken, nonces>>
    BY <1>6 DEF Operate, CreateNode, RevokeNode, ReactivateNode, MarkNodeRuntimeOnline, Touch
  <1>7. CASE Restart \/ UNCHANGED vars
    BY <1>7 DEF Restart, vars
  <1> QED BY <1>1, <1>2, <1>3, <1>4, <1>5, <1>6, <1>7 DEF Next, Step

\* How a step changes the rows of nodes: the life cycle, one node at a time.
LEMMA RowStep ==
  ASSUME TypeOK, HandlersSound, [Next]_vars
  PROVE  \/ UNCHANGED node
         \/ \E n \in Node :
              /\ \A x \in Node \ {n} : status'[x] = status[x] /\ lastHb'[x] = lastHb[x]
              /\ \/ /\ status[n] # "revoked" /\ status'[n] = "pending" /\ lastHb'[n] = lastHb[n]
                 \/ /\ status[n] # "absent" /\ status'[n] = "revoked" /\ lastHb'[n] = lastHb[n]
                 \/ /\ status[n] \in {"pending", "active"} /\ status'[n] = "active"
                    /\ lastHb'[n] \in Nat
                 \/ /\ status[n] = "revoked" /\ status'[n] = "pending" /\ lastHb'[n] = NoTime
  <1> USE MessageType DEF TypeOK, node
  <1>1. ASSUME NEW r \in Request, Register(r)
        PROVE  \E n \in Node :
                 /\ \A x \in Node \ {n} : status'[x] = status[x] /\ lastHb'[x] = lastHb[x]
                 /\ \/ /\ status[n] # "revoked" /\ status'[n] = "pending" /\ lastHb'[n] = lastHb[n]
                    \/ /\ status[n] # "absent" /\ status'[n] = "revoked" /\ lastHb'[n] = lastHb[n]
    <2>1. req[r].msg \in Sent
      BY <1>1 DEF Register, HandlersSound
    <2> req[r].msg.node \in Node
      BY <2>1
    <2> WITNESS req[r].msg.node \in Node
    <2> QED BY <1>1, <2>1 DEF Register
  <1>2. ASSUME NEW r \in Request, Heartbeat(r)
        PROVE  \/ UNCHANGED node
               \/ \E n \in Node :
                    /\ \A x \in Node \ {n} : status'[x] = status[x] /\ lastHb'[x] = lastHb[x]
                    /\ status[n] \in {"pending", "active"} /\ status'[n] = "active"
                    /\ lastHb'[n] \in Nat
    <2>1. req[r].msg \in Sent /\ status[req[r].msg.node] # "absent"
      BY <1>2 DEF Heartbeat, HandlersSound
    <2>2. CASE status[req[r].msg.node] = "revoked"
      BY <1>2, <2>2 DEF Heartbeat
    <2>3. CASE status[req[r].msg.node] # "revoked"
      BY <1>2, <2>1, <2>3 DEF Heartbeat, Touch
    <2> QED BY <2>2, <2>3
  <1>3. ASSUME NEW n \in Node, CreateNode(n) PROVE
               /\ \A x \in Node \ {n} : status'[x] = status[x]
               /\ lastHb' = lastHb /\ status[n] # "revoked" /\ status'[n] = "pending"
    BY <1>3 DEF CreateNode
  <1>4. ASSUME NEW n \in Node, RevokeNode(n) PROVE
               /\ \A x \in Node \ {n} : status'[x] = status[x]
               /\ lastHb' = lastHb /\ status[n] # "absent" /\ status'[n] = "revoked"
    BY <1>4 DEF RevokeNode
  <1>5. ASSUME NEW n \in Node, ReactivateNode(n) PROVE
               /\ \A x \in Node \ {n} : status'[x] = status[x] /\ lastHb'[x] = lastHb[x]
               /\ status[n] = "revoked" /\ status'[n] = "pending" /\ lastHb'[n] = NoTime
    BY <1>5 DEF ReactivateNode
  <1>6. ASSUME NEW n \in Node, MarkNodeRuntimeOnline(n) PROVE
               /\ \A x \in Node \ {n} : status'[x] = status[x] /\ lastHb'[x] = lastHb[x]
               /\ status[n] \in {"pending", "active"} /\ status'[n] = "active" /\ lastHb'[n] \in Nat
    BY <1>6 DEF MarkNodeRuntimeOnline, Touch
  <1>7. ASSUME NEW n \in Node, Operate(n)
        PROVE  \E x \in Node :
              /\ \A y \in Node \ {x} : status'[y] = status[y] /\ lastHb'[y] = lastHb[y]
              /\ \/ /\ status[x] # "revoked" /\ status'[x] = "pending" /\ lastHb'[x] = lastHb[x]
                 \/ /\ status[x] # "absent" /\ status'[x] = "revoked" /\ lastHb'[x] = lastHb[x]
                 \/ /\ status[x] \in {"pending", "active"} /\ status'[x] = "active"
                    /\ lastHb'[x] \in Nat
                 \/ /\ status[x] = "revoked" /\ status'[x] = "pending" /\ lastHb'[x] = NoTime
    <2> WITNESS n \in Node
    <2> QED BY <1>3, <1>4, <1>5, <1>6, <1>7 DEF Operate
  <1>8. ASSUME NEW r \in Request,
               (\E m \in Sent : Receive(r, m)) \/ Load(r) \/ Purge(r) \/ Consume(r) \/ Fail(r)
        PROVE  UNCHANGED node
    BY <1>8 DEF Receive, Load, Purge, Consume, Fail
  <1>9. CASE Restart \/ Tick \/ UNCHANGED vars
    BY <1>9 DEF Restart, Tick, vars
  <1> QED BY <1>1, <1>2, <1>7, <1>8, <1>9 DEF Next, Step

\* Registrations stay taken, so that what is registered stays registered.
LEMMA KeysStep ==
  ASSUME TypeOK, HandlersSound, KeysRegistered, [Next]_vars
  PROVE  KeysRegistered'
  <1>1. ASSUME UNCHANGED taken
        PROVE  HeardByKey' /\ \A n, k : Registered(n, k) => Registered(n, k)'
    BY <1>1 DEF KeysRegistered, HeardByKey, Registered
  <1>2. ASSUME NEW r \in Request, NEW m \in Sent, Receive(r, m) PROVE KeysRegistered'
    <2>1. UNCHANGED <<key, taken>>
      BY <1>2 DEF Receive, node
    <2>2. req'[r].pc \in {"load", "purge"} /\ req'[r].msg = m
          /\ (req'[r].pc = "purge" => m.kind # "heartbeat")
      BY <1>2 DEF Receive, TypeOK
    <2>3. \A q \in Request \ {r} : req'[q] = req[q]
      BY <1>2 DEF Receive, TypeOK
    <2> QED BY <1>1, <2>1, <2>2, <2>3 DEF KeysRegistered
  <1>3. ASSUME NEW r \in Request, Load(r) PROVE KeysRegistered'
    <2>1. UNCHANGED <<key, taken>>
      BY <1>3 DEF Load, node
    <2>2. req[r].msg \in Sent
      BY <1>3 DEF Load, HandlersSound
    <2>3. \/ req'[r].pc = "idle"
          \/ req'[r].pc = "purge" /\ req'[r].msg = req[r].msg
             /\ key[req[r].msg.node] = req[r].msg.key
      BY <1>3, IdleType DEF Load, Move, Finish, TypeOK
    <2>4. req'[r].pc = "purge" => Registered(req'[r].msg.node, req'[r].msg.key)
      BY <2>2, <2>3, MessageType DEF KeysRegistered
    <2>5. \A q \in Request \ {r} : req'[q] = req[q]
      BY <1>3 DEF Load, Move, Finish, TypeOK
    <2> QED BY <1>1, <2>1, <2>3, <2>4, <2>5 DEF KeysRegistered
  <1>4. ASSUME NEW r \in Request, Purge(r) PROVE KeysRegistered'
    <2>1. UNCHANGED <<key, taken>>
      BY <1>4 DEF Purge, node
    <2>2. req[r].pc = "purge" /\ req'[r].pc = "consume" /\ req'[r].msg = req[r].msg
      BY <1>4 DEF Purge, Move, TypeOK
    <2>3. \A q \in Request \ {r} : req'[q] = req[q]
      BY <1>4 DEF Purge, Move, TypeOK
    <2> QED BY <1>1, <2>1, <2>2, <2>3 DEF KeysRegistered
  <1>5. ASSUME NEW r \in Request, Consume(r) PROVE KeysRegistered'
    <2>1. UNCHANGED key /\ req[r].pc = "consume"
          /\ \A q \in Request \ {r} : req'[q] = req[q]
      BY <1>5 DEF Consume, Move, Finish, TypeOK, node
    <2>2. CASE req'[r].pc = "idle" /\ UNCHANGED taken
      BY <1>1, <2>1, <2>2 DEF KeysRegistered
    <2>3. CASE /\ req'[r].pc = "apply" /\ req'[r].msg = req[r].msg
               /\ taken' = taken \cup {req[r].msg}
      <3>1. \A n, k : Registered(n, k) => Registered(n, k)'
        BY <2>3 DEF Registered
      <3>2. req[r].msg.kind = "heartbeat" => Registered(req[r].msg.node, req[r].msg.key)
        BY <2>1 DEF KeysRegistered
      <3>3. HeardByKey'
        BY <2>3, <3>2 DEF KeysRegistered, HeardByKey, Registered
      <3> QED BY <2>1, <2>3, <3>1, <3>2, <3>3 DEF KeysRegistered
    <2> QED BY <1>5, <2>2, <2>3, IdleType DEF Consume, Move, Finish, TypeOK
  <1>6. ASSUME NEW r \in Request, Register(r) PROVE KeysRegistered'
    <2>1. UNCHANGED taken /\ req'[r].pc = "idle" /\ req[r].msg \in Sent /\ req[r].msg \in taken
          /\ req[r].msg.kind = "register"
      BY <1>6, IdleType DEF Register, Finish, TypeOK, KeysRegistered, HandlersSound
    <2>2. /\ key'[req[r].msg.node] = req[r].msg.key
          /\ \A n \in Node \ {req[r].msg.node} : key'[n] = key[n]
          /\ \A q \in Request \ {r} : req'[q] = req[q]
      BY <1>6, <2>1, MessageType DEF Register, Finish, TypeOK
    <2>3. Registered(req[r].msg.node, req[r].msg.key)
      BY <2>1 DEF Registered
    <2> QED BY <1>1, <2>1, <2>2, <2>3 DEF KeysRegistered
  <1>7. ASSUME NEW r \in Request, Heartbeat(r) \/ Fail(r) PROVE KeysRegistered'
    <2>1. UNCHANGED <<key, taken>> /\ req'[r].pc = "idle"
          /\ \A q \in Request \ {r} : req'[q] = req[q]
      BY <1>7, IdleType DEF Heartbeat, Touch, Fail, Finish, TypeOK, node
    <2> QED BY <1>1, <2>1 DEF KeysRegistered
  <1>8. ASSUME NEW n \in Node, Operate(n) PROVE KeysRegistered'
    <2>1. UNCHANGED <<req, taken>>
      BY <1>8 DEF Operate, CreateNode, RevokeNode, ReactivateNode, MarkNodeRuntimeOnline, Touch
    <2>2. \A x \in Node : key'[x] = key[x] \/ key'[x] = OwnerKey
      BY <1>8 DEF Operate, CreateNode, RevokeNode, ReactivateNode, MarkNodeRuntimeOnline, Touch,
                  TypeOK
    <2> QED BY <1>1, <2>1, <2>2, KeyAssumption DEF KeysRegistered
  <1>9. CASE Restart \/ Tick \/ UNCHANGED vars
    <2>1. UNCHANGED <<key, taken>> /\ \A q \in Request : req'[q] = req[q] \/ req'[q].pc = "idle"
      BY <1>9, IdleType DEF Restart, Tick, vars, node
    <2> QED BY <1>1, <2>1 DEF KeysRegistered
  <1> QED BY <1>2, <1>3, <1>4, <1>5, <1>6, <1>7, <1>8, <1>9 DEF Next, Step
-----------------------------------------------------------------------------
LEMMA IInvInit == Init => IInv
  <1> SUFFICES ASSUME Init PROVE IInv
    OBVIOUS
  <1>1. TypeOK
    BY IdleType DEF Init, TypeOK
  <1> QED BY <1>1, KeyAssumption DEF Init, IInv, Idle, HandlersSound, TakenOnRecord, KeysRegistered,
                           HeardByKey

LEMMA IInvStep == IInv /\ [Next]_vars => IInv'
  BY TypeStep, HandlersStep, RecordStep, KeysStep DEF IInv

\* The inductive invariant of the node protocol.
THEOREM Invariance == Spec => []IInv
  BY IInvInit, IInvStep, PTL DEF Spec

\* TypeOK: rows, nonces and handlers are well typed.
THEOREM TypeCorrect == Spec => []TypeOK
  <1>1. IInv => TypeOK
    BY DEF IInv
  <1> QED BY <1>1, Invariance, PTL

\* TakenOnRecord: a request that was taken and is still fresh has its row in
\* node_request_nonces, whatever other handlers have purged.
THEOREM RecordKept == Spec => []TakenOnRecord
  <1>1. IInv => TakenOnRecord
    BY DEF IInv
  <1> QED BY <1>1, Invariance, PTL

\* HeardByKey: heartbeats are taken under keys that were registered, whatever
\* registrations, revocations and restarts came between.
THEOREM HeartbeatsKeyed == Spec => []HeardByKey
  <1>1. IInv => HeardByKey
    BY DEF IInv, KeysRegistered
  <1> QED BY <1>1, Invariance, PTL

\* TakenOnceInTime: a copy of a request that was taken is turned away while the
\* request is fresh, for any number of handlers and copies.
THEOREM ReplayRejected == Spec => TakenOnceInTime
  <1> DEFINE A == \A r \in Request :
                    Takes(r) /\ req[r].msg \in taken => now > Deadline(req[r].msg)
  <1>1. IInv /\ [Next]_vars => [A]_vars
    <2> SUFFICES ASSUME IInv, [Next]_vars, NEW r \in Request, Takes(r), req[r].msg \in taken
                 PROVE  now > Deadline(req[r].msg)
      OBVIOUS
    <2> USE DEF IInv, TypeOK
    <2>1. req[r].msg \notin nonces
      <3>1. Consume(r) => ~ \E x \in nonces : SameNonce(req[r].msg, x)
        BY DEF Consume, Takes, Finish, Idle
      <3>2. Consume(r)
        BY IdleType DEF Takes, Next, Step, Receive, Load, Purge, Consume, Register, Heartbeat, Touch,
           Fail, Operate, CreateNode, RevokeNode, ReactivateNode, MarkNodeRuntimeOnline, Restart,
           Tick, vars, Move, Finish, Idle
      <3> QED BY <3>1, <3>2 DEF SameNonce
    <2> QED BY <2>1 DEF TakenOnRecord
  <1> QED BY <1>1, Invariance, PTL DEF Spec, TakenOnceInTime

\* ImplementsLifecycle: whatever requests were checked before, a revoked node
\* stays revoked and silent until it is reactivated.
THEOREM LifecycleRefinement == Spec => ImplementsLifecycle
  <1>1. Init => Lifecycle!Init
    BY DEF Init, Lifecycle!Init
  <1>2. IInv /\ [Next]_vars => [Lifecycle!Next]_(Lifecycle!lifecycleVars)
    <2> SUFFICES ASSUME IInv, [Next]_vars PROVE [Lifecycle!Next]_(Lifecycle!lifecycleVars)
      OBVIOUS
    <2> USE DEF IInv, TypeOK
    <2> DEFINE heard == {n \in Node : lastHb[n] # NoTime}
    <2>1. CASE UNCHANGED node
      BY <2>1 DEF node, Lifecycle!lifecycleVars
    <2>2. CASE ~UNCHANGED node
      <3>1. PICK n \in Node :
              /\ \A x \in Node \ {n} : status'[x] = status[x] /\ lastHb'[x] = lastHb[x]
              /\ \/ /\ status[n] # "revoked" /\ status'[n] = "pending" /\ lastHb'[n] = lastHb[n]
                 \/ /\ status[n] # "absent" /\ status'[n] = "revoked" /\ lastHb'[n] = lastHb[n]
                 \/ /\ status[n] \in {"pending", "active"} /\ status'[n] = "active"
                    /\ lastHb'[n] \in Nat
                 \/ /\ status[n] = "revoked" /\ status'[n] = "pending" /\ lastHb'[n] = NoTime
        BY <2>2, RowStep
      <3>2. ASSUME NEW s \in {"pending", "active", "revoked"}, status'[n] = s
            PROVE  Lifecycle!Become(n, s)
        <4>1. TypeOK'
          BY TypeStep
        <4> QED BY <3>1, <3>2, <4>1 DEF Lifecycle!Become
      <3>3. CASE status[n] # "revoked" /\ status'[n] = "pending" /\ lastHb'[n] = lastHb[n]
        <4>1. heard' = heard
          BY <3>1, <3>3
        <4> QED BY <3>2, <3>3, <4>1 DEF Lifecycle!Next, Lifecycle!Enrol
      <3>4. CASE status[n] # "absent" /\ status'[n] = "revoked" /\ lastHb'[n] = lastHb[n]
        <4>1. heard' = heard
          BY <3>1, <3>4
        <4> QED BY <3>2, <3>4, <4>1 DEF Lifecycle!Next, Lifecycle!Revoke
      <3>5. CASE status[n] \in {"pending", "active"} /\ status'[n] = "active" /\ lastHb'[n] \in Nat
        <4>1. heard' = heard \cup {n}
          BY <3>1, <3>5, TimeAssumption
        <4> QED BY <3>2, <3>5, <4>1 DEF Lifecycle!Next, Lifecycle!Hear
      <3>6. CASE status[n] = "revoked" /\ status'[n] = "pending" /\ lastHb'[n] = NoTime
        <4>1. heard' = heard \ {n}
          BY <3>1, <3>6
        <4> QED BY <3>2, <3>6, <4>1 DEF Lifecycle!Next, Lifecycle!Reactivate
      <3> QED BY <3>1, <3>3, <3>4, <3>5, <3>6
    <2> QED BY <2>1, <2>2
  <1> QED BY <1>1, <1>2, Invariance, PTL DEF Spec, ImplementsLifecycle, Lifecycle!Spec
=============================================================================
