------------------------------ MODULE NodeFleet ------------------------------
(***************************************************************************)
(* Nodes, the network and core-platform together, in strict PKI mode: how  *)
(* a node gets the certificate it has to present, and keeps being let in.  *)
(*                                                                         *)
(* A node is the loop of the node agent: it registers until an             *)
(* answer arrives, then it sends heartbeats, one request at a time, and    *)
(* gives up waiting after a timeout while the handler goes on.  The serial *)
(* number it presents is the one of the last answer, as in the gateway's   *)
(* integration tests; it may be lost in a restart of the node.  Meanwhile  *)
(* operators and the renewal sweep replace certificates without telling    *)
(* the node, certificates expire, and the issuers that are trusted change. *)
(*                                                                         *)
(* What the certificate handlers do is taken from CertificateSlot, which   *)
(* NodeCertificates implements.  Every request here is fresh and signed:   *)
(* replays, clocks and keys are in NodeIdentity.  Of the issuers, which    *)
(* are in PkiIssuers, it matters here whose certificates are trusted.      *)
(***************************************************************************)
EXTENDS FiniteSets

CONSTANTS
  Node,     \* nodes, by node_key_id
  CertId,   \* certificates, by serial number
  Request,  \* handlers that may be in flight at the same time
  NoCert,   \* no serial number
  NoReq     \* no request

ASSUME NoneAssumption == NoCert \notin CertId /\ NoReq \notin Request

VARIABLES
  status,    \* nodes.status, or "absent"
  active,    \* the certificate in each node's slot
  used,      \* the certificates there have been
  expired,   \* those whose not_after has passed while they were active
  distrusted, \* the valid ones whose issuer is not configured, previous or active
  phase,     \* what the process of a node is about to send
  known,     \* the serial number a node presents
  waiting,   \* the request a node waits for
  req,       \* the handlers in flight
  withdrawn  \* valid certificates an operator or the sweep has taken away (history)

vars == <<status, active, used, expired, distrusted, phase, known, waiting, req, withdrawn>>

\* out (history): the node was shut out when it sent the request;
\* late (history): the node was revoked after this handler had seen that it was not.
Handler == [pc     : {"idle", "load", "verify", "write", "ensure", "revoke", "insert", "answer"},
            kind   : {"register", "heartbeat"},
            node   : Node \cup {NoReq},
            serial : CertId \cup {NoCert},  \* tls_identity.serial_number
            cert   : CertId \cup {NoCert},  \* the certificate found, then the one to answer with
            out    : BOOLEAN,
            late   : BOOLEAN]

TypeOK ==
  /\ status \in [Node -> {"absent", "pending", "active", "revoked"}]
  /\ active \in [Node -> CertId \cup {NoCert}]
  /\ used \subseteq CertId /\ expired \subseteq CertId
  /\ distrusted \subseteq CertId /\ withdrawn \subseteq CertId
  /\ phase \in [Node -> {"register", "heartbeat"}]
  /\ known \in [Node -> CertId \cup {NoCert}]
  /\ waiting \in [Node -> Request \cup {NoReq}]
  /\ req \in [Request -> Handler]

Idle == [pc |-> "idle", kind |-> "register", node |-> NoReq, serial |-> NoCert,
         cert |-> NoCert, out |-> FALSE, late |-> FALSE]

Slot == INSTANCE CertificateSlot

Init ==
  /\ Slot!Init
  /\ status = [n \in Node |-> "absent"]
  /\ expired = {} /\ distrusted = {} /\ withdrawn = {}
  /\ phase = [n \in Node |-> "register"]
  /\ known = [n \in Node |-> NoCert]
  /\ waiting = [n \in Node |-> NoReq]
  /\ req = [r \in Request |-> Idle]

slots   == <<active, used>>
process == <<phase, known, waiting>>

\* Serial number c is of a certificate of node n that is not revoked and not expired.
Valid(n, c) == c # NoCert /\ active[n] = c /\ c \notin expired

\* verifyNodeTLSIdentity accepts c from n: validateIssuerTrust finds its issuer, too.
Good(n, c) == Valid(n, c) /\ c \notin distrusted

\* Other issuers are trusted: which of the certificates in use are theirs is left open.
IssuersChange == distrusted' \in SUBSET ({active[n] : n \in Node} \ ({NoCert} \cup expired))

\* Bound of the model: a slot is emptied only while a certificate is left to fill it.
Room == used # CertId

\* The serial numbers that are left are alike: one of them is drawn.  The issuer was
\* settled on before, and may have lost its trust by now.
Install(n, c) ==
  /\ Room /\ c = (CHOOSE d \in CertId : d \notin used) /\ Slot!Install(n, c)
  /\ distrusted' \in {distrusted, distrusted \cup {c}}

\* There is a row for the node, and what it would present is not accepted: now, or
\* for good, as its certificate is lost, revoked or expired.
LockedOut(n) == status[n] # "absent" /\ ~Good(n, known[n])
ShutOut(n)   == status[n] # "absent" /\ ~Valid(n, known[n])
-----------------------------------------------------------------------------
(***************************************************************************)
(* The node.                                                               *)
(***************************************************************************)
\* Run: register, then a heartbeat at each tick.
Send(n) ==
  /\ waiting[n] = NoReq
  /\ \E r \in Request :
       /\ req[r].pc = "idle"
       /\ req' = [req EXCEPT ![r] = [Idle EXCEPT !.pc = "load", !.kind = phase[n], !.node = n,
                                                 !.serial = known[n], !.out = ShutOut(n)]]
       /\ waiting' = [waiting EXCEPT ![n] = r]
  /\ UNCHANGED <<status, slots, expired, distrusted, phase, known, withdrawn>>

\* The timeout of the HTTP client; or the answer is lost.  After a registration
\* the process ends and is started again, after a heartbeat it goes on.
GiveUp(n) ==
  /\ waiting[n] # NoReq
  /\ waiting' = [waiting EXCEPT ![n] = NoReq]
  /\ UNCHANGED <<status, slots, expired, distrusted, phase, known, req, withdrawn>>

\* The node restarts, with its serial number or without it.
Reboot(n) ==
  /\ phase' = [phase EXCEPT ![n] = "register"]
  /\ known' \in {known, [known EXCEPT ![n] = NoCert]}
  /\ waiting' = [waiting EXCEPT ![n] = NoReq]
  /\ UNCHANGED <<status, slots, expired, distrusted, req, withdrawn>>
-----------------------------------------------------------------------------
(***************************************************************************)
(* RegisterNode and NodeHeartbeat.                                         *)
(***************************************************************************)
Move(r, pc) == req' = [req EXCEPT ![r].pc = pc]

\* The handler goes on with certificate c.
Carry(r, pc, c) == req' = [req EXCEPT ![r].pc = pc, ![r].cert = c]

\* The handler returns.
Leave(r) == req' = [req EXCEPT ![r] = Idle]

\* A node that waits for r gets an error.
Refused(r) ==
  /\ Leave(r)
  /\ waiting' = [n \in Node |-> IF waiting[n] = r THEN NoReq ELSE waiting[n]]

\* Fault: a heartbeat is taken only from a node that is active.
Load_ActiveOnly(r) ==
  LET n == req[r].node IN
  /\ req[r].pc = "load"
  /\ IF req[r].kind = "heartbeat" /\ status[n] # "active"
       THEN Refused(r)
       ELSE /\ Move(r, IF status[n] = "absent" THEN "write" ELSE "verify")
            /\ UNCHANGED waiting
  /\ UNCHANGED <<status, slots, expired, distrusted, phase, known, withdrawn>>

\* GetNodeByKey, or GetNodeByID with the checks against the row.
Load(r) ==
  LET n == req[r].node IN
  /\ req[r].pc = "load"
  /\ IF req[r].kind = "heartbeat" /\ status[n] \in {"absent", "revoked"}
       THEN Refused(r)                                        \* 404, 403
       ELSE /\ Move(r, IF status[n] = "absent" THEN "write" ELSE "verify")
            /\ UNCHANGED waiting
  /\ UNCHANGED <<status, slots, expired, distrusted, phase, known, withdrawn>>

\* Fault: any certificate on record will do.
Verify_AnyRow(r) ==
  /\ req[r].pc = "verify"
  /\ IF req[r].serial \in used \ expired
       THEN Move(r, "write") /\ UNCHANGED waiting
       ELSE Refused(r)
  /\ UNCHANGED <<status, slots, expired, distrusted, phase, known, withdrawn>>

\* verifyNodeTLSIdentity; 401.
Verify(r) ==
  /\ req[r].pc = "verify"
  /\ IF Good(req[r].node, req[r].serial)
       THEN Move(r, "write") /\ UNCHANGED waiting
       ELSE Refused(r)
  /\ UNCHANGED <<status, slots, expired, distrusted, phase, known, withdrawn>>

\* Faults: a status that is none; no look at the status that was kept.
Upsert_Registered(r) ==
  /\ req[r].pc = "write" /\ req[r].kind = "register"
  /\ status' = [status EXCEPT ![req[r].node] = "registered"]
  /\ Move(r, "ensure")
  /\ UNCHANGED <<slots, expired, distrusted, process, withdrawn>>
Upsert_Unread(r) ==
  /\ req[r].pc = "write" /\ req[r].kind = "register"
  /\ status' = [status EXCEPT ![req[r].node] = IF @ = "revoked" THEN @ ELSE "pending"]
  /\ Move(r, "ensure")
  /\ UNCHANGED <<slots, expired, distrusted, process, withdrawn>>

\* UpsertNodeRegistration, and 403 for a node that is revoked.
Upsert(r) ==
  LET n == req[r].node IN
  /\ req[r].pc = "write" /\ req[r].kind = "register"
  /\ IF status[n] = "revoked"
       THEN Refused(r) /\ UNCHANGED status
       ELSE /\ status' = [status EXCEPT ![n] = "pending"]
            /\ Move(r, "ensure")
            /\ UNCHANGED waiting
  /\ UNCHANGED <<slots, expired, distrusted, phase, known, withdrawn>>

\* TouchNodeHeartbeat; 404 for a node that is revoked.
Touch(r) ==
  LET n == req[r].node IN
  /\ req[r].pc = "write" /\ req[r].kind = "heartbeat"
  /\ IF status[n] = "revoked"
       THEN Refused(r) /\ UNCHANGED status
       ELSE /\ status' = [status EXCEPT ![n] = "active"]
            /\ Move(r, "answer")
            /\ UNCHANGED waiting
  /\ UNCHANGED <<slots, expired, distrusted, phase, known, withdrawn>>

\* To issue a certificate ensureSigningIssuer may activate another issuer.
Ensures(r, pc) ==
  /\ Carry(r, pc, active[req[r].node])
  /\ IF pc = "answer" THEN UNCHANGED distrusted ELSE IssuersChange
  /\ UNCHANGED <<status, slots, expired, process, withdrawn>>

\* Fault: a registration always gets a new certificate.
Ensure_Reissues(r) ==
  /\ req[r].pc = "ensure"
  /\ Ensures(r, IF active[req[r].node] = NoCert THEN "insert" ELSE "revoke")

\* ensureNodeCertificate reads the active certificate.  A valid one is the answer,
\* whatever its issuer, an expired one is to be replaced.
Ensure(r) ==
  LET c == active[req[r].node] IN
  /\ req[r].pc = "ensure"
  /\ Ensures(r, IF c = NoCert THEN "insert" ELSE IF c \in expired THEN "revoke" ELSE "answer")

\* issueNodeCertificateInternal revokes the certificate that was read ...
RevokeSeen(r) ==
  LET n == req[r].node IN
  /\ req[r].pc = "revoke"
  /\ IF active[n] = req[r].cert THEN Slot!Retire(n) ELSE UNCHANGED slots
  /\ Move(r, "insert")
  /\ UNCHANGED <<status, expired, distrusted, process, withdrawn>>

\* ... and inserts another ...
Insert(r) ==
  /\ req[r].pc = "insert"
  /\ \E c \in CertId : Install(req[r].node, c) /\ Carry(r, "answer", c)
  /\ UNCHANGED <<status, expired, process, withdrawn>>

\* ... unless another handler has done so: 409.
InsertConflict(r) ==
  /\ req[r].pc = "insert"
  /\ active[req[r].node] # NoCert
  /\ Refused(r)
  /\ UNCHANGED <<status, slots, expired, distrusted, phase, known, withdrawn>>

\* The event and the audit row are written, and the answer reaches the node, if
\* it still waits for it.
Answer(r) ==
  LET n == req[r].node IN
  /\ req[r].pc = "answer"
  /\ Leave(r)
  /\ IF waiting[n] # r
       THEN UNCHANGED process
       ELSE /\ waiting' = [waiting EXCEPT ![n] = NoReq]
            /\ phase' = [phase EXCEPT ![n] = "heartbeat"]
            /\ known' = IF req[r].kind = "register" THEN [known EXCEPT ![n] = req[r].cert] ELSE known
  /\ UNCHANGED <<status, slots, expired, distrusted, withdrawn>>

\* A statement fails.  A restart of the server is this for every handler.
Fail(r) ==
  /\ req[r].pc # "idle"
  /\ Refused(r)
  /\ UNCHANGED <<status, slots, expired, distrusted, phase, known, withdrawn>>
-----------------------------------------------------------------------------
(***************************************************************************)
(* Operators, the renewal sweep and time.                                  *)
(***************************************************************************)
\* A certificate is revoked, by itself or to be replaced, and the node is not told.
Retire(n) ==
  /\ Room
  /\ Slot!Retire(n)
  /\ withdrawn' = withdrawn \cup ({active[n]} \ expired) /\ distrusted' = distrusted \ {active[n]}
  /\ UNCHANGED <<status, expired, process, req>>

\* A certificate is issued to the node, revoked or not; the operator gets it.
Fill(n) ==
  /\ status[n] # "absent"
  /\ \E c \in CertId : Install(n, c)
  /\ UNCHANGED <<status, expired, process, req, withdrawn>>

\* An operator configures the node with its active certificate.
HandOver(n) ==
  /\ active[n] # NoCert
  /\ known' = [known EXCEPT ![n] = active[n]]
  /\ UNCHANGED <<status, slots, expired, distrusted, phase, waiting, req, withdrawn>>

Expire(n) ==
  /\ Room
  /\ active[n] # NoCert /\ active[n] \notin expired
  /\ expired' = expired \cup {active[n]} /\ distrusted' = distrusted \ {active[n]}
  /\ UNCHANGED <<status, slots, process, req, withdrawn>>

\* An administrator activates an issuer, ensureSigningIssuer does so as a certificate
\* is issued for an operator or the sweep, or the server restarts (each of its
\* handlers fails, too) with other issuers configured.
SwitchIssuers ==
  /\ IssuersChange
  /\ UNCHANGED <<status, slots, expired, process, req, withdrawn>>

\* The registrations of node n that have seen it not revoked, and go on.
Past(n) == {r \in Request : /\ req[r].kind = "register" /\ req[r].node = n
                            /\ req[r].pc \in {"ensure", "revoke", "insert", "answer"}}

\* RevokeNode leaves the certificate as it is.
RevokeNode(n) ==
  /\ status[n] # "absent"
  /\ status' = [status EXCEPT ![n] = "revoked"]
  /\ req' = [r \in Request |-> IF r \in Past(n) THEN [req[r] EXCEPT !.late = TRUE] ELSE req[r]]
  /\ UNCHANGED <<slots, expired, distrusted, process, withdrawn>>

ReactivateNode(n) ==
  /\ status[n] = "revoked"
  /\ status' = [status EXCEPT ![n] = "pending"]
  /\ UNCHANGED <<slots, expired, distrusted, process, req, withdrawn>>

\* Applying a runtime configuration.
MarkNodeRuntimeOnline(n) ==
  /\ status[n] \in {"pending", "active"}
  /\ status' = [status EXCEPT ![n] = "active"]
  /\ UNCHANGED <<slots, expired, distrusted, process, req, withdrawn>>
-----------------------------------------------------------------------------
Step(r) ==
  \/ Load(r) \/ Verify(r) \/ Upsert(r) \/ Touch(r) \/ Ensure(r)
  \/ RevokeSeen(r) \/ Insert(r) \/ InsertConflict(r) \/ Answer(r)

\* What keeps a node from being heard, other than by its requests.
Disturbance ==
  \/ SwitchIssuers
  \/ \E r \in Request : Fail(r)
  \/ \E n \in Node : \/ GiveUp(n) \/ Reboot(n)
                     \/ Retire(n) \/ Fill(n) \/ HandOver(n) \/ Expire(n)
                     \/ RevokeNode(n) \/ ReactivateNode(n)

Next ==
  \/ \E r \in Request : Step(r)
  \/ \E n \in Node : Send(n) \/ MarkNodeRuntimeOnline(n)
  \/ Disturbance

Spec == Init /\ [][Next]_vars

\* A goroutine is scheduled until it returns, and a node tries again.
Fairness ==
  /\ \A r \in Request : WF_vars(Step(r))
  /\ \A n \in Node : WF_vars(Send(n))

FairSpec == Spec /\ Fairness
-----------------------------------------------------------------------------
(***************************************************************************)
(* What nodes may rely on.                                                 *)
(***************************************************************************)
\* A serial number a node was given is accepted until an operator or the sweep
\* withdraws it, it expires, or its issuer is no longer trusted: a node's own traffic
\* (registrations that overlap, are abandoned, fail half-way or race for the
\* insert) never takes away the certificate it has.
OutForAReason ==
  \A n \in Node : known[n] # NoCert =>
    Good(n, known[n]) \/ known[n] \in withdrawn \cup expired \cup distrusted

\* A node whose certificate is lost, revoked or expired cannot let itself in: of the
\* requests it sends then, whatever is reissued or activated while they are in
\* flight, none writes to its row or gets a certificate.
StaysOut ==
  \A r \in Request : req[r].out => req[r].pc \in {"load", "verify"}

\* Once a node is revoked, only registrations that had passed their check of
\* the status before can still have a certificate issued or answered.
RevokedGetsNone ==
  \A n \in Node : status[n] = "revoked" => \A r \in Past(n) : req[r].late

\* When nothing disturbs them any more and no certificate loses its issuer's trust,
\* every node ends up active, or revoked, or locked out: handlers that were abandoned
\* earlier and the retries they overlap with cannot keep each other from finishing.
\* (A statement that fails where the handler would have refused disturbs nothing.)
Barred(n) == status[n] = "revoked" \/ LockedOut(n)
Undisturbed == /\ Disturbance => \E r \in Request : Step(r)
               /\ used \cap distrusted' \subseteq distrusted
EndsHeard ==
  <>[][Undisturbed]_vars => \A n \in Node : <>[](status[n] = "active" \/ Barred(n))
=============================================================================
