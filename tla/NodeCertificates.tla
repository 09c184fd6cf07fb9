-------------------------- MODULE NodeCertificates --------------------------
(***************************************************************************)
(* The life of node certificates in core-platform (strict PKI mode, file   *)
(* signer).                                                                *)
(*                                                                         *)
(* A certificate is one row of the table node_certificates.  A handler     *)
(* that issues one runs several SQL statements, each its own transaction:  *)
(* read the active row, sign a leaf, revoke the row it replaces, insert    *)
(* the new row, write the audit log.  Handlers of HTTP requests run        *)
(* concurrently with one another and with the renewal sweep, and each can  *)
(* stop between two statements: the client went away (r.Context()), a      *)
(* statement failed, or the process was restarted.                         *)
(*                                                                         *)
(* One action is one statement (or a run of reads nothing can come         *)
(* between).  Requests that end without changing the table and without     *)
(* having changed it (400, 403, 404, 409) are the disabled actions.        *)
(***************************************************************************)
EXTENDS Integers, FiniteSets

CONSTANTS
  Node,         \* rows of the table nodes; they are never deleted
  CertId,       \* the uuids the inserts draw from
  Request,      \* handlers that may be in flight at the same time
  TTL,          \* NodeCertDefaultTTL
  RenewBefore,  \* NodeCertRenewBefore
  MaxTime,      \* bound of the model: the clock stops here
  NoCert,       \* no certificate: NULL, or the zero value of NodeCertificate
  NoRow         \* a uuid that is not in the table

ASSUME NodeAssumption == Node # {}
ASSUME NoCertAssumption == NoCert \notin CertId
ASSUME TimeAssumption ==
  /\ TTL \in Nat \ {0}
  /\ RenewBefore \in Nat
  /\ MaxTime \in Nat

VARIABLES
  cert,    \* node_certificates, by id
  now,     \* the clock of the server and of the database
  req,     \* the handlers in flight, with the variables they carry
  excused  \* nodes left without a certificate by an operator or by a handler
           \* that stopped between revoking and inserting (history variable)

vars == <<cert, now, req, excused>>

CertRow == [node     : Node,
            revoked  : BOOLEAN,            \* revoked_at IS NOT NULL
            notAfter : Nat,                \* not_after
            from     : CertId \cup {NoCert}]  \* rotate_from_cert_id

ASSUME NoRowAssumption == NoRow \notin CertRow

\* "sweep" is RunPKIRenewalSweep; "issue" is a request that issues one
\* certificate, "withdraw" one that revokes a certificate.
Op == {"issue", "sweep", "withdraw"}

Handler == [pc       : {"idle", "sign", "revoke", "insert", "audit", "next", "withdraw"},
            op       : Op,
            node     : Node,
            seen     : CertId \cup {NoCert},  \* rotateFrom / active, as read
            notAfter : Nat,                   \* of the leaf just signed
            todo     : SUBSET CertId]         \* expiring certificates to renew

Rows      == {c \in CertId : cert[c] # NoRow}
Active(n) == {c \in Rows : cert[c].node = n /\ ~cert[c].revoked}

TypeOK ==
  /\ cert \in [CertId -> CertRow \cup {NoRow}]
  /\ now \in Nat
  /\ req \in [Request -> Handler]
  /\ excused \subseteq Node

Idle == [pc |-> "idle", op |-> "issue", node |-> CHOOSE n \in Node : TRUE,
         seen |-> NoCert, notAfter |-> 0, todo |-> {}]

Init ==
  /\ cert = [c \in CertId |-> NoRow]
  /\ now = 0
  /\ req = [r \in Request |-> Idle]
  /\ excused = {}
-----------------------------------------------------------------------------
(***************************************************************************)
(* Moving a handler.                                                       *)
(***************************************************************************)
\* A sweep goes on with its next certificate, whatever became of this one.
Finished(h) == IF h.op = "sweep"
                 THEN [Idle EXCEPT !.pc = "next", !.op = "sweep", !.todo = h.todo]
                 ELSE Idle

Move(r, pc) == req' = [req EXCEPT ![r].pc = pc]
Finish(r)   == req' = [req EXCEPT ![r] = Finished(req[r])]

\* The handler starts issuing for node n, to replace certificate c (or NoCert).
Begin(r, n, c) ==
  /\ req' = [req EXCEPT ![r] = [Idle EXCEPT !.pc = "sign", !.node = n, !.seen = c]]
  /\ UNCHANGED <<cert, now, excused>>

\* GetActiveNodeCertificate returns c (NoCert: sql.ErrNoRows).
ReadsActive(n, c) == IF Active(n) = {} THEN c = NoCert ELSE c \in Active(n)

\* Bound of the model: issuing starts only while a uuid is left for it.
Issuing == {r \in Request : req[r].pc \in {"sign", "revoke", "insert"}}
Room    == Cardinality(Issuing) < Cardinality(CertId \ Rows)
-----------------------------------------------------------------------------
(***************************************************************************)
(* Requests arriving.                                                      *)
(***************************************************************************)
\* POST /nodes/certificates/issue: passes rotateFrom = nil.
StartIssue(r, n) ==
  /\ req[r].pc = "idle" /\ Room
  /\ Begin(r, n, NoCert)

\* POST /nodes/certificates/rotate.  The error of the read is dropped: a read
\* that fails looks like a node without a certificate.
StartRotate(r, n) ==
  /\ req[r].pc = "idle" /\ Room
  /\ \E c \in Active(n) \cup {NoCert} : Begin(r, n, c)

Due(c) == cert[c].notAfter <= now + RenewBefore

\* POST /nodes/certificates/renew: 409 when neither due nor forced.
StartRenew(r, n, force) ==
  /\ req[r].pc = "idle" /\ Room
  /\ \E c \in CertId \cup {NoCert} :
       /\ ReadsActive(n, c)
       /\ c # NoCert /\ ~force => Due(c)
       /\ Begin(r, n, c)

\* ensureNodeCertificate, from RegisterNode.  A valid active certificate is
\* returned as it is; an expired one is replaced.
StartEnsure(r, n) ==
  /\ req[r].pc = "idle" /\ Room
  /\ \E c \in CertId \cup {NoCert} :
       /\ ReadsActive(n, c)
       /\ c # NoCert => now >= cert[c].notAfter
       /\ Begin(r, n, c)

\* Fault: the list has no not_after condition.
StartSweep_Everything(r) ==
  /\ req[r].pc = "idle" /\ Room
  /\ \A s \in Request : req[s].op = "sweep" => req[s].pc = "idle"
  /\ req' = [req EXCEPT ![r] = [Idle EXCEPT !.pc = "next", !.op = "sweep",
                                            !.todo = {c \in Rows : ~cert[c].revoked}]]
  /\ UNCHANGED <<cert, now, excused>>

\* RunPKIRenewalSweep lists the certificates of all nodes that are due.
StartSweep(r) ==
  /\ req[r].pc = "idle" /\ Room
  /\ \A s \in Request : req[s].op = "sweep" => req[s].pc = "idle"
  /\ \E c \in Rows : ~cert[c].revoked /\ Due(c)
  /\ req' = [req EXCEPT ![r] =
       [Idle EXCEPT !.pc = "next", !.op = "sweep",
                    !.todo = {c \in Rows : ~cert[c].revoked /\ Due(c)}]]
  /\ UNCHANGED <<cert, now, excused>>

\* The loop of the sweep, in the order of not_after.  &cert is the row as listed.
SweepNext(r) ==
  /\ req[r].pc = "next" /\ Room
  /\ \E c \in req[r].todo :
       /\ \A d \in req[r].todo : cert[c].notAfter <= cert[d].notAfter
       /\ req' = [req EXCEPT ![r].pc = "sign", ![r].node = cert[c].node,
                             ![r].seen = c, ![r].todo = @ \ {c}]
  /\ UNCHANGED <<cert, now, excused>>

SweepEnd(r) ==
  /\ req[r].pc = "next" /\ req[r].todo = {}
  /\ req' = [req EXCEPT ![r] = Idle]
  /\ UNCHANGED <<cert, now, excused>>
-----------------------------------------------------------------------------
(***************************************************************************)
(* issueNodeCertificateInternal.                                           *)
(***************************************************************************)
SignUntil(r, t) ==
  /\ req[r].pc = "sign"
  /\ req' = [req EXCEPT ![r].notAfter = t,
                        ![r].pc = IF req[r].seen = NoCert THEN "insert" ELSE "revoke"]
  /\ UNCHANGED <<cert, now, excused>>

\* Fault: the TTL is subtracted.
Sign_BackDated(r) == SignUntil(r, now - TTL)

\* The leaf is signed before the table is touched.
Sign(r) == SignUntil(r, now + TTL)

\* Fault: the handler returns with the result of the UPDATE.
RevokeSeen_Returns(r) ==
  /\ req[r].pc = "revoke"
  /\ cert' = [cert EXCEPT ![req[r].seen].revoked = TRUE]
  /\ Finish(r)
  /\ UNCHANGED <<now, excused>>

\* UPDATE ... AND revoked_at IS NULL; that no row matched is not an error.
RevokeSeen(r) ==
  /\ req[r].pc = "revoke"
  /\ cert' = [cert EXCEPT ![req[r].seen].revoked = TRUE]
  /\ Move(r, "insert")
  /\ UNCHANGED <<now, excused>>

Write(r, c) ==
  /\ cert' = [cert EXCEPT ![c] = [node |-> req[r].node, revoked |-> FALSE,
                                  notAfter |-> req[r].notAfter, from |-> req[r].seen]]
  /\ excused' = excused \ {req[r].node}
  /\ Move(r, "audit")
  /\ UNCHANGED now

\* Faults: no unique index; the row that was read is written over.
Insert_NoIndex(r) ==
  /\ req[r].pc = "insert"
  /\ \E c \in CertId \ Rows : Write(r, c)
Insert_InPlace(r) ==
  /\ req[r].pc = "insert"
  /\ Active(req[r].node) = {}
  /\ \E c \in CertId : (c \notin Rows \/ c = req[r].seen) /\ Write(r, c)

\* The insert passes uq_node_certificates_active_per_node.
Insert(r) ==
  /\ req[r].pc = "insert"
  /\ Active(req[r].node) = {}
  /\ \E c \in CertId \ Rows : Write(r, c)

\* The insert violates the index: 409 conflict, and what was revoked stays so.
InsertConflict(r) ==
  /\ req[r].pc = "insert"
  /\ Active(req[r].node) # {}
  /\ Finish(r)
  /\ UNCHANGED <<cert, now, excused>>

\* node.certificate_issued is in the audit log: the request succeeds.
Audit(r) ==
  /\ req[r].pc = "audit"
  /\ Finish(r)
  /\ UNCHANGED <<cert, now, excused>>
-----------------------------------------------------------------------------
(***************************************************************************)
(* RevokeNodeCertificate.                                                  *)
(***************************************************************************)
Withdraw(c) ==
  /\ cert' = [cert EXCEPT ![c].revoked = TRUE]
  /\ excused' = excused \cup {cert[c].node}

\* certificate_id or serial_number is given: one UPDATE.
RevokeGiven(c) ==
  /\ c \in Rows /\ ~cert[c].revoked
  /\ Withdraw(c)
  /\ UNCHANGED <<now, req>>

\* Neither is given: the active certificate is read first.
StartRevokeActive(r, n) ==
  /\ req[r].pc = "idle"
  /\ \E c \in Active(n) :
       req' = [req EXCEPT ![r] = [Idle EXCEPT !.pc = "withdraw", !.op = "withdraw",
                                              !.node = n, !.seen = c]]
  /\ UNCHANGED <<cert, now, excused>>

RevokeActive(r) ==
  /\ req[r].pc = "withdraw"
  /\ IF cert[req[r].seen].revoked
       THEN UNCHANGED <<cert, excused>>          \* 404
       ELSE Withdraw(req[r].seen)
  /\ Finish(r)
  /\ UNCHANGED now
-----------------------------------------------------------------------------
(***************************************************************************)
(* The environment.                                                        *)
(***************************************************************************)
\* Nodes left without a certificate, and without a handler about to insert one,
\* when the handlers R stop.
InsertsFor(n)  == {r \in Request : req[r].pc = "insert" /\ req[r].node = n}
Stranded(R)    == {n \in Node : Active(n) = {} /\ InsertsFor(n) # {} /\ InsertsFor(n) \subseteq R}

\* The handler returns early: the client is gone or a statement failed.
Fail(r) ==
  /\ req[r].pc \in {"sign", "revoke", "insert", "audit", "withdraw"}
  /\ Finish(r)
  /\ excused' = excused \cup Stranded({r})
  /\ UNCHANGED <<cert, now>>

\* The process stops and is started again.
Restart ==
  /\ \E r \in Request : req[r].pc # "idle"
  /\ req' = [r \in Request |-> Idle]
  /\ excused' = excused \cup Stranded(Request)
  /\ UNCHANGED <<cert, now>>

Tick ==
  /\ now < MaxTime
  /\ now' = now + 1
  /\ UNCHANGED <<cert, req, excused>>
-----------------------------------------------------------------------------
\* What a handler does by itself once it has been started.
Step(r) ==
  \/ SweepNext(r) \/ SweepEnd(r)
  \/ Sign(r) \/ RevokeSeen(r) \/ Insert(r) \/ InsertConflict(r) \/ Audit(r)
  \/ RevokeActive(r)

Arrive(r) ==
  \/ \E n \in Node : \/ StartIssue(r, n) \/ StartRotate(r, n)
                     \/ \E force \in BOOLEAN : StartRenew(r, n, force)
                     \/ StartEnsure(r, n) \/ StartRevokeActive(r, n)
  \/ StartSweep(r)

Next ==
  \/ \E r \in Request : Arrive(r) \/ Step(r) \/ Fail(r)
  \/ \E c \in CertId : RevokeGiven(c)
  \/ Restart
  \/ Tick

Spec == Init /\ [][Next]_vars

\* A goroutine that has been started is scheduled until it returns.
Fairness == \A r \in Request : WF_vars(Step(r))

FairSpec == Spec /\ Fairness
-----------------------------------------------------------------------------
(***************************************************************************)
(* What the handlers promise together.                                     *)
(***************************************************************************)
\* Whatever handlers overlap, a node has at most one certificate that is not
\* revoked: revoke and insert are two statements, the index decides.
OneActiveCert ==
  \A c, d \in Rows :
    cert[c].node = cert[d].node /\ ~cert[c].revoked /\ ~cert[d].revoked => c = d

\* A node that has had a certificate and has none now is waiting for a handler
\* that is about to insert one, or an operator withdrew it, or a handler stopped
\* between its revocation and its insert: overlapping rotations, renewals and
\* the sweep never lose a certificate among them.
Gap(n) == Active(n) = {} /\ \E c \in Rows : cert[c].node = n
GapExplained == \A n \in Node : Gap(n) => n \in excused \/ InsertsFor(n) # {}

\* rotate_from_cert_id, read before the leaf was signed and written after other
\* handlers may have replaced it, still names a revoked certificate of the same
\* node, and the replacement expires no earlier.
Lineage ==
  \A c \in Rows : cert[c].from # NoCert =>
    /\ cert[c].from \in Rows \ {c}
    /\ LET p == cert[cert[c].from] IN
         p.node = cert[c].node /\ p.revoked /\ p.notAfter <= cert[c].notAfter

\* The table is a history: a row is never removed, revived or rewritten, not
\* even by a handler that holds a row it read long ago.
RowKept(c) == c \in Rows =>
  /\ cert'[c] # NoRow
  /\ cert'[c].node = cert[c].node /\ cert'[c].notAfter = cert[c].notAfter
  /\ cert'[c].from = cert[c].from
  /\ cert[c].revoked => cert'[c].revoked
HistoryKept == [][\A c \in CertId : RowKept(c)]_vars

\* A certificate the renewal sweep takes away is due when it is taken away, and
\* no other handler's certificate is taken in its stead.
SweepTakes(r, c) ==
  /\ req[r].op = "sweep" /\ req[r].pc = "revoke" /\ req'[r].pc = "insert"
  /\ c \in Rows /\ ~cert[c].revoked /\ cert'[c].revoked
SweepTakesOnlyDue ==
  [][\A r \in Request, c \in CertId : SweepTakes(r, c) => c = req[r].seen /\ Due(c)]_vars

\* A gap that no operator and no failure made is closed, once handlers stop
\* failing: those that are about to insert cannot all lose to one another.
\* (A failure that does what the handler would have done itself does not count.)
Unfailing == Restart \/ (\E r \in Request : Fail(r)) => \E r \in Request : Step(r)
GapCloses ==
  <>[][Unfailing]_vars =>
    \A n \in Node : (Gap(n) /\ n \notin excused) ~> (Active(n) # {} \/ n \in excused)

\* The table as a slot per node (see CertificateSlot).
SlotOf(n) == IF Active(n) = {} THEN NoCert ELSE CHOOSE c \in Active(n) : TRUE
Slot == INSTANCE CertificateSlot WITH active <- [n \in Node |-> SlotOf(n)], used <- Rows

\* Statements of overlapping handlers add up to installing into an empty slot
\* and emptying a slot, for ever: no certificate is replaced in place, and none
\* comes back.
ImplementsSlot == Slot!Spec
=============================================================================
