----------------------------- MODULE PkiIssuers -----------------------------
(***************************************************************************)
(* The certificate authorities of core-platform (table pki_issuers) in     *)
(* NODE_CA_MODE=file: how a request that needs a node certificate finds,   *)
(* creates and activates the issuer to sign with, while administrators     *)
(* create and activate issuers, and while the process is started again     *)
(* with another configuration.                                             *)
(*                                                                         *)
(* Every statement is an action.  ActivatePKIIssuer, a transaction, is     *)
(* two: the SELECT ... FOR UPDATE takes its snapshot in BeginSwitch and    *)
(* waits for its lock; Switch is the rest, which that lock and the unique  *)
(* index on the active row make atomic.                                    *)
(*                                                                         *)
(* A CA is its id (ca_id).  The certificate a row has beside it, which     *)
(* CreatePKIIssuer fills in separately and only the check of a presented   *)
(* certificate reads, is not modelled.                                     *)
(***************************************************************************)
EXTENDS Integers, FiniteSets

CONSTANTS
  Issuer,      \* issuer_id
  NoIssuer,
  FileCA,      \* ids of the certificate authorities outside the process
  Deployment,  \* configurations the process may be started with
  Create,      \* what administrators ask CreatePKIIssuer for
  Configured,  \* a request without issuer_id: the configured one is meant
  Own,         \* a request without a CA id, or a deployment without CA files
  ByHand,      \* made by no start of the process
  NoRow,
  Request,     \* handlers in flight at the same time
  MaxBoot      \* bound of the model: starts of the process

\* A CA that is made at start is named by the number of the start.
CA == FileCA \cup Nat

Configuration == [active : Issuer, previous : SUBSET Issuer, ca : FileCA \cup {Own}]

ASSUME NameAssumption ==
  /\ NoIssuer \notin Issuer /\ Configured \notin Issuer
  /\ FileCA \cap Nat = {} /\ Own \notin CA /\ ByHand \notin Nat
  /\ NoRow \notin [status : {"pending", "active", "retired"}, ca : CA,
                   from : Issuer \cup {NoIssuer}, made : Nat \cup {ByHand}]
ASSUME InputAssumption ==
  /\ Deployment \subseteq Configuration
  /\ Create \subseteq [issuer : Issuer \cup {Configured}, ca : FileCA \cup {Own}]
ASSUME BootAssumption == MaxBoot \in Nat

VARIABLES
  row,    \* pki_issuers: what is known of each issuer
  conf,   \* the configuration of the running process
  ca,     \* caBundle of the running process
  boot,   \* number of the start
  req,    \* the handlers in flight
  certs   \* issued certificates: the issuer on record, and the CA, the configured
          \* issuer and the start of the process that signed (the last three: history)

vars == <<row, conf, ca, boot, req, certs>>

\* made (history): the start in which ensureSigningIssuer created the row, or
\* ByHand, if CreatePKIIssuer did.
Row == [status : {"pending", "active", "retired"}, ca : CA,
        from : Issuer \cup {NoIssuer}, made : Nat \cup {ByHand}]

Cert == [issuer : Issuer, ca : CA, conf : Issuer, boot : Nat]

\* goal: what the handler is for; id: the issuer it settled on;
\* seen: the active issuer in the snapshot of its transaction.
Handler == [pc : {"idle", "lookup", "byCA", "insert", "active", "begin", "switch", "sign"},
            goal : {"sign", "create", "activate"},
            id : Issuer \cup {NoIssuer}, ca : CA, seen : Issuer \cup {NoIssuer}]

TypeOK ==
  /\ row \in [Issuer -> Row \cup {NoRow}]
  /\ conf \in Deployment
  /\ ca \in CA
  /\ boot \in Nat
  /\ req \in [Request -> Handler]
  /\ certs \subseteq Cert

Exists(i) == row[i] # NoRow
Active(i) == Exists(i) /\ row[i].status = "active"

Idle == [pc |-> "idle", goal |-> "sign", id |-> NoIssuer, ca |-> 0, seen |-> NoIssuer]

\* loadOrCreateCA: without readable files a new CA is made, and kept in memory only.
OwnCA(d, n) == IF d.ca = Own THEN n ELSE d.ca

Init ==
  /\ row = [i \in Issuer |-> NoRow]
  /\ conf \in Deployment
  /\ boot = 0
  /\ ca = OwnCA(conf, 0)
  /\ req = [r \in Request |-> Idle]
  /\ certs = {}
-----------------------------------------------------------------------------
process == <<conf, ca, boot>>

Move(r, pc) == req' = [req EXCEPT ![r].pc = pc]
Finish(r)   == req' = [req EXCEPT ![r] = Idle]

\* issueNodeCertificate calls ensureSigningIssuer.
BeginIssue(r) ==
  /\ req[r].pc = "idle"
  /\ req' = [req EXCEPT ![r] = [Idle EXCEPT !.pc = "lookup", !.id = conf.active, !.ca = ca]]
  /\ UNCHANGED <<row, process, certs>>

\* Fault: only the issuer is filled in.
BeginCreate_NoCA(r, c, goal) ==
  /\ req[r].pc = "idle"
  /\ req' = [req EXCEPT ![r] =
       [Idle EXCEPT !.pc = "lookup", !.goal = goal,
                    !.id = IF c.issuer = Configured THEN conf.active ELSE c.issuer,
                    !.ca = c.ca]]
  /\ UNCHANGED <<row, process, certs>>

\* CreatePKIIssuer up to its first statement: what the request leaves blank is
\* filled in from the process.
BeginCreate(r, c, goal) ==
  /\ req[r].pc = "idle"
  /\ req' = [req EXCEPT ![r] =
       [Idle EXCEPT !.pc = "lookup", !.goal = goal,
                    !.id = IF c.issuer = Configured THEN conf.active ELSE c.issuer,
                    !.ca = IF c.ca = Own THEN ca ELSE c.ca]]
  /\ UNCHANGED <<row, process, certs>>

\* ActivatePKIIssuer.
BeginActivate(r, i) ==
  /\ req[r].pc = "idle"
  /\ req' = [req EXCEPT ![r] = [Idle EXCEPT !.pc = "begin", !.goal = "activate", !.id = i]]
  /\ UNCHANGED <<row, process, certs>>

\* Where a handler goes on once the row of its issuer is there.
Known(r) == CASE req[r].goal = "sign"     -> Move(r, "active")
              [] req[r].goal = "activate" -> Move(r, "begin")
              [] req[r].goal = "create"   -> Finish(r)

\* GetPKIIssuerByIssuerID.
Lookup(r) ==
  /\ req[r].pc = "lookup"
  /\ IF Exists(req[r].id) THEN Known(r)
     ELSE Move(r, IF req[r].goal = "sign" THEN "byCA" ELSE "insert")
  /\ UNCHANGED <<row, process, certs>>

\* GetPKIIssuerByCAID: an issuer with this CA is taken in place of the
\* configured one.
AdoptByCA(r) ==
  /\ req[r].pc = "byCA"
  /\ \/ \E i \in Issuer :
          /\ Exists(i) /\ row[i].ca = req[r].ca
          /\ req' = [req EXCEPT ![r].pc = "active", ![r].id = i]
     \/ /\ \A i \in Issuer : Exists(i) => row[i].ca # req[r].ca
        /\ Move(r, "insert")
  /\ UNCHANGED <<row, process, certs>>

\* The unique constraints on issuer_id and ca_id.
Free(i, x) == ~Exists(i) /\ \A j \in Issuer : Exists(j) => row[j].ca # x

\* store.CreatePKIIssuer.
Insert(r) ==
  /\ req[r].pc = "insert"
  /\ IF Free(req[r].id, req[r].ca)
       THEN /\ row' = [row EXCEPT ![req[r].id] =
                         [status |-> "pending", ca |-> req[r].ca, from |-> NoIssuer,
                          made |-> IF req[r].goal = "sign" THEN boot ELSE ByHand]]
            /\ Known(r)
       ELSE Finish(r) /\ UNCHANGED row
  /\ UNCHANGED <<process, certs>>

\* Fault: an issuer is signed with although it was never activated.
GetActive_Returns(r) ==
  /\ req[r].pc = "active"
  /\ Move(r, IF \A i \in Issuer : ~Active(i) THEN "sign" ELSE "begin")
  /\ UNCHANGED <<row, process, certs>>

\* Fault: the issuer that is active is put on record, whoever signs.
GetActive_Any(r) ==
  /\ req[r].pc = "active"
  /\ \/ \E i \in Issuer :
          /\ Active(i)
          /\ req' = [req EXCEPT ![r].pc = "sign", ![r].id = i]
     \/ /\ \A i \in Issuer : ~Active(i)
        /\ Move(r, "begin")
  /\ UNCHANGED <<row, process, certs>>

\* GetActivePKIIssuer: sign at once only with the issuer that is active.
GetActive(r) ==
  /\ req[r].pc = "active"
  /\ Move(r, IF Active(req[r].id) THEN "sign" ELSE "begin")
  /\ UNCHANGED <<row, process, certs>>

\* store.ActivatePKIIssuer looks for the active row ...
BeginSwitch(r) ==
  /\ req[r].pc = "begin"
  /\ \/ \E i \in Issuer : Active(i) /\ req' = [req EXCEPT ![r].pc = "switch", ![r].seen = i]
     \/ /\ \A i \in Issuer : ~Active(i)
        /\ req' = [req EXCEPT ![r].pc = "switch", ![r].seen = NoIssuer]
  /\ UNCHANGED <<row, process, certs>>

\* ... and, when it has the lock, looks at that row again: a row that has been
\* retired meanwhile no longer qualifies, and no other is looked for.
Current(r) ==
  IF req[r].seen # NoIssuer /\ Active(req[r].seen) THEN req[r].seen ELSE NoIssuer

\* rotate_from_issuer_id is what the transaction retired.
Switched(i, current) ==
  [j \in Issuer |->
     CASE j = i                 -> [row[j] EXCEPT !.status = "active", !.from = current]
       [] j = current /\ j # i  -> [row[j] EXCEPT !.status = "retired"]
       [] OTHER                 -> row[j]]

Activated(r) == IF req[r].goal = "sign" THEN Move(r, "sign") ELSE Finish(r)

\* Fault: nothing refuses a second active row.
Switch_NoIndex(r) ==
  /\ req[r].pc = "switch"
  /\ LET i == req[r].id
         current == Current(r)
     IN IF Exists(i)
          THEN /\ row' = IF current = i THEN row ELSE Switched(i, current)
               /\ Activated(r)
          ELSE Finish(r) /\ UNCHANGED row
  /\ UNCHANGED <<process, certs>>

\* Fault: the retirement is kept when the issuer to activate is not found.
Switch_NoRollback(r) ==
  /\ req[r].pc = "switch"
  /\ LET i == req[r].id
         current == Current(r)
     IN IF i = current THEN Activated(r) /\ UNCHANGED row
        ELSE IF Exists(i) /\ \A j \in Issuer \ {i} : Active(j) => j = current
          THEN row' = Switched(i, current) /\ Activated(r)
          ELSE /\ row' = [j \in Issuer |-> IF j = current
                                             THEN [row[j] EXCEPT !.status = "retired"]
                                             ELSE row[j]]
               /\ Finish(r)
  /\ UNCHANGED <<process, certs>>

\* The issuer that is active stays as it is.  Otherwise the transaction is
\* rolled back when the issuer has no row (404) or when the unique index has
\* another active row than the one this transaction retires.
Switch(r) ==
  /\ req[r].pc = "switch"
  /\ LET i == req[r].id
         current == Current(r)
     IN IF i = current THEN Activated(r) /\ UNCHANGED row
        ELSE IF Exists(i) /\ \A j \in Issuer \ {i} : Active(j) => j = current
          THEN row' = Switched(i, current) /\ Activated(r)
          ELSE Finish(r) /\ UNCHANGED row
  /\ UNCHANGED <<process, certs>>

\* The rest of issueNodeCertificate, as far as it concerns issuers: the CA of
\* the process signs, the issuer settled on goes on record.
Sign(r) ==
  /\ req[r].pc = "sign"
  /\ certs' = certs \cup {[issuer |-> req[r].id, ca |-> ca, conf |-> conf.active, boot |-> boot]}
  /\ Finish(r)
  /\ UNCHANGED <<row, process>>

\* A statement fails, or the node's certificate cannot be inserted.
Fail(r) ==
  /\ req[r].pc # "idle"
  /\ Finish(r)
  /\ UNCHANGED <<row, process, certs>>

\* The process starts again; what its handlers were doing is lost, and so is a
\* CA it had made itself.
Restart(d) ==
  /\ boot < MaxBoot
  /\ boot' = boot + 1
  /\ conf' = d
  /\ ca' = OwnCA(d, boot + 1)
  /\ req' = [r \in Request |-> Idle]
  /\ UNCHANGED <<row, certs>>

Admin(r) == \/ \E c \in Create, goal \in {"create", "activate"} : BeginCreate(r, c, goal)
            \/ \E i \in Issuer : BeginActivate(r, i)

Ensure(r) == \/ BeginIssue(r) \/ Lookup(r) \/ AdoptByCA(r) \/ Insert(r) \/ GetActive(r)
             \/ BeginSwitch(r) \/ Switch(r) \/ Sign(r)

Next == \/ \E r \in Request : Admin(r) \/ Ensure(r) \/ Fail(r)
        \/ \E d \in Deployment : Restart(d)

Spec == Init /\ [][Next]_vars
-----------------------------------------------------------------------------
\* Two activations, an administrator's and that of a handler about to sign,
\* never leave two issuers active (ActivatePKIIssuer, and the index
\* uq_pki_issuers_single_active).
OneActiveIssuer == \A i, j \in Issuer : Active(i) /\ Active(j) => i = j

\* Whatever came between, ensureSigningIssuer names no issuer that has not been
\* activated: the issuer of every certificate is active or retired.
SignersActivated == \A c \in certs : Exists(c.issuer) /\ row[c.issuer].status # "pending"

\* The CA that signed a certificate is that of the issuer on record, across
\* activations while it was signed, adoption of an issuer by its CA, issuers created
\* by hand and restarts with other configurations.  Only the issuer that was
\* configured goes on record with another CA, and only if its row was there before:
\* made by hand, or in an earlier start with another CA.
SignedByIssuer ==
  \A c \in certs :
    \/ row[c.issuer].ca = c.ca
    \/ c.issuer = c.conf /\ (row[c.issuer].made = ByHand \/ row[c.issuer].made < c.boot)

\* An issuer stops being active only in the transaction that activates its
\* successor, and the successor names it (rotate_from_issuer_id): a failed or
\* rolled back activation leaves no gap.
RetiredIntoSuccessor ==
  [][\A i \in Issuer : Active(i) /\ ~Active(i)' =>
       \E j \in Issuer : Active(j)' /\ row'[j].from = i]_vars

\* validateIssuerTrust.
Trusted(i) == i = conf.active \/ i \in conf.previous \/ Active(i)

\* What the admin page says of "Activate issuer" (pki/issuers/page.tsx:120,
\* "Switch active issuer with overlap trust from previous set"): the
\* certificates that were trusted are trusted after the switch.  A new
\* configuration may end that trust, an activation may not.
SwitchKeepsTrust ==
  [][boot' = boot => \A c \in certs : Trusted(c.issuer) => Trusted(c.issuer)']_vars
=============================================================================
