----------------------- MODULE NodeCertificatesProofs -----------------------
(***************************************************************************)
(* What NodeCertificates does, for any nodes, uuids, handlers and times.   *)
(***************************************************************************)
EXTENDS NodeCertificates, TLAPS

\* A handler that revokes or inserts still holds a row of its own node, and one
\* that inserts a replacement has seen it revoked; the leaf it has signed is
\* younger than the row it replaces.
HandlerSound(r) ==
  LET h == req[r] IN
  /\ h.pc \in {"sign", "revoke", "insert", "withdraw"} /\ h.seen # NoCert =>
       h.seen \in Rows /\ cert[h.seen].node = h.node
  /\ h.pc \in {"revoke", "withdraw"} => h.seen # NoCert
  /\ h.pc = "insert" /\ h.seen # NoCert => cert[h.seen].revoked
  /\ h.pc \in {"revoke", "insert"} /\ h.seen # NoCert =>
       cert[h.seen].notAfter <= h.notAfter
  /\ h.pc \in {"revoke", "insert"} => h.notAfter <= now + TTL
  /\ h.todo \subseteq Rows
HandlersSound == \A r \in Request : HandlerSound(r)

\* No certificate outlives one signed now.
SignedBefore == \A c \in Rows : cert[c].notAfter <= now + TTL

IInv ==
  /\ TypeOK
  /\ OneActiveCert
  /\ GapExplained
  /\ Lineage
  /\ HandlersSound
  /\ SignedBefore
-----------------------------------------------------------------------------
LEMMA IdleType == Idle \in Handler /\ Idle.pc = "idle" /\ Idle.todo = {}
  <1>1. (CHOOSE n \in Node : TRUE) \in Node
    BY NodeAssumption
  <1> QED BY <1>1 DEF Idle, Handler, Op

LEMMA FinishedType ==
  ASSUME NEW h \in Handler
  PROVE  /\ Finished(h) \in Handler
         /\ Finished(h).pc \in {"idle", "next"}
         /\ Finished(h).todo \subseteq h.todo
  BY IdleType DEF Finished, Handler, Op, Idle

\* A row that exists is a record; NoRow is not.
LEMMA RowType ==
  ASSUME TypeOK, NEW c \in Rows
  PROVE  cert[c] \in CertRow
  BY DEF TypeOK, Rows

\* Every state the program reaches is well typed.
LEMMA TypeStep ==
  ASSUME TypeOK, HandlersSound, [Next]_vars
  PROVE  TypeOK'
  <1> USE TimeAssumption DEF TypeOK
  <1>1. ASSUME NEW r \in Request, NEW n \in Node, NEW c \in CertId \cup {NoCert},
               Begin(r, n, c)
        PROVE  TypeOK'
    BY <1>1, IdleType DEF Begin, Handler
  <1>2. ASSUME NEW r \in Request, StartSweep(r) PROVE TypeOK'
    BY <1>2, IdleType DEF StartSweep, Handler, Op, Rows
  <1>3. ASSUME NEW r \in Request, SweepNext(r) PROVE TypeOK'
    <2>1. PICK c \in req[r].todo :
            req' = [req EXCEPT ![r].pc = "sign", ![r].node = cert[c].node,
                               ![r].seen = c, ![r].todo = @ \ {c}]
      BY <1>3 DEF SweepNext
    <2>2. c \in Rows /\ c \in CertId
      BY DEF HandlersSound, HandlerSound, Handler
    <2>3. cert[c].node \in Node
      BY <2>2, RowType DEF CertRow
    <2> QED BY <1>3, <2>1, <2>2, <2>3 DEF SweepNext, Handler
  <1>4. ASSUME NEW r \in Request, SweepEnd(r) PROVE TypeOK'
    BY <1>4, IdleType DEF SweepEnd
  <1>5. ASSUME NEW r \in Request, Sign(r) PROVE TypeOK'
    <2>1. now + TTL \in Nat
      OBVIOUS
    <2> QED BY <1>5, <2>1 DEF Sign, SignUntil, Handler
  <1>6. ASSUME NEW c \in Rows PROVE [cert EXCEPT ![c].revoked = TRUE] \in [CertId -> CertRow \cup {NoRow}]
    <2>1. cert[c] \in CertRow
      BY RowType
    <2> QED BY <2>1 DEF CertRow, Rows
  <1>7. ASSUME NEW r \in Request, RevokeSeen(r) PROVE TypeOK'
    <2>1. req[r].seen \in Rows
      BY <1>7 DEF RevokeSeen, HandlersSound, HandlerSound
    <2>2. /\ cert' \in [CertId -> CertRow \cup {NoRow}]
          /\ now' = now /\ excused' = excused
      BY <1>6, <1>7, <2>1 DEF RevokeSeen
    <2>3. req' = [req EXCEPT ![r].pc = "insert"]
      BY <1>7 DEF RevokeSeen, Move
    <2>4. req' \in [Request -> Handler]
      BY <2>3 DEF Handler
    <2> QED BY <2>2, <2>4
  <1>8. ASSUME NEW r \in Request, Insert(r) PROVE TypeOK'
    <2>1. PICK c \in CertId \ Rows : Write(r, c)
      BY <1>8 DEF Insert
    <2>2. [node |-> req[r].node, revoked |-> FALSE, notAfter |-> req[r].notAfter,
           from |-> req[r].seen] \in CertRow
      BY DEF CertRow, Handler
    <2> QED BY <2>1, <2>2 DEF Write, Move, Handler
  <1>9. ASSUME NEW r \in Request, InsertConflict(r) \/ Audit(r) PROVE TypeOK'
    BY <1>9, FinishedType DEF InsertConflict, Audit, Finish
  <1>10. ASSUME NEW c \in CertId, RevokeGiven(c) PROVE TypeOK'
    <2>1. cert[c].node \in Node
      BY <1>10, RowType DEF RevokeGiven, CertRow
    <2> QED BY <1>6, <1>10, <2>1 DEF RevokeGiven, Withdraw
  <1>11. ASSUME NEW r \in Request, NEW n \in Node, StartRevokeActive(r, n) PROVE TypeOK'
    <2>1. PICK c \in Active(n) :
            req' = [req EXCEPT ![r] = [Idle EXCEPT !.pc = "withdraw", !.op = "withdraw",
                                                   !.node = n, !.seen = c]]
      BY <1>11 DEF StartRevokeActive
    <2>2. c \in CertId
      BY DEF Active, Rows
    <2>3. [Idle EXCEPT !.pc = "withdraw", !.op = "withdraw", !.node = n, !.seen = c] \in Handler
      BY <2>2, IdleType DEF Handler, Op
    <2> QED BY <1>11, <2>1, <2>3 DEF StartRevokeActive
  <1>12. ASSUME NEW r \in Request, RevokeActive(r) PROVE TypeOK'
    <2>1. req[r].seen \in Rows
      BY <1>12 DEF RevokeActive, HandlersSound, HandlerSound
    <2>2. cert[req[r].seen].node \in Node
      BY <2>1, RowType DEF CertRow
    <2>3. req' \in [Request -> Handler]
      BY <1>12, FinishedType DEF RevokeActive, Finish
    <2> QED BY <1>6, <1>12, <2>1, <2>2, <2>3 DEF RevokeActive, Withdraw
  <1>13. ASSUME NEW r \in Request, Fail(r) PROVE TypeOK'
    BY <1>13, FinishedType DEF Fail, Finish, Stranded
  <1>14. CASE Restart
    BY <1>14, IdleType DEF Restart, Stranded
  <1>15. CASE Tick
    BY <1>15 DEF Tick
  <1>16. CASE UNCHANGED vars
    BY <1>16 DEF vars
  <1>17. ASSUME NEW r \in Request, NEW n \in Node,
                \/ StartIssue(r, n) \/ StartRotate(r, n) \/ StartEnsure(r, n)
                \/ \E force \in BOOLEAN : StartRenew(r, n, force)
         PROVE  TypeOK'
    BY <1>1, <1>17 DEF StartIssue, StartRotate, StartEnsure, StartRenew, Active, Rows
  <1> QED
    BY <1>2, <1>3, <1>4, <1>5, <1>7, <1>8, <1>9, <1>10, <1>11, <1>12, <1>13, <1>14,
       <1>15, <1>16, <1>17 DEF Next, Arrive, Step
-----------------------------------------------------------------------------
\* A step keeps every row, but for revoking it, and the clock does not go back.
LEMMA StepKeepsRows ==
  ASSUME TypeOK, HandlersSound, [Next]_vars
  PROVE  /\ \A c \in CertId : RowKept(c)
         /\ now <= now'
  <1> USE DEF TypeOK
  <1>1. ASSUME NEW d \in Rows, cert' = [cert EXCEPT ![d].revoked = TRUE]
        PROVE  \A c \in CertId : RowKept(c)
    <2>1. cert[d] \in CertRow
      BY RowType
    <2>2. cert'[d] = [cert[d] EXCEPT !.revoked = TRUE] /\ d \in CertId
      BY <1>1 DEF Rows
    <2>3. cert'[d] \in CertRow /\ cert'[d].node = cert[d].node /\ cert'[d].from = cert[d].from
          /\ cert'[d].notAfter = cert[d].notAfter /\ cert'[d].revoked
      BY <2>1, <2>2 DEF CertRow
    <2>4. \A c \in CertId \ {d} : cert'[c] = cert[c]
      BY <1>1
    <2> QED BY <2>3, <2>4, NoRowAssumption DEF RowKept, Rows
  <1>2. ASSUME UNCHANGED cert PROVE \A c \in CertId : RowKept(c)
    BY <1>2 DEF RowKept, Rows
  <1>3. ASSUME NEW r \in Request, RevokeSeen(r) PROVE (\A c \in CertId : RowKept(c)) /\ now <= now'
    <2>1. req[r].seen \in Rows
      BY <1>3 DEF RevokeSeen, HandlersSound, HandlerSound
    <2>2. cert' = [cert EXCEPT ![req[r].seen].revoked = TRUE] /\ now' = now
      BY <1>3 DEF RevokeSeen
    <2>3. \A c \in CertId : RowKept(c)
      BY <1>1, <2>1, <2>2
    <2> QED BY <2>2, <2>3
  <1>4. ASSUME NEW r \in Request, Insert(r) PROVE (\A c \in CertId : RowKept(c)) /\ now <= now'
    BY <1>4 DEF Insert, Write, RowKept, Rows
  <1>5. ASSUME NEW c \in CertId, RevokeGiven(c) PROVE (\A d \in CertId : RowKept(d)) /\ now <= now'
    <2>1. c \in Rows /\ cert' = [cert EXCEPT ![c].revoked = TRUE] /\ now' = now
      BY <1>5 DEF RevokeGiven, Withdraw
    <2>2. \A d \in CertId : RowKept(d)
      BY <1>1, <2>1
    <2> QED BY <2>1, <2>2
  <1>6. ASSUME NEW r \in Request, RevokeActive(r) PROVE (\A c \in CertId : RowKept(c)) /\ now <= now'
    <2>1. req[r].seen \in Rows
      BY <1>6 DEF RevokeActive, HandlersSound, HandlerSound
    <2> QED BY <1>1, <1>2, <1>6, <2>1 DEF RevokeActive, Withdraw
  <1>7. CASE Tick
    BY <1>2, <1>7 DEF Tick
  <1>8. CASE Restart \/ UNCHANGED vars
    BY <1>2, <1>8 DEF Restart, vars
  <1>9. ASSUME NEW r \in Request,
               Arrive(r) \/ SweepNext(r) \/ SweepEnd(r) \/ Sign(r) \/ InsertConflict(r) \/ Audit(r) \/ Fail(r)
        PROVE  (\A c \in CertId : RowKept(c)) /\ now <= now'
    <2>1. UNCHANGED <<cert, now>>
      BY <1>9 DEF Arrive, StartIssue, StartRotate, StartRenew, StartEnsure, StartSweep,
                  StartRevokeActive, Begin, SweepNext, SweepEnd, Sign, SignUntil,
                  InsertConflict, Audit, Fail
    <2> QED BY <1>2, <2>1
  <1> QED
    BY <1>3, <1>4, <1>5, <1>6, <1>7, <1>8, <1>9 DEF Next, Step

\* A handler that is not moved by the step stays sound.
LEMMA HandlerStaysSound ==
  ASSUME TypeOK, TypeOK', \A c \in CertId : RowKept(c), now <= now',
         NEW r \in Request, HandlerSound(r), req'[r] = req[r]
  PROVE  HandlerSound(r)'
  <1>1. \A c \in Rows : /\ c \in Rows'
                        /\ cert'[c].node = cert[c].node
                        /\ cert[c].revoked => cert'[c].revoked
                        /\ cert'[c].notAfter = cert[c].notAfter
    BY DEF RowKept, Rows
  <1>2. now + TTL <= now' + TTL /\ now \in Nat /\ now' \in Nat
    <2>1. now \in Nat /\ now' \in Nat
      BY DEF TypeOK
    <2>2. TTL \in Nat
      BY TimeAssumption
    <2>3. \A t, u, v \in Nat : t <= u => t + v <= u + v
      OBVIOUS
    <2> QED BY <2>1, <2>2, <2>3
  <1>3. req[r].notAfter \in Nat
    BY DEF TypeOK, Handler
  <1>4. req[r].pc \in {"revoke", "insert"} => req'[r].notAfter <= now' + TTL
    <2>1. req[r].pc \in {"revoke", "insert"} => req[r].notAfter <= now + TTL
      BY DEF HandlerSound
    <2>2. now + TTL \in Nat /\ now' + TTL \in Nat
      BY <1>2, TimeAssumption
    <2> QED BY <1>2, <1>3, <2>1, <2>2
  <1> QED BY <1>1, <1>4 DEF HandlerSound
-----------------------------------------------------------------------------
\* A handler that is idle, or between two certificates of a sweep, holds no row
\* but those it still has to renew.
LEMMA RestingHandler ==
  ASSUME TypeOK', NEW r \in Request, req'[r].pc \in {"idle", "next", "audit"},
         req'[r].todo \subseteq Rows'
  PROVE  HandlerSound(r)'
  BY DEF HandlerSound

LEMMA MovedHandlerSound ==
  ASSUME IInv, TypeOK', \A c \in CertId : RowKept(c), now <= now',
         NEW r \in Request, Arrive(r) \/ Step(r) \/ Fail(r)
  PROVE  HandlerSound(r)'
  <1> USE DEF IInv
  <1>a. Rows \subseteq Rows' /\ HandlerSound(r) /\ req[r] \in Handler /\ req[r].todo \subseteq Rows
    BY DEF RowKept, Rows, HandlersSound, HandlerSound, TypeOK
  <1>1. ASSUME NEW n \in Node, NEW c \in Active(n) \cup {NoCert}, Begin(r, n, c)
        PROVE  HandlerSound(r)'
    <2>1. /\ req'[r].pc = "sign" /\ req'[r].node = n /\ req'[r].seen = c
          /\ req'[r].todo = {} /\ UNCHANGED <<cert, now>>
      BY <1>1, IdleType DEF Begin, Handler, TypeOK
    <2> QED BY <2>1 DEF HandlerSound, Active, Rows
  <1>2. ASSUME NEW n \in Node,
               \/ StartIssue(r, n) \/ StartRotate(r, n) \/ StartEnsure(r, n)
               \/ \E force \in BOOLEAN : StartRenew(r, n, force)
        PROVE  HandlerSound(r)'
    <2>1. \E c \in Active(n) \cup {NoCert} : Begin(r, n, c)
      BY <1>2 DEF StartIssue, StartRotate, StartEnsure, StartRenew, ReadsActive
    <2> QED BY <1>1, <2>1
  <1>3. CASE StartSweep(r)
    <2>1. req'[r].pc = "next" /\ req'[r].todo \subseteq Rows
      BY <1>3, IdleType DEF StartSweep, Handler, TypeOK
    <2> QED BY <1>a, <2>1, RestingHandler
  <1>4. CASE SweepNext(r)
    <2>1. PICK c \in req[r].todo :
            req' = [req EXCEPT ![r].pc = "sign", ![r].node = cert[c].node,
                               ![r].seen = c, ![r].todo = @ \ {c}]
      BY <1>4 DEF SweepNext
    <2>2. /\ req'[r].pc = "sign" /\ req'[r].node = cert[c].node /\ req'[r].seen = c
          /\ req'[r].todo \subseteq req[r].todo /\ UNCHANGED <<cert, now>>
      BY <1>4, <2>1, <1>a DEF SweepNext, Handler, TypeOK
    <2> QED BY <1>a, <2>2 DEF HandlerSound, Rows
  <1>5. CASE Sign(r)
    <2>1. /\ req'[r].pc = IF req[r].seen = NoCert THEN "insert" ELSE "revoke"
          /\ req'[r].node = req[r].node /\ req'[r].seen = req[r].seen
          /\ req'[r].notAfter = now + TTL /\ req'[r].todo = req[r].todo
          /\ UNCHANGED <<cert, now>> /\ req[r].pc = "sign"
      BY <1>5 DEF Sign, SignUntil, TypeOK, Handler
    <2>2. now + TTL <= now + TTL
      BY TimeAssumption DEF TypeOK
    <2> QED BY <1>a, <2>1, <2>2 DEF HandlerSound, Rows, SignedBefore
  <1>6. CASE RevokeSeen(r)
    <2>1. /\ req'[r].pc = "insert" /\ req'[r].node = req[r].node /\ req'[r].seen = req[r].seen
          /\ req'[r].notAfter = req[r].notAfter /\ req'[r].todo = req[r].todo /\ now' = now
          /\ req[r].pc = "revoke"
      BY <1>6 DEF RevokeSeen, Move, TypeOK, Handler
    <2>2. req[r].seen \in Rows /\ cert[req[r].seen].node = req[r].node
          /\ cert[req[r].seen].notAfter <= req[r].notAfter /\ req[r].notAfter <= now + TTL
      BY <1>a, <2>1 DEF HandlerSound
    <2>3. cert'[req[r].seen].revoked
      BY <1>6, <2>2, RowType DEF RevokeSeen, TypeOK, Rows, CertRow
    <2>4. req[r].seen \in Rows' /\ cert'[req[r].seen].node = req[r].node
          /\ cert'[req[r].seen].notAfter <= req[r].notAfter
      BY <2>2 DEF RowKept, Rows
    <2> QED BY <1>a, <2>1, <2>2, <2>3, <2>4 DEF HandlerSound
  <1>7. CASE Insert(r)
    <2>1. req'[r].pc = "audit" /\ req'[r].todo = req[r].todo
      BY <1>7, <1>a DEF Insert, Write, Move, TypeOK, Handler
    <2> QED BY <1>a, <2>1, RestingHandler
  <1>8. CASE InsertConflict(r) \/ Audit(r) \/ RevokeActive(r) \/ Fail(r)
    <2>1. req'[r] = Finished(req[r])
      BY <1>8 DEF InsertConflict, Audit, RevokeActive, Fail, Finish, TypeOK
    <2> QED BY <1>a, <2>1, FinishedType, RestingHandler
  <1>9. CASE SweepEnd(r)
    <2>1. req'[r] = Idle
      BY <1>9 DEF SweepEnd, TypeOK
    <2> QED BY <2>1, IdleType, RestingHandler
  <1>10. ASSUME NEW n \in Node, StartRevokeActive(r, n) PROVE HandlerSound(r)'
    <2>1. PICK c \in Active(n) :
            req' = [req EXCEPT ![r] = [Idle EXCEPT !.pc = "withdraw", !.op = "withdraw",
                                                   !.node = n, !.seen = c]]
      BY <1>10 DEF StartRevokeActive
    <2>2. /\ req'[r].pc = "withdraw" /\ req'[r].node = n /\ req'[r].seen = c
          /\ req'[r].todo = {} /\ UNCHANGED <<cert, now>>
      BY <1>10, <2>1, IdleType DEF StartRevokeActive, Handler, TypeOK
    <2> QED BY <2>2, NoCertAssumption DEF HandlerSound, Active, Rows
  <1> QED
    BY <1>2, <1>3, <1>4, <1>5, <1>6, <1>7, <1>8, <1>9, <1>10 DEF Arrive, Step

LEMMA HandlersStep ==
  ASSUME IInv, [Next]_vars, TypeOK', \A c \in CertId : RowKept(c), now <= now'
  PROVE  HandlersSound'
  <1> SUFFICES ASSUME NEW q \in Request PROVE HandlerSound(q)'
    BY DEF HandlersSound
  <1> USE DEF IInv
  <1>1. HandlerSound(q)
    BY DEF HandlersSound
  <1>2. ASSUME NEW r \in Request, Arrive(r) \/ Step(r) \/ Fail(r)
        PROVE  HandlerSound(q)'
    <2>1. CASE q = r
      BY <1>2, <2>1, MovedHandlerSound
    <2>2. CASE q # r
      <3>1. req'[q] = req[q]
        BY <1>2, <2>2 DEF TypeOK, Arrive, Step, Fail, Finish, Move, Begin, StartIssue, StartRotate,
           StartRenew, StartEnsure, StartSweep, StartRevokeActive, SweepNext, SweepEnd, Sign,
           SignUntil, RevokeSeen, Insert, Write, InsertConflict, Audit, RevokeActive
      <3> QED BY <1>1, <3>1, HandlerStaysSound
    <2> QED BY <2>1, <2>2
  <1>3. CASE Restart
    <2>1. req'[q] = Idle
      BY <1>3 DEF Restart
    <2> QED BY <2>1, IdleType, RestingHandler
  <1>4. CASE Tick \/ UNCHANGED vars \/ \E c \in CertId : RevokeGiven(c)
    <2>1. req'[q] = req[q]
      BY <1>4 DEF Tick, vars, RevokeGiven
    <2> QED BY <1>1, <2>1, HandlerStaysSound
  <1> QED BY <1>2, <1>3, <1>4 DEF Next
-----------------------------------------------------------------------------
\* A step leaves the table alone, revokes one row, or is an Insert.
LEMMA StepShape ==
  ASSUME TypeOK, HandlersSound, [Next]_vars
  PROVE  \/ UNCHANGED cert
         \/ \E d \in Rows : cert' = [cert EXCEPT ![d].revoked = TRUE]
         \/ \E r \in Request : Insert(r)
  <1>1. ASSUME NEW r \in Request, Arrive(r) \/ SweepNext(r) \/ SweepEnd(r) \/ Sign(r)
                                  \/ InsertConflict(r) \/ Audit(r) \/ Fail(r)
        PROVE  UNCHANGED cert
    BY <1>1 DEF Arrive, StartIssue, StartRotate, StartRenew, StartEnsure, StartSweep,
                StartRevokeActive, Begin, SweepNext, SweepEnd, Sign, SignUntil,
                InsertConflict, Audit, Fail
  <1>2. ASSUME NEW r \in Request, RevokeSeen(r) \/ RevokeActive(r)
        PROVE  UNCHANGED cert \/ \E d \in Rows : cert' = [cert EXCEPT ![d].revoked = TRUE]
    <2>1. req[r].seen \in Rows
      BY <1>2 DEF RevokeSeen, RevokeActive, HandlersSound, HandlerSound
    <2> QED BY <1>2, <2>1 DEF RevokeSeen, RevokeActive, Withdraw
  <1>3. ASSUME NEW c \in CertId, RevokeGiven(c)
        PROVE  \E d \in Rows : cert' = [cert EXCEPT ![d].revoked = TRUE]
    BY <1>3 DEF RevokeGiven, Withdraw
  <1>4. CASE Restart \/ Tick \/ UNCHANGED vars
    BY <1>4 DEF Restart, Tick, vars
  <1> QED BY <1>1, <1>2, <1>3, <1>4 DEF Next, Step

\* The row an Insert adds is the one its handler has prepared.
LEMMA InsertedRow ==
  ASSUME TypeOK, NEW r \in Request, Insert(r)
  PROVE  \E c \in CertId \ Rows :
           /\ req[r].pc = "insert" /\ Active(req[r].node) = {} /\ req[r].node \in Node
           /\ Rows' = Rows \cup {c}
           /\ \A d \in Rows : cert'[d] = cert[d]
           /\ cert'[c] = [node |-> req[r].node, revoked |-> FALSE,
                          notAfter |-> req[r].notAfter, from |-> req[r].seen]
           /\ now' = now
  <1> USE DEF TypeOK
  <1>1. PICK c \in CertId \ Rows : Write(r, c)
    BY DEF Insert
  <1>2. [node |-> req[r].node, revoked |-> FALSE,
         notAfter |-> req[r].notAfter, from |-> req[r].seen] \in CertRow
    BY DEF CertRow, Handler
  <1>3. Rows' = Rows \cup {c}
    BY <1>1, <1>2, NoRowAssumption DEF Write, Rows
  <1>4. /\ \A d \in Rows : cert'[d] = cert[d]
        /\ cert'[c] = [node |-> req[r].node, revoked |-> FALSE,
                       notAfter |-> req[r].notAfter, from |-> req[r].seen]
        /\ now' = now
    BY <1>1 DEF Write, Move, Rows
  <1>5. req[r].node \in Node
    BY DEF Handler
  <1> QED BY <1>3, <1>4, <1>5 DEF Insert

\* Revoking a row changes that row only.
LEMMA RevokedRow ==
  ASSUME TypeOK, NEW d \in Rows, cert' = [cert EXCEPT ![d].revoked = TRUE]
  PROVE  /\ Rows' = Rows
         /\ \A c \in Rows \ {d} : cert'[c] = cert[c]
         /\ cert'[d].node = cert[d].node /\ cert'[d].revoked
  <1>1. cert[d] \in CertRow
    BY RowType
  <1>2. cert'[d] \in CertRow /\ cert'[d].node = cert[d].node /\ cert'[d].revoked
    BY <1>1 DEF CertRow, TypeOK, Rows
  <1>3. \A c \in CertId \ {d} : cert'[c] = cert[c]
    BY DEF TypeOK
  <1> QED BY <1>2, <1>3, NoRowAssumption DEF Rows

LEMMA NewRows ==
  ASSUME IInv, [Next]_vars
  PROVE  \/ Rows' = Rows
         \/ \E r \in Request : \E c \in CertId \ Rows :
              /\ req[r].pc = "insert" /\ Active(req[r].node) = {} /\ req[r].node \in Node
              /\ Rows' = Rows \cup {c}
              /\ \A d \in Rows : cert'[d] = cert[d]
              /\ cert'[c] = [node |-> req[r].node, revoked |-> FALSE,
                             notAfter |-> req[r].notAfter, from |-> req[r].seen]
              /\ now' = now
  <1>1. UNCHANGED cert => Rows' = Rows
    BY DEF Rows
  <1> QED BY <1>1, StepShape, InsertedRow, RevokedRow DEF IInv

LEMMA OneActiveStep ==
  ASSUME IInv, [Next]_vars, \A c \in CertId : RowKept(c)
  PROVE  OneActiveCert'
  <1>1. CASE Rows' = Rows
    BY <1>1 DEF IInv, OneActiveCert, RowKept, Rows
  <1>2. ASSUME NEW r \in Request, NEW c \in CertId \ Rows, Active(req[r].node) = {},
               Rows' = Rows \cup {c}, \A d \in Rows : cert'[d] = cert[d],
               cert'[c] = [node |-> req[r].node, revoked |-> FALSE,
                           notAfter |-> req[r].notAfter, from |-> req[r].seen]
        PROVE  OneActiveCert'
    BY <1>2 DEF IInv, OneActiveCert, Active
  <1> QED BY <1>1, <1>2, NewRows

LEMMA LineageStep ==
  ASSUME IInv, [Next]_vars, TypeOK', \A c \in CertId : RowKept(c)
  PROVE  Lineage'
  <1>1. ASSUME NEW c \in Rows, c \in Rows', cert'[c].from # NoCert
        PROVE  /\ cert'[c].from \in Rows' \ {c}
               /\ cert'[cert'[c].from].node = cert'[c].node
               /\ cert'[cert'[c].from].revoked
               /\ cert'[cert'[c].from].notAfter <= cert'[c].notAfter
    BY <1>1 DEF IInv, Lineage, RowKept, Rows
  <1>2. CASE Rows' = Rows
    BY <1>1, <1>2 DEF Lineage
  <1>3. ASSUME NEW r \in Request, NEW c \in CertId \ Rows, req[r].pc = "insert",
               Rows' = Rows \cup {c}, \A d \in Rows : cert'[d] = cert[d],
               cert'[c] = [node |-> req[r].node, revoked |-> FALSE,
                           notAfter |-> req[r].notAfter, from |-> req[r].seen]
        PROVE  Lineage'
    <2>1. req[r].seen # NoCert =>
            /\ req[r].seen \in Rows /\ cert[req[r].seen].node = req[r].node
            /\ cert[req[r].seen].revoked /\ cert[req[r].seen].notAfter <= req[r].notAfter
      BY <1>3 DEF IInv, HandlersSound, HandlerSound
    <2> QED BY <1>1, <1>3, <2>1 DEF Lineage
  <1> QED BY <1>2, <1>3, NewRows

LEMMA SignedBeforeStep ==
  ASSUME IInv, [Next]_vars, TypeOK', \A c \in CertId : RowKept(c), now <= now'
  PROVE  SignedBefore'
  <1>1. TTL \in Nat /\ now \in Nat /\ now' \in Nat
    BY TimeAssumption DEF IInv, TypeOK
  <1>2. \A n \in Nat : n <= now + TTL => n <= now' + TTL
    <2>1. \A n, t, u, v \in Nat : t <= u /\ n <= t + v => n <= u + v
      OBVIOUS
    <2> QED BY <1>1, <2>1
  <1>3. \A c \in Rows : cert[c].notAfter \in Nat /\ cert[c].notAfter <= now + TTL
    BY RowType DEF IInv, SignedBefore, CertRow
  <1>4. \A c \in Rows : cert'[c].notAfter <= now' + TTL
    BY <1>2, <1>3 DEF RowKept, Rows
  <1>5. ASSUME NEW r \in Request, NEW c \in CertId \ Rows, req[r].pc = "insert",
               Rows' = Rows \cup {c}, now' = now,
               cert'[c] = [node |-> req[r].node, revoked |-> FALSE,
                           notAfter |-> req[r].notAfter, from |-> req[r].seen]
        PROVE  SignedBefore'
    <2>1. req[r].notAfter <= now + TTL
      BY <1>5 DEF IInv, HandlersSound, HandlerSound
    <2> QED BY <1>4, <1>5, <2>1 DEF SignedBefore
  <1> QED BY <1>4, <1>5, NewRows DEF SignedBefore
-----------------------------------------------------------------------------
\* Revoking a row of one node opens no gap at another.
LEMMA RevokeElsewhere ==
  ASSUME TypeOK, NEW d \in Rows, cert' = [cert EXCEPT ![d].revoked = TRUE],
         NEW n \in Node, cert[d].node # n
  PROVE  Gap(n)' => Gap(n)
  <1>1. /\ Rows' = Rows
        /\ \A c \in Rows : cert'[c].node = cert[c].node
        /\ \A c \in Rows : c # d => cert'[c] = cert[c]
    BY RevokedRow
  <1>2. \A c \in Rows : cert[c].node = n => cert'[c] = cert[c]
    BY <1>1
  <1>3. Active(n)' = Active(n)
    BY <1>1, <1>2 DEF Active
  <1>4. (\E c \in Rows : cert[c].node = n)' => \E c \in Rows : cert[c].node = n
    BY <1>1
  <1> QED BY <1>3, <1>4 DEF Gap

LEMMA GapStep ==
  ASSUME IInv, [Next]_vars
  PROVE  GapExplained'
  <1> SUFFICES ASSUME NEW n \in Node
               PROVE  Gap(n)' => n \in excused' \/ InsertsFor(n)' # {}
    BY DEF GapExplained
  <1> USE DEF IInv, TypeOK
  <1>1. Gap(n) => n \in excused \/ InsertsFor(n) # {}
    BY DEF GapExplained
  <1>2. UNCHANGED cert => (Gap(n)' => Gap(n))
    BY DEF Gap, Active, Rows
  <1>3. ASSUME NEW r \in Request, Insert(r)
        PROVE  Gap(n)' => n \in excused' \/ InsertsFor(n)' # {}
    <2>1. PICK c \in CertId \ Rows : Write(r, c)
      BY <1>3 DEF Insert
    <2>2. [node |-> req[r].node, revoked |-> FALSE,
           notAfter |-> req[r].notAfter, from |-> req[r].seen] \in CertRow
      BY DEF CertRow, Handler
    <2>3. CASE n = req[r].node
      <3>1. c \in Active(n)'
        BY <2>1, <2>2, <2>3, NoRowAssumption DEF Write, Active, Rows
      <3> QED BY <3>1 DEF Gap
    <2>4. CASE n # req[r].node
      <3>1. Gap(n)' => Gap(n)
        BY <2>1, <2>2, <2>4, NoRowAssumption DEF Write, Gap, Active, Rows
      <3>2. InsertsFor(n) \subseteq InsertsFor(n)'
        BY <2>1, <2>4 DEF Write, Move, InsertsFor
      <3>3. n \in excused => n \in excused'
        BY <2>1, <2>4 DEF Write
      <3> QED BY <1>1, <3>1, <3>2, <3>3
    <2> QED BY <2>3, <2>4
  <1>4. ASSUME NEW r \in Request, RevokeSeen(r)
        PROVE  Gap(n)' => n \in excused' \/ InsertsFor(n)' # {}
    <2>1. req[r].seen \in Rows /\ cert[req[r].seen].node = req[r].node
      BY <1>4 DEF RevokeSeen, HandlersSound, HandlerSound
    <2>2. InsertsFor(n) \subseteq InsertsFor(n)' /\ (n = req[r].node => r \in InsertsFor(n)')
      BY <1>4 DEF RevokeSeen, Move, InsertsFor, Handler
    <2>3. n # req[r].node => (Gap(n)' => Gap(n))
      BY <1>4, <2>1, RevokeElsewhere DEF RevokeSeen
    <2> QED BY <1>1, <1>4, <2>2, <2>3 DEF RevokeSeen
  <1>5. ASSUME NEW c \in Rows, Withdraw(c), InsertsFor(n) \subseteq InsertsFor(n)'
        PROVE  Gap(n)' => n \in excused' \/ InsertsFor(n)' # {}
    <2>1. n # cert[c].node => (Gap(n)' => Gap(n))
      BY <1>5, RevokeElsewhere DEF Withdraw
    <2> QED BY <1>1, <1>5, <2>1 DEF Withdraw
  <1>6. ASSUME NEW c \in CertId, RevokeGiven(c)
        PROVE  Gap(n)' => n \in excused' \/ InsertsFor(n)' # {}
    BY <1>5, <1>6 DEF RevokeGiven, InsertsFor
  <1>7. ASSUME NEW r \in Request, req[r].pc # "insert", UNCHANGED <<cert, excused>>,
               \A q \in Request \ {r} : req'[q] = req[q]
        PROVE  Gap(n)' => n \in excused' \/ InsertsFor(n)' # {}
    <2>1. InsertsFor(n) \subseteq InsertsFor(n)'
      BY <1>7 DEF InsertsFor
    <2> QED BY <1>1, <1>2, <1>7, <2>1
  <1>8. ASSUME NEW r \in Request, RevokeActive(r)
        PROVE  Gap(n)' => n \in excused' \/ InsertsFor(n)' # {}
    <2>1. req[r].seen \in Rows /\ req[r].pc = "withdraw"
      BY <1>8 DEF RevokeActive, HandlersSound, HandlerSound
    <2>2. \A q \in Request \ {r} : req'[q] = req[q]
      BY <1>8 DEF RevokeActive, Finish
    <2>3. InsertsFor(n) \subseteq InsertsFor(n)'
      BY <2>1, <2>2 DEF InsertsFor
    <2> QED BY <1>5, <1>7, <1>8, <2>1, <2>2, <2>3 DEF RevokeActive
  <1>9. ASSUME NEW r \in Request, InsertConflict(r)
        PROVE  Gap(n)' => n \in excused' \/ InsertsFor(n)' # {}
    <2>1. CASE n = req[r].node
      BY <1>2, <1>9, <2>1 DEF InsertConflict, Gap
    <2>2. CASE n # req[r].node
      BY <1>1, <1>2, <1>9, <2>2 DEF InsertConflict, Finish, InsertsFor
    <2> QED BY <2>1, <2>2
  <1>10. ASSUME NEW r \in Request, Fail(r)
         PROVE  Gap(n)' => n \in excused' \/ InsertsFor(n)' # {}
    <2>1. InsertsFor(n) \ {r} \subseteq InsertsFor(n)'
      BY <1>10 DEF Fail, Finish, InsertsFor
    <2>2. Gap(n) /\ InsertsFor(n) # {} /\ InsertsFor(n) \subseteq {r} => n \in Stranded({r})
      BY DEF Stranded, Gap
    <2> QED BY <1>1, <1>2, <1>10, <2>1, <2>2 DEF Fail
  <1>11. CASE Restart
    <2>1. Gap(n) /\ InsertsFor(n) # {} => n \in Stranded(Request)
      BY DEF Stranded, Gap, InsertsFor
    <2> QED BY <1>1, <1>2, <1>11, <2>1 DEF Restart
  <1>12. CASE Tick \/ UNCHANGED vars
    BY <1>1, <1>2, <1>12 DEF Tick, vars, InsertsFor
  <1>13. ASSUME NEW r \in Request, Arrive(r) \/ SweepNext(r) \/ SweepEnd(r) \/ Sign(r) \/ Audit(r)
         PROVE  Gap(n)' => n \in excused' \/ InsertsFor(n)' # {}
    <2>1. req[r].pc # "insert" /\ UNCHANGED <<cert, excused>>
      BY <1>13 DEF Arrive, StartIssue, StartRotate, StartRenew, StartEnsure, StartSweep,
                   StartRevokeActive, Begin, SweepNext, SweepEnd, Sign, SignUntil, Audit
    <2>2. \A q \in Request \ {r} : req'[q] = req[q]
      BY <1>13 DEF Arrive, StartIssue, StartRotate, StartRenew, StartEnsure, StartSweep,
                   StartRevokeActive, Begin, SweepNext, SweepEnd, Sign, SignUntil, Audit, Finish
    <2> QED BY <1>7, <2>1, <2>2
  <1> QED
    BY <1>3, <1>4, <1>6, <1>8, <1>9, <1>10, <1>11, <1>12, <1>13 DEF Next, Step
-----------------------------------------------------------------------------
LEMMA IInvInit == Init => IInv
  <1> SUFFICES ASSUME Init PROVE IInv
    OBVIOUS
  <1>1. TypeOK
    BY IdleType DEF Init, TypeOK
  <1>2. Rows = {}
    BY DEF Init, Rows
  <1>3. HandlersSound
    BY IdleType DEF Init, HandlersSound, HandlerSound
  <1> QED BY <1>1, <1>2, <1>3 DEF IInv, OneActiveCert, GapExplained, Gap, Lineage, SignedBefore

LEMMA IInvStep == IInv /\ [Next]_vars => IInv'
  <1> SUFFICES ASSUME IInv, [Next]_vars PROVE IInv'
    OBVIOUS
  <1>1. TypeOK /\ HandlersSound
    BY DEF IInv
  <1>2. TypeOK'
    BY <1>1, TypeStep
  <1>3. (\A c \in CertId : RowKept(c)) /\ now <= now'
    BY <1>1, StepKeepsRows
  <1> QED
    BY <1>2, <1>3, HandlersStep, OneActiveStep, LineageStep, SignedBeforeStep, GapStep DEF IInv

\* The inductive invariant of overlapping certificate handlers.
THEOREM Invariance == Spec => []IInv
  BY IInvInit, IInvStep, PTL DEF Spec

\* TypeOK: the state of the table and of every handler is well typed.
THEOREM TypeCorrect == Spec => []TypeOK
  <1>1. IInv => TypeOK
    BY DEF IInv
  <1> QED BY <1>1, Invariance, PTL

\* OneActiveCert: at most one unrevoked certificate per node, however many
\* issuing handlers overlap.
THEOREM OneActive == Spec => []OneActiveCert
  <1>1. IInv => OneActiveCert
    BY DEF IInv
  <1> QED BY <1>1, Invariance, PTL

\* GapExplained: a node without a certificate is waiting for a handler about to
\* insert one, or an operator or a stopped handler took it.
THEOREM GapsAreExplained == Spec => []GapExplained
  <1>1. IInv => GapExplained
    BY DEF IInv
  <1> QED BY <1>1, Invariance, PTL

\* Lineage: rotate_from_cert_id names a revoked, older certificate of the node.
THEOREM LineageHolds == Spec => []Lineage
  <1>1. IInv => Lineage
    BY DEF IInv
  <1> QED BY <1>1, Invariance, PTL

\* HistoryKept: no statement of any handler removes, revives or rewrites a row.
THEOREM HistoryIsKept == Spec => HistoryKept
  <1>1. IInv /\ [Next]_vars => [\A c \in CertId : RowKept(c)]_vars
    BY StepKeepsRows DEF IInv
  <1> QED BY <1>1, Invariance, PTL DEF Spec, HistoryKept
-----------------------------------------------------------------------------
\* SlotOf picks the one active certificate of the node.
LEMMA SlotOfActive ==
  ASSUME OneActiveCert, NEW n \in Node, NEW c \in Active(n)
  PROVE  SlotOf(n) = c
  <1>1. \A d \in Active(n) : d = c
    BY DEF OneActiveCert, Active
  <1> QED BY <1>1 DEF SlotOf

LEMMA SlotStep ==
  ASSUME IInv, IInv', [Next]_vars
  PROVE  [Slot!Next]_(Slot!slotVars)
  <1> USE DEF IInv
  <1>1. CASE UNCHANGED cert
    <2>1. UNCHANGED Rows /\ \A n \in Node : SlotOf(n)' = SlotOf(n)
      BY <1>1 DEF Rows, SlotOf, Active
    <2> QED BY <2>1 DEF Slot!slotVars
  <1>2. ASSUME NEW d \in Rows, cert' = [cert EXCEPT ![d].revoked = TRUE]
        PROVE  [Slot!Next]_(Slot!slotVars)
    <2>1. PICK m \in Node : m = cert[d].node
      BY RowType DEF CertRow
    <2>2. Rows' = Rows /\ \A n \in Node : Active(n)' = Active(n) \ {d}
      BY <1>2, RevokedRow DEF Active
    <2>3. ASSUME NEW n \in Node, d \notin Active(n) PROVE SlotOf(n)' = SlotOf(n)
      <3>1. Active(n)' = Active(n)
        BY <2>2, <2>3
      <3> QED BY <3>1 DEF SlotOf
    <2>4. CASE cert[d].revoked
      <3>1. \A n \in Node : SlotOf(n)' = SlotOf(n)
        BY <2>3, <2>4 DEF Active
      <3> QED BY <2>2, <3>1 DEF Slot!slotVars
    <2>5. CASE ~cert[d].revoked
      <3>1. d \in Active(m) /\ SlotOf(m) = d
        BY <2>1, <2>5, SlotOfActive DEF Active
      <3>2. Active(m) = {d}
        BY <3>1 DEF OneActiveCert, Active
      <3>3. SlotOf(m)' = NoCert
        BY <2>1, <2>2, <3>2 DEF SlotOf
      <3>4. \A n \in Node \ {m} : SlotOf(n)' = SlotOf(n)
        BY <2>1, <2>3 DEF Active
      <3>5. d # NoCert
        BY NoCertAssumption DEF Rows
      <3>6. [n \in Node |-> SlotOf(n)]' = [[n \in Node |-> SlotOf(n)] EXCEPT ![m] = NoCert]
        BY <2>1, <3>3, <3>4
      <3>7. Slot!Retire(m)
        BY <2>1, <2>2, <3>1, <3>5, <3>6 DEF Slot!Retire
      <3> QED BY <2>1, <3>7 DEF Slot!Next
    <2> QED BY <2>4, <2>5 DEF Rows, TypeOK, CertRow
  <1>3. ASSUME NEW r \in Request, Insert(r)
        PROVE  [Slot!Next]_(Slot!slotVars)
    <2>1. PICK m \in Node, c \in CertId \ Rows :
            /\ Active(m) = {}
            /\ Rows' = Rows \cup {c}
            /\ \A d \in Rows : cert'[d] = cert[d]
            /\ cert'[c] = [node |-> m, revoked |-> FALSE,
                           notAfter |-> req[r].notAfter, from |-> req[r].seen]
      BY <1>3, InsertedRow
    <2>2. \A n \in Node \ {m} : Active(n)' = Active(n)
      BY <2>1 DEF Active
    <2>3. Active(m)' = {c}
      BY <2>1 DEF Active
    <2>4. SlotOf(m) = NoCert /\ SlotOf(m)' = c
      BY <2>1, <2>3 DEF SlotOf
    <2>5. ASSUME NEW n \in Node \ {m} PROVE SlotOf(n)' = SlotOf(n)
      <3>1. Active(n)' = Active(n)
        BY <2>2
      <3> QED BY <3>1 DEF SlotOf
    <2>6. [n \in Node |-> SlotOf(n)]' = [[n \in Node |-> SlotOf(n)] EXCEPT ![m] = c]
      BY <2>1, <2>4, <2>5
    <2>7. Slot!Install(m, c)
      BY <2>1, <2>4, <2>6 DEF Slot!Install
    <2> QED BY <2>1, <2>7 DEF Slot!Next
  <1> QED BY <1>1, <1>2, <1>3, StepShape

\* ImplementsSlot: the table of certificates is a slot per node that is filled
\* only when empty, and never twice with the same certificate.
THEOREM SlotRefinement == Spec => ImplementsSlot
  <1>1. Init => Slot!Init
    <2> SUFFICES ASSUME Init PROVE Slot!Init
      OBVIOUS
    <2>1. Rows = {} /\ \A n \in Node : SlotOf(n) = NoCert
      BY DEF Init, Rows, SlotOf, Active
    <2> QED BY <2>1 DEF Slot!Init
  <1>2. IInv /\ IInv' /\ [Next]_vars => [Slot!Next]_(Slot!slotVars)
    BY SlotStep
  <1> QED BY <1>1, <1>2, Invariance, PTL DEF Spec, ImplementsSlot, Slot!Spec
-----------------------------------------------------------------------------
\* What a sweep has listed, and the certificate it is renewing, is due, and
\* stays so: not_after is never rewritten and the clock never goes back.
SweepDue(r) ==
  req[r].op = "sweep" =>
    /\ \A c \in req[r].todo : Due(c)
    /\ req[r].pc \in {"sign", "revoke"} => req[r].seen # NoCert /\ Due(req[r].seen)
SweepsDue == \A r \in Request : SweepDue(r)

\* A row that is due stays due.
LEMMA DueStays ==
  ASSUME IInv, IInv', [Next]_vars, NEW c \in Rows, Due(c)
  PROVE  c \in Rows' /\ Due(c)'
  <1>1. RowKept(c) /\ now <= now'
    BY StepKeepsRows DEF IInv, Rows
  <1>2. c \in Rows' /\ cert'[c].notAfter = cert[c].notAfter
    BY <1>1 DEF RowKept, Rows
  <1>3. cert[c].notAfter \in Nat /\ now \in Nat /\ now' \in Nat /\ RenewBefore \in Nat
    BY RowType, TimeAssumption DEF IInv, TypeOK, CertRow
  <1>4. \A t, u, v, w \in Nat : t <= u + w /\ u <= v => t <= v + w
    OBVIOUS
  <1>5. cert[c].notAfter <= now' + RenewBefore
    BY <1>1, <1>3, <1>4 DEF Due
  <1> QED BY <1>2, <1>5 DEF Due

\* So does the list of a handler that the step does not move.
LEMMA SweepStaysDue ==
  ASSUME IInv, IInv', [Next]_vars, NEW r \in Request, SweepDue(r),
         req'[r].op = req[r].op, req'[r].todo \subseteq req[r].todo,
         req'[r].pc \in {"sign", "revoke"} =>
           req[r].pc \in {"sign", "revoke"} /\ req'[r].seen = req[r].seen
  PROVE  SweepDue(r)'
  <1>1. HandlerSound(r)
    BY DEF IInv, HandlersSound
  <1>2. req[r].op = "sweep" => \A c \in req'[r].todo : Due(c)'
    BY <1>1, DueStays DEF SweepDue, HandlerSound
  <1>3. req[r].op = "sweep" /\ req[r].pc \in {"sign", "revoke"} =>
          req[r].seen # NoCert /\ req[r].seen \in Rows /\ Due(req[r].seen)
    BY <1>1 DEF SweepDue, HandlerSound
  <1>4. req[r].op = "sweep" /\ req'[r].pc \in {"sign", "revoke"} =>
          req'[r].seen # NoCert /\ Due(req[r].seen)'
    BY <1>3, DueStays
  <1> QED BY <1>2, <1>4 DEF SweepDue, Due

LEMMA SweepsStep ==
  ASSUME IInv, IInv', SweepsDue, [Next]_vars
  PROVE  SweepsDue'
  <1> SUFFICES ASSUME NEW q \in Request PROVE SweepDue(q)'
    BY DEF SweepsDue
  <1> USE DEF IInv, TypeOK
  <1>1. SweepDue(q) /\ HandlerSound(q) /\ req[q] \in Handler
    BY DEF SweepsDue, HandlersSound
  <1>2. ASSUME req'[q] = req[q] PROVE SweepDue(q)'
    BY <1>1, <1>2, SweepStaysDue
  <1>3. req'[q].op # "sweep" => SweepDue(q)'
    BY DEF SweepDue
  <1>4. ASSUME req'[q] = Finished(req[q]) PROVE SweepDue(q)'
    <2>1. CASE req[q].op = "sweep"
      <3>1. req'[q].op = "sweep" /\ req'[q].pc = "next" /\ req'[q].todo = req[q].todo
        BY <1>4, <2>1 DEF Finished, Idle
      <3> QED BY <1>1, <2>1, <3>1, SweepStaysDue
    <2>2. CASE req[q].op # "sweep"
      BY <1>3, <1>4, <2>2 DEF Finished, Idle
    <2> QED BY <2>1, <2>2
  <1>5. ASSUME NEW n \in Node, NEW c \in CertId \cup {NoCert}, Begin(q, n, c)
        PROVE  SweepDue(q)'
    BY <1>3, <1>5 DEF Begin, Idle
  <1>6. CASE StartSweep(q)
    <2>1. /\ req'[q].pc = "next"
          /\ req'[q].todo = {c \in Rows : ~cert[c].revoked /\ Due(c)}
      BY <1>6 DEF StartSweep, Idle
    <2>2. \A c \in req'[q].todo : Due(c)'
      BY <2>1, DueStays
    <2> QED BY <2>1, <2>2 DEF SweepDue
  <1>7. CASE SweepNext(q)
    <2>1. PICK c \in req[q].todo :
            req' = [req EXCEPT ![q].pc = "sign", ![q].node = cert[c].node,
                               ![q].seen = c, ![q].todo = @ \ {c}]
      BY <1>7 DEF SweepNext
    <2>2. /\ req'[q].pc = "sign" /\ req'[q].seen = c /\ req'[q].op = req[q].op
          /\ req'[q].todo \subseteq req[q].todo
      BY <1>1, <2>1 DEF Handler
    <2>3. req[q].todo \subseteq Rows
      BY <1>1 DEF HandlerSound
    <2>4. c # NoCert
      BY <1>1, NoCertAssumption DEF Handler
    <2>5. req[q].op = "sweep" => \A d \in req[q].todo : Due(d)'
      BY <1>1, <2>3, DueStays DEF SweepDue
    <2> QED BY <2>2, <2>4, <2>5 DEF SweepDue, Due
  <1>8. CASE Sign(q)
    <2>1. /\ req'[q].seen = req[q].seen /\ req'[q].op = req[q].op
          /\ req'[q].todo = req[q].todo /\ req[q].pc = "sign"
      BY <1>1, <1>8 DEF Sign, SignUntil, Handler
    <2> QED BY <1>1, <2>1, SweepStaysDue
  <1>9. CASE RevokeSeen(q) \/ Insert(q)
    <2>1. /\ req'[q].op = req[q].op /\ req'[q].todo = req[q].todo
          /\ req'[q].pc \in {"insert", "audit"}
      BY <1>1, <1>9 DEF RevokeSeen, Insert, Write, Move, Handler
    <2> QED BY <1>1, <2>1, SweepStaysDue
  <1>10. CASE InsertConflict(q) \/ Audit(q) \/ RevokeActive(q) \/ Fail(q)
    BY <1>4, <1>10 DEF InsertConflict, Audit, RevokeActive, Fail, Finish
  <1>11. CASE SweepEnd(q) \/ Restart
    BY <1>3, <1>11 DEF SweepEnd, Restart, Idle
  <1>12. ASSUME NEW n \in Node, StartRevokeActive(q, n) PROVE SweepDue(q)'
    BY <1>3, <1>12 DEF StartRevokeActive, Idle
  <1>13. ASSUME NEW n \in Node,
                \/ StartIssue(q, n) \/ StartRotate(q, n) \/ StartEnsure(q, n)
                \/ \E force \in BOOLEAN : StartRenew(q, n, force)
         PROVE  SweepDue(q)'
    BY <1>5, <1>13 DEF StartIssue, StartRotate, StartEnsure, StartRenew, Active, Rows
  <1>14. ASSUME NEW r \in Request \ {q}, Arrive(r) \/ Step(r) \/ Fail(r)
         PROVE  req'[q] = req[q]
    BY <1>14 DEF Arrive, Step, Fail, Finish, Move, Begin, StartIssue, StartRotate,
       StartRenew, StartEnsure, StartSweep, StartRevokeActive, SweepNext, SweepEnd, Sign,
       SignUntil, RevokeSeen, Insert, Write, InsertConflict, Audit, RevokeActive
  <1>15. CASE Tick \/ UNCHANGED vars \/ \E c \in CertId : RevokeGiven(c)
    BY <1>2, <1>15 DEF Tick, vars, RevokeGiven
  <1> QED
    BY <1>2, <1>6, <1>7, <1>8, <1>9, <1>10, <1>11, <1>12, <1>13, <1>14, <1>15
       DEF Next, Arrive, Step

\* What a sweep revokes is the row it has read, and no other statement revokes
\* in the same step.
LEMMA SweepTakesSeen ==
  ASSUME IInv, [Next]_vars, NEW r \in Request, NEW c \in CertId, SweepTakes(r, c)
  PROVE  c = req[r].seen
  <1> USE DEF IInv, TypeOK
  <1>1. RevokeSeen(r)
    <2>1. ASSUME NEW q \in Request \ {r}, Arrive(q) \/ Step(q) \/ Fail(q)
          PROVE  req'[r] = req[r]
      BY <2>1 DEF Arrive, Step, Fail, Finish, Move, Begin, StartIssue, StartRotate,
         StartRenew, StartEnsure, StartSweep, StartRevokeActive, SweepNext, SweepEnd, Sign,
         SignUntil, RevokeSeen, Insert, Write, InsertConflict, Audit, RevokeActive
    <2>2. req[r].pc = "revoke" /\ req'[r].pc = "insert"
      BY DEF SweepTakes
    <2>3. ~Restart
      BY <2>2, IdleType DEF Restart
    <2>4. ~(Tick \/ UNCHANGED vars \/ \E d \in CertId : RevokeGiven(d))
      BY <2>2 DEF Tick, vars, RevokeGiven
    <2>5. ~Fail(r)
      BY <2>2, FinishedType DEF Fail, Finish
    <2>6. ~Arrive(r) /\ (Step(r) => RevokeSeen(r))
      BY <2>2 DEF Arrive, StartIssue, StartRotate, StartRenew, StartEnsure, StartSweep,
         StartRevokeActive, Step, SweepNext, SweepEnd, Sign, SignUntil, Insert,
         InsertConflict, Audit, RevokeActive
    <2> QED BY <2>1, <2>2, <2>3, <2>4, <2>5, <2>6 DEF Next
  <1>2. req[r].seen \in Rows
    BY <1>1 DEF RevokeSeen, HandlersSound, HandlerSound
  <1> QED BY <1>1, <1>2, RevokedRow DEF SweepTakes, RevokeSeen

\* SweepTakesOnlyDue: the renewal sweep revokes the certificate it holds and no
\* other, and only one that is due, though it listed it long before.
THEOREM SweepsTakeOnlyDue == Spec => SweepTakesOnlyDue
  <1>1. Init => SweepsDue
    BY DEF Init, SweepsDue, SweepDue, Idle
  <1>2. IInv /\ IInv' /\ SweepsDue /\ [Next]_vars => SweepsDue'
    BY SweepsStep
  <1>3. IInv /\ SweepsDue /\ [Next]_vars =>
          [\A r \in Request, c \in CertId : SweepTakes(r, c) => c = req[r].seen /\ Due(c)]_vars
    BY SweepTakesSeen DEF SweepsDue, SweepDue, SweepTakes
  <1> QED BY <1>1, <1>2, <1>3, Invariance, PTL DEF Spec, SweepTakesOnlyDue
-----------------------------------------------------------------------------
\* While nothing fails, a gap waits only for handlers that stay about to insert,
\* and closes with the next statement of any of them: the index cannot refuse
\* an insert into a gap, so handlers do not lose to one another.
GapWaits(n) ==
  Gap(n) /\ n \notin excused /\ Unfailing =>
    /\ \/ Active(n)' # {} \/ n \in excused'
       \/ InsertsFor(n) # {} /\ InsertsFor(n) \subseteq InsertsFor(n)'
    /\ \A r \in InsertsFor(n) : Step(r) => Active(n)' # {}

LEMMA GapWaitsStep ==
  ASSUME IInv, [Next]_vars, NEW n \in Node
  PROVE  GapWaits(n)
  <1> SUFFICES ASSUME Gap(n), n \notin excused, Unfailing
               PROVE  /\ \/ Active(n)' # {} \/ n \in excused'
                         \/ InsertsFor(n) \subseteq InsertsFor(n)'
                      /\ \A r \in InsertsFor(n) : Step(r) => Active(n)' # {}
    BY DEF GapWaits, IInv, GapExplained
  <1> USE DEF IInv, TypeOK
  <1>1. Active(n) = {}
    BY DEF Gap
  <1>2. ASSUME NEW r \in Request, Insert(r), req[r].node = n PROVE Active(n)' # {}
    <2>1. PICK c \in CertId \ Rows : Rows' = Rows \cup {c} /\
            cert'[c] = [node |-> n, revoked |-> FALSE,
                        notAfter |-> req[r].notAfter, from |-> req[r].seen]
      BY <1>2, InsertedRow
    <2>2. c \in Active(n)'
      BY <2>1 DEF Active
    <2> QED BY <2>2
  <1>3. ASSUME NEW r \in InsertsFor(n), Step(r) PROVE Active(n)' # {}
    <2>1. req[r].pc = "insert" /\ req[r].node = n
      BY DEF InsertsFor
    <2>2. Insert(r)
      BY <1>1, <1>3, <2>1 DEF Step, SweepNext, SweepEnd, Sign, SignUntil, RevokeSeen,
         InsertConflict, Audit, RevokeActive
    <2> QED BY <1>2, <2>1, <2>2 DEF InsertsFor
  <1>4. ASSUME NEW r \in Request, r \notin InsertsFor(n), Arrive(r) \/ Step(r)
        PROVE  InsertsFor(n) \subseteq InsertsFor(n)'
    <2>1. \A q \in Request \ {r} : req'[q] = req[q]
      BY <1>4 DEF Arrive, Step, Finish, Move, Begin, StartIssue, StartRotate,
         StartRenew, StartEnsure, StartSweep, StartRevokeActive, SweepNext, SweepEnd, Sign,
         SignUntil, RevokeSeen, Insert, Write, InsertConflict, Audit, RevokeActive
    <2> QED BY <1>4, <2>1 DEF InsertsFor
  <1>5. ASSUME NEW r \in InsertsFor(n), Arrive(r) PROVE FALSE
    BY <1>5 DEF InsertsFor, Arrive, StartIssue, StartRotate, StartRenew, StartEnsure,
       StartSweep, StartRevokeActive
  <1>6. ASSUME Tick \/ UNCHANGED vars \/ \E c \in CertId : RevokeGiven(c)
        PROVE  InsertsFor(n) \subseteq InsertsFor(n)'
    BY <1>6 DEF Tick, vars, RevokeGiven, InsertsFor
  <1>7. CASE \E r \in Request : Arrive(r) \/ Step(r)
    BY <1>3, <1>4, <1>5, <1>7
  <1>8. CASE ~\E r \in Request : Arrive(r) \/ Step(r)
    <2>1. ~(Restart \/ \E r \in Request : Fail(r))
      BY <1>8 DEF Unfailing
    <2>2. Tick \/ UNCHANGED vars \/ \E c \in CertId : RevokeGiven(c)
      BY <1>8, <2>1 DEF Next
    <2> QED BY <1>3, <1>6, <2>2
  <1> QED BY <1>7, <1>8

\* The safety that GapCloses rests on: a gap nobody made on purpose keeps every
\* handler that is about to fill it until one of them does.
THEOREM GapsWait == Spec => [][\A n \in Node : GapWaits(n)]_vars
  <1>1. IInv /\ [Next]_vars => [\A n \in Node : GapWaits(n)]_vars
    BY GapWaitsStep
  <1> QED BY <1>1, Invariance, PTL DEF Spec
=============================================================================
