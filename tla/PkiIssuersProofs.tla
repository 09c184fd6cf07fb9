-------------------------- MODULE PkiIssuersProofs --------------------------
(***************************************************************************)
(* What PkiIssuers does, for any issuers, deployments, requests and        *)
(* handlers.                                                               *)
(***************************************************************************)
EXTENDS PkiIssuers, TLAPS

\* A handler in flight has an issuer; one that is to sign has found or made the
\* row of its issuer, and has it activated before it signs.
Sound(x) ==
  /\ x.pc # "idle" => x.id \in Issuer
  /\ x.pc \in {"byCA", "active", "sign"} => x.goal = "sign"
  /\ x.goal = "sign" /\ x.pc \in {"active", "begin", "switch", "sign"} => Exists(x.id)
  /\ x.pc = "sign" => row[x.id].status # "pending"

HandlersSound == \A r \in Request : Sound(req[r])

IInv ==
  /\ TypeOK
  /\ HandlersSound
  /\ OneActiveIssuer
  /\ SignersActivated
-----------------------------------------------------------------------------
LEMMA IdleType == Idle \in Handler /\ Idle.pc = "idle"
  BY NameAssumption DEF Idle, Handler, CA

LEMMA DeploymentType ==
  ASSUME NEW d \in Deployment, NEW n \in Nat
  PROVE  d.active \in Issuer /\ d.ca \in FileCA \cup {Own} /\ OwnCA(d, n) \in CA
  <1>1. d \in Configuration
    BY InputAssumption
  <1> QED BY <1>1 DEF Configuration, OwnCA, CA

LEMMA CreateType ==
  ASSUME NEW c \in Create
  PROVE  c.issuer \in Issuer \cup {Configured} /\ c.ca \in FileCA \cup {Own}
  BY InputAssumption

\* The requests that begin.
LEMMA BeginStep ==
  ASSUME TypeOK, NEW r \in Request, BeginIssue(r) \/ Admin(r)
  PROVE  /\ UNCHANGED <<row, process, certs>>
         /\ \E x \in Handler :
              /\ req' = [req EXCEPT ![r] = x]
              /\ x.id \in Issuer
              /\ \/ x.pc = "lookup" /\ x.goal = "sign" /\ x.id = conf.active /\ x.ca = ca
                 \/ /\ x.pc = "lookup" /\ x.goal \in {"create", "activate"}
                    /\ \E c \in Create :
                         /\ x.id = IF c.issuer = Configured THEN conf.active ELSE c.issuer
                         /\ x.ca = IF c.ca = Own THEN ca ELSE c.ca
                 \/ x.pc = "begin" /\ x.goal = "activate"
  <1>1. CASE BeginIssue(r)
    <2> DEFINE x == [Idle EXCEPT !.pc = "lookup", !.id = conf.active, !.ca = ca]
    <2>1. x \in Handler /\ x.id \in Issuer /\ x.pc = "lookup" /\ x.goal = "sign"
          /\ x.id = conf.active /\ x.ca = ca
      BY DeploymentType DEF TypeOK, Idle, Handler
    <2> QED BY <1>1, <2>1 DEF BeginIssue
  <1>2. ASSUME NEW c \in Create, NEW goal \in {"create", "activate"}, BeginCreate(r, c, goal)
        PROVE  /\ UNCHANGED <<row, process, certs>>
               /\ \E x \in Handler :
                    /\ req' = [req EXCEPT ![r] = x]
                    /\ x.id \in Issuer
                    /\ x.pc = "lookup" /\ x.goal \in {"create", "activate"}
                    /\ x.id = IF c.issuer = Configured THEN conf.active ELSE c.issuer
                    /\ x.ca = IF c.ca = Own THEN ca ELSE c.ca
    <2> DEFINE i == IF c.issuer = Configured THEN conf.active ELSE c.issuer
               y == IF c.ca = Own THEN ca ELSE c.ca
               x == [Idle EXCEPT !.pc = "lookup", !.goal = goal, !.id = i, !.ca = y]
    <2>1. i \in Issuer /\ y \in CA
      BY DeploymentType, CreateType DEF TypeOK, CA
    <2>2. x \in Handler /\ x.pc = "lookup" /\ x.goal = goal /\ x.id = i /\ x.ca = y
      BY <2>1 DEF Idle, Handler
    <2> QED BY <1>2, <2>1, <2>2 DEF BeginCreate
  <1>3. ASSUME NEW i \in Issuer, BeginActivate(r, i)
        PROVE  /\ UNCHANGED <<row, process, certs>>
               /\ \E x \in Handler : /\ req' = [req EXCEPT ![r] = x]
                                     /\ x.id \in Issuer
                                     /\ x.pc = "begin" /\ x.goal = "activate"
    <2> DEFINE x == [Idle EXCEPT !.pc = "begin", !.goal = "activate", !.id = i]
    <2>1. x \in Handler /\ x.pc = "begin" /\ x.goal = "activate" /\ x.id = i
      BY DEF Idle, Handler, CA
    <2> QED BY <1>3, <2>1 DEF BeginActivate
  <1> QED BY <1>1, <1>2, <1>3 DEF Admin

\* No row is removed, changes its CA or its origin or becomes pending again.
RowsKept == \A i \in Issuer : Exists(i) =>
  /\ Exists(i)' /\ row'[i].ca = row[i].ca /\ row'[i].made = row[i].made
  /\ row[i].status # "pending" => row'[i].status # "pending"

\* The steps of a handler that leave the rows, the process and the certificates.
Thinks(r) == Lookup(r) \/ AdoptByCA(r) \/ GetActive(r) \/ BeginSwitch(r) \/ Fail(r)

LEMMA ThinkStep ==
  ASSUME TypeOK, HandlersSound, NEW r \in Request, Thinks(r)
  PROVE  /\ UNCHANGED <<row, process, certs>>
         /\ \E x \in Handler : req' = [req EXCEPT ![r] = x] /\ Sound(x)
  <1> DEFINE To(x) == x \in Handler /\ req' = [req EXCEPT ![r] = x] /\ Sound(x)
  <1>0. UNCHANGED <<row, process, certs>>
    BY DEF Thinks, Lookup, AdoptByCA, GetActive, BeginSwitch, Fail
  <1>1. req[r] \in Handler /\ Sound(req[r])
    BY DEF TypeOK, HandlersSound
  <1>2. CASE Finish(r)
    <2>1. To(Idle)
      BY <1>2, IdleType DEF Finish, Idle, Sound
    <2> QED BY <1>0, <2>1
  <1>3. CASE Lookup(r) /\ ~Finish(r)
    <2> DEFINE x(pc) == [req[r] EXCEPT !.pc = pc]
    <2>1. \A pc \in {"byCA", "insert", "active", "begin"} :
            x(pc) \in Handler /\ x(pc).pc = pc /\ x(pc).goal = req[r].goal /\ x(pc).id = req[r].id
      BY <1>1 DEF Handler
    <2>2. req[r].pc = "lookup" /\ req[r].id \in Issuer /\ req[r].goal \in {"sign", "create", "activate"}
      BY <1>1, <1>3 DEF Lookup, Sound, Handler
    <2>3. CASE Exists(req[r].id) /\ req[r].goal = "sign"
      <3>1. To(x("active"))
        BY <1>3, <2>1, <2>2, <2>3 DEF Lookup, Known, Move, Sound
      <3> QED BY <1>0, <3>1
    <2>4. CASE Exists(req[r].id) /\ req[r].goal = "activate"
      <3>1. To(x("begin"))
        BY <1>3, <2>1, <2>2, <2>4 DEF Lookup, Known, Move, Sound
      <3> QED BY <1>0, <3>1
    <2>5. CASE ~Exists(req[r].id) /\ req[r].goal = "sign"
      <3>1. To(x("byCA"))
        BY <1>3, <2>1, <2>2, <2>5 DEF Lookup, Move, Sound
      <3> QED BY <1>0, <3>1
    <2>6. CASE ~Exists(req[r].id) /\ req[r].goal # "sign"
      <3>1. To(x("insert"))
        BY <1>3, <2>1, <2>2, <2>6 DEF Lookup, Move, Sound
      <3> QED BY <1>0, <3>1
    <2> QED BY <1>3, <2>2, <2>3, <2>4, <2>5, <2>6 DEF Lookup, Known
  <1>4. CASE AdoptByCA(r)
    <2>1. req[r].pc = "byCA" /\ req[r].goal = "sign" /\ req[r].id \in Issuer
      BY <1>1, <1>4 DEF AdoptByCA, Sound
    <2>2. CASE Move(r, "insert")
      <3> DEFINE x == [req[r] EXCEPT !.pc = "insert"]
      <3>1. x \in Handler /\ x.pc = "insert" /\ x.id = req[r].id
        BY <1>1 DEF Handler
      <3>2. To(x)
        BY <2>1, <2>2, <3>1 DEF Move, Sound
      <3> QED BY <1>0, <3>2
    <2>3. ASSUME NEW i \in Issuer, Exists(i), req' = [req EXCEPT ![r].pc = "active", ![r].id = i]
          PROVE  \E x \in Handler : To(x)
      <3> DEFINE x == [req[r] EXCEPT !.pc = "active", !.id = i]
      <3>1. x \in Handler /\ x.pc = "active" /\ x.id = i /\ x.goal = "sign"
        BY <1>1, <2>1 DEF Handler
      <3>2. req' = [req EXCEPT ![r] = x]
        BY <2>3 DEF TypeOK
      <3>3. To(x)
        BY <2>1, <2>3, <3>1, <3>2 DEF Sound
      <3> QED BY <3>3
    <2> QED BY <1>0, <1>4, <2>2, <2>3 DEF AdoptByCA
  <1>5. CASE GetActive(r)
    <2> DEFINE x(pc) == [req[r] EXCEPT !.pc = pc]
    <2>1. \A pc \in {"sign", "begin"} :
            x(pc) \in Handler /\ x(pc).pc = pc /\ x(pc).goal = req[r].goal /\ x(pc).id = req[r].id
      BY <1>1 DEF Handler
    <2>2. req[r].pc = "active" /\ req[r].goal = "sign" /\ req[r].id \in Issuer /\ Exists(req[r].id)
      BY <1>1, <1>5 DEF GetActive, Sound
    <2>3. CASE Active(req[r].id)
      <3>1. To(x("sign"))
        BY <1>5, <2>1, <2>2, <2>3 DEF GetActive, Move, Sound, Active
      <3> QED BY <1>0, <3>1
    <2>4. CASE ~Active(req[r].id)
      <3>1. To(x("begin"))
        BY <1>5, <2>1, <2>2, <2>4 DEF GetActive, Move, Sound
      <3> QED BY <1>0, <3>1
    <2> QED BY <2>3, <2>4
  <1>6. CASE BeginSwitch(r)
    <2>1. req[r].pc = "begin"
      BY <1>6 DEF BeginSwitch
    <2>2. PICK i \in Issuer \cup {NoIssuer} : req' = [req EXCEPT ![r].pc = "switch", ![r].seen = i]
      BY <1>6 DEF BeginSwitch
    <2> DEFINE x == [req[r] EXCEPT !.pc = "switch", !.seen = i]
    <2>3. x \in Handler /\ x.pc = "switch" /\ x.id = req[r].id /\ x.goal = req[r].goal
      BY <1>1 DEF Handler
    <2>4. req' = [req EXCEPT ![r] = x]
      BY <2>2 DEF TypeOK
    <2>5. To(x)
      BY <1>1, <2>1, <2>3, <2>4 DEF Sound
    <2> QED BY <1>0, <2>5
  <1> QED BY <1>2, <1>3, <1>4, <1>5, <1>6 DEF Thinks, Fail

\* The two steps that write rows.
LEMMA InsertStep ==
  ASSUME TypeOK, HandlersSound, NEW r \in Request, Insert(r)
  PROVE  /\ row' \in [Issuer -> Row \cup {NoRow}]
         /\ RowsKept
         /\ \A i \in Issuer : Active(i)' <=> Active(i)
         /\ UNCHANGED <<process, certs>>
         /\ \E x \in Handler : req' = [req EXCEPT ![r] = x] /\ Sound(x)'
  <1>1. req[r] \in Handler /\ Sound(req[r]) /\ req[r].pc = "insert" /\ req[r].id \in Issuer
    BY DEF TypeOK, HandlersSound, Insert, Sound
  <1>2. CASE ~Free(req[r].id, req[r].ca)
    <2>1. UNCHANGED <<row, process, certs>> /\ req' = [req EXCEPT ![r] = Idle]
      BY <1>2 DEF Insert, Finish
    <2>2. RowsKept /\ (\A i \in Issuer : Active(i)' <=> Active(i))
          /\ Sound(Idle)' /\ row' \in [Issuer -> Row \cup {NoRow}]
      BY <2>1 DEF RowsKept, Exists, Active, Sound, Idle, TypeOK
    <2> QED BY <2>1, <2>2, IdleType DEF process
  <1>3. CASE Free(req[r].id, req[r].ca)
    <2> DEFINE new == [status |-> "pending", ca |-> req[r].ca, from |-> NoIssuer,
                       made |-> IF req[r].goal = "sign" THEN boot ELSE ByHand]
    <2>1. row' = [row EXCEPT ![req[r].id] = new] /\ Known(r) /\ UNCHANGED <<process, certs>>
      BY <1>3 DEF Insert
    <2>2. new \in Row /\ new # NoRow
      BY <1>1, NameAssumption DEF Row, Handler, TypeOK
    <2>3. ~Exists(req[r].id)
      BY <1>3 DEF Free
    <2>4. /\ row' \in [Issuer -> Row \cup {NoRow}] /\ RowsKept
          /\ \A i \in Issuer : Active(i)' <=> Active(i)
      BY <1>1, <2>1, <2>2, <2>3 DEF TypeOK, RowsKept, Exists, Active
    <2>5. row'[req[r].id] # NoRow
      BY <1>1, <2>1, <2>2 DEF TypeOK
    <2> DEFINE x(pc) == [req[r] EXCEPT !.pc = pc]
    <2>6. \A pc \in {"active", "begin"} :
            x(pc) \in Handler /\ x(pc).pc = pc /\ x(pc).goal = req[r].goal /\ x(pc).id = req[r].id
      BY <1>1 DEF Handler
    <2>7. CASE req[r].goal = "sign"
      <3>1. PICK h \in Handler : h = x("active")
        BY <2>6
      <3>2. req' = [req EXCEPT ![r] = h]
        BY <2>1, <2>7, <3>1 DEF Known, Move
      <3>3. Sound(h)'
        BY <1>1, <2>5, <2>6, <2>7, <3>1 DEF Sound, Exists
      <3> QED BY <2>1, <2>4, <3>2, <3>3
    <2>8. CASE req[r].goal = "activate"
      <3>1. PICK h \in Handler : h = x("begin")
        BY <2>6
      <3>2. req' = [req EXCEPT ![r] = h]
        BY <2>1, <2>8, <3>1 DEF Known, Move
      <3>3. Sound(h)'
        BY <1>1, <2>5, <2>6, <2>8, <3>1 DEF Sound, Exists
      <3> QED BY <2>1, <2>4, <3>2, <3>3
    <2>9. CASE req[r].goal = "create"
      <3>1. req' = [req EXCEPT ![r] = Idle] /\ Sound(Idle)'
        BY <2>1, <2>9 DEF Known, Finish, Sound, Idle
      <3> QED BY <2>1, <2>4, <3>1, IdleType
    <2> QED BY <1>1, <2>7, <2>8, <2>9 DEF Handler
  <1> QED BY <1>2, <1>3

\* Ends a handler's transaction: it signs, or it is done.
LEMMA ActivatedStep ==
  ASSUME TypeOK, HandlersSound, RowsKept, NEW r \in Request, req[r].pc = "switch",
         Activated(r), row'[req[r].id] # NoRow, row'[req[r].id].status # "pending"
  PROVE  \E x \in Handler : req' = [req EXCEPT ![r] = x] /\ Sound(x)'
  <1>1. req[r] \in Handler /\ req[r].id \in Issuer
    BY DEF TypeOK, HandlersSound, Sound
  <1>2. CASE req[r].goal = "sign"
    <2> DEFINE x == [req[r] EXCEPT !.pc = "sign"]
    <2>1. x \in Handler /\ x.pc = "sign" /\ x.id = req[r].id /\ x.goal = "sign"
      BY <1>1, <1>2 DEF Handler
    <2>2. PICK h \in Handler : h = x
      BY <2>1
    <2>3. req' = [req EXCEPT ![r] = h]
      BY <1>2, <2>2 DEF Activated, Move
    <2>4. Sound(h)'
      BY <1>1, <2>1, <2>2 DEF Sound, Exists
    <2> QED BY <2>3, <2>4
  <1>3. CASE req[r].goal # "sign"
    <2>1. req' = [req EXCEPT ![r] = Idle] /\ Sound(Idle)'
      BY <1>3 DEF Activated, Finish, Sound, Idle
    <2> QED BY <2>1, IdleType
  <1> QED BY <1>2, <1>3

LEMMA CurrentActive ==
  ASSUME TypeOK, NEW r \in Request
  PROVE  Current(r) # NoIssuer => Current(r) \in Issuer /\ Active(Current(r))
  <1>1. req[r].seen \in Issuer \cup {NoIssuer}
    BY DEF TypeOK, Handler
  <1> QED BY <1>1 DEF Current

LEMMA SwitchStep ==
  ASSUME TypeOK, HandlersSound, OneActiveIssuer, NEW r \in Request, Switch(r)
  PROVE  /\ row' \in [Issuer -> Row \cup {NoRow}]
         /\ RowsKept
         /\ OneActiveIssuer'
         /\ \A i \in Issuer : Active(i) /\ ~Active(i)' =>
              \E j \in Issuer : Active(j)' /\ row'[j].from = i
         /\ UNCHANGED <<process, certs>>
         /\ \E x \in Handler : req' = [req EXCEPT ![r] = x] /\ Sound(x)'
  <1> DEFINE i == req[r].id
             current == Current(r)
  <1>1. req[r] \in Handler /\ Sound(req[r]) /\ req[r].pc = "switch" /\ i \in Issuer
    BY DEF TypeOK, HandlersSound, Switch, Sound
  <1>2. UNCHANGED <<process, certs>>
    BY DEF Switch
  <1>3. ASSUME row' = row
        PROVE  /\ row' \in [Issuer -> Row \cup {NoRow}] /\ RowsKept /\ OneActiveIssuer'
               /\ \A j \in Issuer : Active(j) => Active(j)'
    BY <1>3 DEF TypeOK, RowsKept, Exists, OneActiveIssuer, Active
  <1>4. CASE i = current
    <2>1. row' = row /\ Activated(r) /\ Active(i)
      BY <1>1, <1>4, CurrentActive, NameAssumption DEF Switch
    <2>2. row'[i] # NoRow /\ row'[i].status # "pending"
      BY <2>1 DEF Active, Exists
    <2> QED BY <1>1, <1>2, <1>3, <2>1, <2>2, ActivatedStep
  <1>5. CASE i # current /\ Exists(i) /\ \A j \in Issuer \ {i} : Active(j) => j = current
    <2>1. row' = Switched(i, current) /\ Activated(r)
      BY <1>5 DEF Switch
    <2>2. row[i] \in Row /\ current \in Issuer \cup {NoIssuer}
      BY <1>1, <1>5, CurrentActive DEF TypeOK, Exists
    <2>3. row'[i] = [row[i] EXCEPT !.status = "active", !.from = current]
      BY <1>1, <2>1 DEF Switched
    <2>4. /\ row'[i] \in Row /\ row'[i].status = "active" /\ row'[i].from = current
          /\ row'[i].ca = row[i].ca /\ row'[i].made = row[i].made
      BY <2>2, <2>3 DEF Row
    <2>5. ASSUME current # NoIssuer
          PROVE  row'[current] \in Row /\ row'[current].status = "retired"
                 /\ row'[current].ca = row[current].ca
                 /\ row'[current].made = row[current].made
      <3>1. current \in Issuer /\ Active(current)
        BY <2>5, CurrentActive
      <3>2. row[current] \in Row
        BY <3>1 DEF TypeOK, Active, Exists
      <3>3. row'[current] = [row[current] EXCEPT !.status = "retired"]
        BY <1>5, <2>1, <3>1 DEF Switched
      <3> QED BY <3>2, <3>3 DEF Row
    <2>6. \A j \in Issuer \ {i, current} : row'[j] = row[j]
      BY <2>1 DEF Switched
    <2>7. row' \in [Issuer -> Row \cup {NoRow}]
      <3>1. \A j \in Issuer : row'[j] \in Row \cup {NoRow}
        BY <2>4, <2>5, <2>6, NameAssumption DEF TypeOK
      <3>2. row' = [j \in Issuer |-> row'[j]]
        BY <2>1 DEF Switched
      <3> QED BY <3>1, <3>2
    <2>8. NoRow \notin Row
      BY NameAssumption DEF Row
    <2>9. \A j \in Issuer : Active(j)' <=> j = i
      <3> SUFFICES ASSUME NEW j \in Issuer
                   PROVE  row'[j] # NoRow /\ row'[j].status = "active" <=> j = i
        BY DEF Active, Exists
      <3>1. CASE j = i
        BY <2>4, <2>8, <3>1
      <3>2. CASE j # i /\ j = current
        BY <2>5, <3>2, NameAssumption
      <3>3. CASE j # i /\ j # current
        BY <1>5, <2>6, <3>3 DEF Active, Exists
      <3> QED BY <3>1, <3>2, <3>3
    <2>10. OneActiveIssuer'
      BY <2>9 DEF OneActiveIssuer
    <2>11. RowsKept
      <3> SUFFICES ASSUME NEW j \in Issuer, Exists(j)
                   PROVE  /\ row'[j] # NoRow /\ row'[j].ca = row[j].ca
                          /\ row'[j].made = row[j].made
                          /\ row[j].status # "pending" => row'[j].status # "pending"
        BY DEF RowsKept, Exists
      <3>1. CASE j = i
        BY <2>4, <2>8, <3>1
      <3>2. CASE j # i /\ j = current
        BY <2>5, <2>8, <3>2, NameAssumption
      <3>3. CASE j # i /\ j # current
        BY <2>6, <3>3 DEF Exists
      <3> QED BY <3>1, <3>2, <3>3
    <2>12. \A k \in Issuer : Active(k) /\ ~Active(k)' =>
             \E j \in Issuer : Active(j)' /\ row'[j].from = k
      <3> SUFFICES ASSUME NEW k \in Issuer, Active(k), ~Active(k)'
                   PROVE  \E j \in Issuer : Active(j)' /\ row'[j].from = k
        OBVIOUS
      <3>1. k = current
        BY <1>5, <2>9
      <3>2. PICK j \in Issuer : j = i
        BY <1>1
      <3>3. Active(j)'
        BY <2>9, <3>2
      <3> QED BY <2>4, <3>1, <3>2, <3>3
    <2>13. \E x \in Handler : req' = [req EXCEPT ![r] = x] /\ Sound(x)'
      BY <1>1, <2>1, <2>4, <2>8, <2>11, ActivatedStep
    <2> QED BY <1>2, <2>7, <2>10, <2>11, <2>12, <2>13
  <1>6. CASE /\ i # current
             /\ ~(Exists(i) /\ \A j \in Issuer \ {i} : Active(j) => j = current)
    <2>1. row' = row /\ req' = [req EXCEPT ![r] = Idle]
      BY <1>6 DEF Switch, Finish
    <2>2. Sound(Idle)'
      BY DEF Sound, Idle
    <2> QED BY <1>2, <1>3, <2>1, <2>2, IdleType
  <1> QED BY <1>4, <1>5, <1>6
-----------------------------------------------------------------------------
LEMMA SoundKept ==
  ASSUME RowsKept, NEW x \in Handler, Sound(x)
  PROVE  Sound(x)'
  BY DEF RowsKept, Sound, Exists

\* A step of one handler.
LEMMA OneHandler ==
  ASSUME TypeOK, HandlersSound, RowsKept, NEW r \in Request, NEW x \in Handler,
         req' = [req EXCEPT ![r] = x], Sound(x)'
  PROVE  req' \in [Request -> Handler] /\ HandlersSound'
  <1>1. req' \in [Request -> Handler]
    BY DEF TypeOK
  <1>2. ASSUME NEW q \in Request PROVE Sound(req[q])'
    <2>1. CASE q = r
      <3>1. req'[q] = x
        BY <2>1 DEF TypeOK
      <3> QED BY <3>1 DEF Sound, Exists
    <2>2. CASE q # r
      <3>1. PICK h \in Handler : h = req[q]
        BY DEF TypeOK
      <3>2. Sound(h)' /\ req'[q] = h
        BY <2>2, <3>1, SoundKept DEF TypeOK, HandlersSound
      <3> QED BY <3>2 DEF Sound, Exists
    <2> QED BY <2>1, <2>2
  <1> QED BY <1>1, <1>2 DEF HandlersSound

\* What every step keeps.
Kept ==
  /\ TypeOK' /\ HandlersSound' /\ OneActiveIssuer' /\ RowsKept
  /\ \A i \in Issuer : Active(i) /\ ~Active(i)' =>
       \E j \in Issuer : Active(j)' /\ row'[j].from = i

LEMMA Step ==
  ASSUME TypeOK, HandlersSound, OneActiveIssuer, [Next]_vars
  PROVE  Kept
  <1>1. ASSUME UNCHANGED row
        PROVE  /\ row' \in [Issuer -> Row \cup {NoRow}] /\ RowsKept /\ OneActiveIssuer'
               /\ \A i \in Issuer : Active(i) => Active(i)'
    BY <1>1 DEF TypeOK, RowsKept, OneActiveIssuer, Active, Exists
  <1>2. ASSUME NEW r \in Request, Admin(r) \/ BeginIssue(r) PROVE Kept
    <2>1. UNCHANGED <<row, process, certs>>
      BY <1>2, BeginStep
    <2>2. PICK x \in Handler : /\ req' = [req EXCEPT ![r] = x] /\ x.id \in Issuer
                               /\ \/ x.pc = "lookup"
                                  \/ x.pc = "begin" /\ x.goal = "activate"
      BY <1>2, BeginStep
    <2>3. Sound(x)'
      BY <2>2 DEF Sound
    <2> QED BY <1>1, <2>1, <2>2, <2>3, OneHandler DEF Kept, TypeOK, process
  <1>3. ASSUME NEW r \in Request, Thinks(r) PROVE Kept
    <2>1. UNCHANGED <<row, process, certs>>
      BY <1>3, ThinkStep
    <2>2. PICK x \in Handler : req' = [req EXCEPT ![r] = x] /\ Sound(x)
      BY <1>3, ThinkStep
    <2>3. Sound(x)'
      BY <1>1, <2>1, <2>2, SoundKept
    <2> QED BY <1>1, <2>1, <2>2, <2>3, OneHandler DEF Kept, TypeOK, process
  <1>4. ASSUME NEW r \in Request, Insert(r) PROVE Kept
    <2>1. PICK x \in Handler : req' = [req EXCEPT ![r] = x] /\ Sound(x)'
      BY <1>4, InsertStep
    <2>2. /\ row' \in [Issuer -> Row \cup {NoRow}] /\ RowsKept /\ UNCHANGED <<process, certs>>
          /\ \A i \in Issuer : Active(i)' <=> Active(i)
      BY <1>4, InsertStep
    <2>3. OneActiveIssuer'
      BY <2>2 DEF OneActiveIssuer
    <2> QED BY <2>1, <2>2, <2>3, OneHandler DEF Kept, TypeOK, process
  <1>5. ASSUME NEW r \in Request, Switch(r) PROVE Kept
    <2>1. PICK x \in Handler : req' = [req EXCEPT ![r] = x] /\ Sound(x)'
      BY <1>5, SwitchStep
    <2>2. /\ row' \in [Issuer -> Row \cup {NoRow}] /\ RowsKept /\ UNCHANGED <<process, certs>>
          /\ OneActiveIssuer'
          /\ \A i \in Issuer : Active(i) /\ ~Active(i)' =>
               \E j \in Issuer : Active(j)' /\ row'[j].from = i
      BY <1>5, SwitchStep
    <2> QED BY <2>1, <2>2, OneHandler DEF Kept, TypeOK, process
  <1>6. ASSUME NEW r \in Request, Sign(r) PROVE Kept
    <2>1. /\ UNCHANGED <<row, process>> /\ req' = [req EXCEPT ![r] = Idle]
          /\ certs' = certs \cup {[issuer |-> req[r].id, ca |-> ca,
                                    conf |-> conf.active, boot |-> boot]}
      BY <1>6 DEF Sign, Finish
    <2>2. req[r].id \in Issuer /\ conf.active \in Issuer
      BY <1>6, DeploymentType DEF HandlersSound, Sound, Sign, TypeOK
    <2>3. Sound(Idle)'
      BY DEF Sound, Idle
    <2>4. RowsKept /\ row' \in [Issuer -> Row \cup {NoRow}] /\ OneActiveIssuer'
      BY <1>1, <2>1
    <2>5. req' \in [Request -> Handler] /\ HandlersSound'
      BY <2>1, <2>3, <2>4, IdleType, OneHandler
    <2>6. certs' \subseteq Cert
      BY <2>1, <2>2 DEF TypeOK, Cert
    <2>7. TypeOK'
      BY <2>1, <2>4, <2>5, <2>6 DEF TypeOK, process
    <2> QED BY <1>1, <2>1, <2>4, <2>5, <2>7 DEF Kept
  <1>7. ASSUME NEW d \in Deployment, Restart(d) PROVE Kept
    <2>0. boot' \in Nat
      BY <1>7 DEF Restart, TypeOK
    <2>1. req' = [r \in Request |-> Idle] /\ UNCHANGED <<row, certs>> /\ conf' = d
          /\ boot' \in Nat /\ ca' \in CA
      BY <1>7, <2>0, DeploymentType DEF Restart
    <2>2. HandlersSound'
      BY <2>1 DEF HandlersSound, Sound, Idle
    <2> QED BY <1>1, <2>1, <2>2, IdleType DEF Kept, TypeOK
  <1>8. CASE UNCHANGED vars
    <2>1. HandlersSound'
      BY <1>8 DEF vars, HandlersSound, Sound, Exists
    <2> QED BY <1>1, <1>8, <2>1 DEF Kept, vars, TypeOK
  <1> QED BY <1>2, <1>3, <1>4, <1>5, <1>6, <1>7, <1>8 DEF Next, Ensure, Thinks

LEMMA SignedStep ==
  ASSUME TypeOK, HandlersSound, RowsKept, SignersActivated, [Next]_vars
  PROVE  SignersActivated'
  <1>1. ASSUME NEW c \in certs PROVE Exists(c.issuer)' /\ row'[c.issuer].status # "pending"
    <2>1. c.issuer \in Issuer
      BY DEF TypeOK, Cert
    <2> QED BY <2>1 DEF SignersActivated, RowsKept
  <1>2. ASSUME NEW r \in Request, Sign(r) PROVE SignersActivated'
    <2>1. /\ req[r].id \in Issuer /\ Exists(req[r].id)
          /\ row[req[r].id].status # "pending"
      BY <1>2 DEF HandlersSound, Sound, Sign
    <2> QED BY <1>1, <1>2, <2>1 DEF SignersActivated, Sign, Exists
  <1>3. CASE UNCHANGED certs
    BY <1>1, <1>3 DEF SignersActivated
  <1>4. ASSUME NEW r \in Request,
               Admin(r) \/ BeginIssue(r) \/ Thinks(r) \/ Insert(r) \/ Switch(r)
        PROVE  UNCHANGED certs
    BY <1>4 DEF Admin, BeginIssue, BeginCreate, BeginActivate, Thinks, Lookup, AdoptByCA,
                GetActive, BeginSwitch, Fail, Insert, Switch
  <1>5. ASSUME NEW d \in Deployment, Restart(d) PROVE UNCHANGED certs
    BY <1>5 DEF Restart
  <1>6. CASE UNCHANGED vars
    BY <1>3, <1>6 DEF vars
  <1> QED BY <1>2, <1>3, <1>4, <1>5, <1>6 DEF Next, Ensure, Thinks
-----------------------------------------------------------------------------
\* Row i was not made by this start of the process.
Before(i) == row[i].made = ByHand \/ row[i].made < boot

\* A handler that is to sign and has not found a row yet brings the issuer and the
\* CA of the process; later the row has that CA, or is that of the configured
\* issuer and was there before.
Bound(r) ==
  /\ req[r].goal = "sign" /\ req[r].pc \in {"lookup", "byCA", "insert"} =>
       req[r].id = conf.active /\ req[r].ca = ca
  /\ req[r].goal = "sign" /\ req[r].pc \in {"active", "begin", "switch", "sign"} =>
       row[req[r].id].ca = ca \/ (req[r].id = conf.active /\ Before(req[r].id))

SignInv ==
  /\ \A i \in Issuer : Exists(i) => Before(i) \/ (row[i].made = boot /\ row[i].ca = ca)
  /\ \A r \in Request : Bound(r)
  /\ SignedByIssuer

\* What the helpers of the actions do to a handler.
LEMMA MoveFields ==
  ASSUME TypeOK, NEW r \in Request, NEW pc, Move(r, pc)
  PROVE  /\ req'[r].pc = pc /\ req'[r].goal = req[r].goal
         /\ req'[r].id = req[r].id /\ req'[r].ca = req[r].ca
  <1>1. req[r] \in Handler /\ req'[r] = [req[r] EXCEPT !.pc = pc]
    BY DEF TypeOK, Move
  <1> QED BY <1>1 DEF Handler

LEMMA FinishFields ==
  ASSUME TypeOK, NEW r \in Request, Finish(r)
  PROVE  req'[r].pc = "idle"
  BY DEF TypeOK, Finish, Idle

\* Rows change neither their CA nor their origin, so that certificates on record
\* stay as they are.
LEMMA Recorded ==
  ASSUME TypeOK, RowsKept, SignersActivated, SignedByIssuer, UNCHANGED certs
  PROVE  SignedByIssuer'
  <1>1. \A c \in certs : /\ row'[c.issuer].ca = row[c.issuer].ca
                         /\ row'[c.issuer].made = row[c.issuer].made
    BY DEF TypeOK, Cert, RowsKept, SignersActivated
  <1> QED BY <1>1 DEF SignedByIssuer

LEMMA SignInvStep ==
  ASSUME TypeOK, HandlersSound, SignersActivated, RowsKept, SignInv, [Next]_vars
  PROVE  SignInv'
  <1>1. ASSUME NEW q \in Request, Bound(q), req'[q] = req[q], UNCHANGED process
        PROVE  Bound(q)'
    <2>1. req[q].goal = "sign" /\ req[q].pc \in {"active", "begin", "switch", "sign"} =>
            /\ row'[req[q].id].ca = row[req[q].id].ca
            /\ row'[req[q].id].made = row[req[q].id].made
      BY DEF HandlersSound, Sound, RowsKept
    <2> QED BY <1>1, <2>1 DEF Bound, Before, process
  <1>2. ASSUME NEW r \in Request, UNCHANGED <<row, process, certs>>,
               NEW x \in Handler, req' = [req EXCEPT ![r] = x], Bound(r)'
        PROVE  SignInv'
    <2>1. \A q \in Request : Bound(q)'
      BY <1>1, <1>2 DEF TypeOK, SignInv
    <2> QED BY <1>2, <2>1 DEF SignInv, process, Exists, Before, SignedByIssuer
  <1>4. ASSUME NEW r \in Request, BeginIssue(r) \/ Admin(r) PROVE SignInv'
    <2>1. UNCHANGED <<row, process, certs>>
      BY <1>4, BeginStep
    <2>2. PICK x \in Handler :
            /\ req' = [req EXCEPT ![r] = x]
            /\ \/ x.pc = "lookup" /\ x.goal = "sign" /\ x.id = conf.active /\ x.ca = ca
               \/ x.goal \in {"create", "activate"}
      BY <1>4, BeginStep
    <2>3. req'[r] = x
      BY <2>2 DEF TypeOK
    <2>4. Bound(r)'
      BY <2>1, <2>2, <2>3 DEF Bound, process
    <2> QED BY <1>2, <2>1, <2>2, <2>4
  <1>5. ASSUME NEW r \in Request, Finish(r), UNCHANGED <<row, process, certs>> PROVE SignInv'
    <2>1. Bound(r)'
      BY <1>5 DEF Bound, Finish, Idle, TypeOK
    <2> QED BY <1>2, <1>5, <2>1, IdleType DEF Finish
  <1>6. ASSUME NEW r \in Request, Thinks(r) PROVE SignInv'
    <2>1. UNCHANGED <<row, process, certs>> /\ ca' = ca /\ conf' = conf /\ boot' = boot
      BY <1>6, ThinkStep DEF process
    <2>2. PICK x \in Handler : req' = [req EXCEPT ![r] = x]
      BY <1>6, ThinkStep
    <2>3. Bound(r) /\ req[r] \in Handler /\ req'[r] = x
      BY <2>2 DEF SignInv, TypeOK
    <2>4. CASE Lookup(r) /\ ~Finish(r)
      <3>1. /\ req[r].pc = "lookup" /\ x.goal = req[r].goal /\ x.id = req[r].id /\ x.ca = req[r].ca
            /\ Exists(x.id) \/ x.pc \in {"byCA", "insert"}
        BY <2>3, <2>4, MoveFields DEF Lookup, Known, Handler
      <3>2. x.id \in Issuer
        BY <3>1 DEF HandlersSound, Sound
      <3>3. Exists(x.id) => row[x.id].ca = ca \/ Before(x.id)
        BY <3>2 DEF SignInv
      <3>4. x.goal = "sign" => x.id = conf.active /\ x.ca = ca
        BY <2>3, <3>1 DEF Bound
      <3>5. row'[x.id] = row[x.id]
        BY <2>1
      <3>6. Bound(r)'
        BY <2>1, <2>3, <3>1, <3>3, <3>4, <3>5 DEF Bound, Before
      <3> QED BY <1>2, <2>1, <2>2, <3>6
    <2>5. CASE AdoptByCA(r)
      <3>1. /\ req[r].pc = "byCA" /\ req[r].goal = "sign" /\ x.goal = "sign" /\ x.ca = req[r].ca
            /\ \/ x.pc = "active" /\ row[x.id].ca = req[r].ca
               \/ x.pc = "insert" /\ x.id = req[r].id
        <4>1. req[r].pc = "byCA" /\ req[r].goal = "sign"
          BY <2>5 DEF AdoptByCA, HandlersSound, Sound
        <4>2. ASSUME NEW i \in Issuer, row[i].ca = req[r].ca,
                     req' = [req EXCEPT ![r].pc = "active", ![r].id = i]
              PROVE  x.pc = "active" /\ x.id = i /\ x.goal = req[r].goal /\ x.ca = req[r].ca
          <5>1. req'[r] = [req[r] EXCEPT !.pc = "active", !.id = i]
            BY <4>2 DEF TypeOK
          <5> QED BY <2>3, <5>1 DEF Handler
        <4> QED BY <2>3, <2>5, <4>1, <4>2, MoveFields DEF AdoptByCA
      <3>2. Bound(r)'
        BY <2>1, <2>3, <3>1 DEF Bound, Before
      <3> QED BY <1>2, <2>1, <2>2, <3>2
    <2>6. CASE GetActive(r) \/ BeginSwitch(r)
      <3>1. /\ req[r].pc \in {"active", "begin"} /\ x.pc \in {"begin", "switch", "sign"}
            /\ x.goal = req[r].goal /\ x.id = req[r].id
        <4>1. ASSUME NEW i, req' = [req EXCEPT ![r].pc = "switch", ![r].seen = i]
              PROVE  x.pc = "switch" /\ x.goal = req[r].goal /\ x.id = req[r].id
          <5>1. req'[r] = [req[r] EXCEPT !.pc = "switch", !.seen = i]
            BY <4>1 DEF TypeOK
          <5> QED BY <2>3, <5>1 DEF Handler
        <4>2. CASE GetActive(r)
          BY <2>3, <4>2, MoveFields DEF GetActive
        <4>3. CASE BeginSwitch(r)
          BY <4>1, <4>3 DEF BeginSwitch
        <4> QED BY <2>6, <4>2, <4>3
      <3>2. Bound(r)'
        BY <2>1, <2>3, <3>1 DEF Bound, Before
      <3> QED BY <1>2, <2>1, <2>2, <3>2
    <2>7. CASE Finish(r)
      BY <1>5, <2>1, <2>7
    <2>8. Lookup(r) \/ AdoptByCA(r) \/ GetActive(r) \/ BeginSwitch(r) \/ Finish(r)
      BY <1>6 DEF Thinks, Fail
    <2> QED BY <2>4, <2>5, <2>6, <2>7, <2>8
  <1>7. ASSUME NEW r \in Request, Insert(r) PROVE SignInv'
    <2>1. UNCHANGED <<process, certs>> /\ ca' = ca /\ conf' = conf /\ boot' = boot
      BY <1>7, InsertStep DEF process
    <2>2. PICK x \in Handler : req' = [req EXCEPT ![r] = x]
      BY <1>7, InsertStep
    <2>3. Bound(r) /\ req[r] \in Handler /\ req'[r] = x /\ req[r].pc = "insert" /\ req[r].id \in Issuer
      BY <1>7, <2>2 DEF SignInv, TypeOK, HandlersSound, Sound, Insert
    <2>4. CASE ~Free(req[r].id, req[r].ca)
      BY <1>5, <1>7, <2>1, <2>4 DEF Insert
    <2>5. CASE Free(req[r].id, req[r].ca)
      <3>1. /\ row'[req[r].id].ca = req[r].ca
            /\ row'[req[r].id].made = IF req[r].goal = "sign" THEN boot ELSE ByHand
            /\ \A i \in Issuer \ {req[r].id} : row'[i] = row[i]
        BY <1>7, <2>3, <2>5 DEF Insert, TypeOK
      <3>2. \A i \in Issuer : Exists(i)' => Before(i)' \/ (row'[i].made = boot' /\ row'[i].ca = ca')
        <4>1. CASE req[r].goal = "sign"
          BY <2>1, <2>3, <3>1, <4>1 DEF SignInv, Exists, Before, Bound
        <4>2. CASE req[r].goal # "sign"
          BY <2>1, <2>3, <3>1, <4>2 DEF SignInv, Exists, Before
        <4> QED BY <4>1, <4>2
      <3>3. \/ x.pc = "idle"
            \/ x.pc \in {"active", "begin"} /\ x.goal = req[r].goal /\ x.id = req[r].id
        <4>1. Known(r)
          BY <1>7, <2>5 DEF Insert
        <4>2. req[r].goal \in {"sign", "create", "activate"}
          BY <2>3 DEF Handler
        <4>3. Move(r, "active") \/ Move(r, "begin") \/ Finish(r)
          BY <4>1, <4>2 DEF Known
        <4>4. CASE Move(r, "active")
          BY <2>3, <4>4, MoveFields
        <4>5. CASE Move(r, "begin")
          BY <2>3, <4>5, MoveFields
        <4>6. CASE Finish(r)
          BY <2>3, <4>6, FinishFields
        <4> QED BY <4>3, <4>4, <4>5, <4>6
      <3>4. Bound(r)'
        BY <2>1, <2>3, <3>1, <3>3 DEF Bound, Before
      <3>5. \A q \in Request : Bound(q)'
        BY <1>1, <2>1, <2>2, <3>4 DEF SignInv, TypeOK
      <3>6. SignedByIssuer'
        BY <2>1, Recorded DEF SignInv
      <3> QED BY <3>2, <3>5, <3>6 DEF SignInv
    <2> QED BY <2>4, <2>5
  <1>8. ASSUME NEW r \in Request, Switch(r) PROVE SignInv'
    <2>1. UNCHANGED <<process, certs>> /\ ca' = ca /\ conf' = conf /\ boot' = boot
      BY <1>8 DEF Switch, process
    <2>2. Bound(r) /\ req[r] \in Handler /\ req[r].pc = "switch" /\ req[r].id \in Issuer
      BY <1>8 DEF SignInv, TypeOK, HandlersSound, Sound, Switch
    <2>3. Activated(r) \/ Finish(r)
      BY <1>8 DEF Switch
    <2>4. PICK x : req' = [req EXCEPT ![r] = x]
      BY <2>3 DEF Activated, Move, Finish
    <2>5. \/ req'[r].pc = "idle"
          \/ req'[r].pc = "sign" /\ req[r].goal = "sign" /\ req'[r].id = req[r].id
      BY <2>3, MoveFields, FinishFields DEF Activated
    <2>6. req[r].goal = "sign" => /\ row'[req[r].id].ca = row[req[r].id].ca
                                  /\ row'[req[r].id].made = row[req[r].id].made
      BY <2>2 DEF HandlersSound, Sound, RowsKept
    <2>7. Bound(r)'
      BY <2>1, <2>2, <2>5, <2>6 DEF Bound, Before
    <2>8. \A q \in Request : Bound(q)'
      BY <1>1, <2>1, <2>4, <2>7 DEF SignInv, TypeOK
    <2>9. \A i \in Issuer : Exists(i)' => Exists(i)
      <3> SUFFICES ASSUME NEW i \in Issuer, row'[i] # NoRow PROVE Exists(i)
        BY DEF Exists
      <3>1. CASE row' = row
        BY <3>1 DEF Exists
      <3>2. CASE row' = Switched(req[r].id, Current(r)) /\ Exists(req[r].id)
        <4>1. CASE i = req[r].id
          BY <3>2, <4>1
        <4>2. CASE i = Current(r) /\ i # req[r].id
          BY <4>2, CurrentActive, NameAssumption DEF Active
        <4>3. CASE i # Current(r) /\ i # req[r].id
          BY <3>2, <4>3 DEF Switched, Exists
        <4> QED BY <4>1, <4>2, <4>3
      <3> QED BY <1>8, <3>1, <3>2 DEF Switch
    <2>10. \A i \in Issuer : Exists(i)' => /\ Exists(i) /\ row'[i].ca = row[i].ca
                                          /\ row'[i].made = row[i].made
      BY <2>9 DEF RowsKept
    <2>11. \A i \in Issuer : Exists(i)' => Before(i)' \/ (row'[i].made = boot' /\ row'[i].ca = ca')
      BY <2>1, <2>10 DEF SignInv, Before
    <2>12. SignedByIssuer'
      BY <2>1, Recorded DEF SignInv
    <2> QED BY <2>8, <2>11, <2>12 DEF SignInv
  <1>9. ASSUME NEW r \in Request, Sign(r) PROVE SignInv'
    <2>1. /\ UNCHANGED <<row, process>> /\ ca' = ca /\ conf' = conf /\ boot' = boot
          /\ req' = [req EXCEPT ![r] = Idle]
          /\ certs' = certs \cup {[issuer |-> req[r].id, ca |-> ca,
                                    conf |-> conf.active, boot |-> boot]}
      BY <1>9 DEF Sign, Finish, process
    <2>2. row[req[r].id].ca = ca \/ (req[r].id = conf.active /\ Before(req[r].id))
      BY <1>9 DEF Sign, HandlersSound, Sound, SignInv, Bound
    <2>3. SignedByIssuer'
      BY <2>1, <2>2 DEF SignInv, SignedByIssuer, Before
    <2>4. Bound(r)'
      BY <2>1 DEF Bound, Idle, TypeOK
    <2>5. \A q \in Request : Bound(q)'
      BY <1>1, <2>1, <2>4 DEF SignInv, TypeOK
    <2>6. \A i \in Issuer : Exists(i)' => Before(i)' \/ (row'[i].made = boot' /\ row'[i].ca = ca')
      BY <2>1 DEF SignInv, Exists, Before
    <2> QED BY <2>3, <2>5, <2>6 DEF SignInv
  <1>10. ASSUME NEW d \in Deployment, Restart(d) PROVE SignInv'
    <2>1. /\ UNCHANGED <<row, certs>> /\ boot' = boot + 1 /\ boot \in Nat
          /\ req' = [r \in Request |-> Idle]
      BY <1>10 DEF Restart, TypeOK
    <2>2. \A q \in Request : Bound(q)'
      BY <2>1 DEF Bound, Idle
    <2>3. ASSUME NEW i \in Issuer, Exists(i)' PROVE Before(i)'
      <3>1. row[i].made \in Nat \cup {ByHand} /\ Exists(i)
        BY <2>1, <2>3 DEF TypeOK, Row, Exists
      <3>2. Before(i) \/ row[i].made = boot
        BY <3>1 DEF SignInv
      <3> QED BY <2>1, <3>1, <3>2 DEF Before
    <2>4. SignedByIssuer'
      BY <2>1, Recorded DEF SignInv
    <2> QED BY <2>2, <2>3, <2>4 DEF SignInv, Exists
  <1>11. CASE UNCHANGED vars
    <2>1. \A q \in Request : Bound(q)'
      BY <1>1, <1>11 DEF vars, process, SignInv
    <2> QED BY <1>11, <2>1 DEF vars, process, SignInv, SignedByIssuer, Exists, Before
  <1> QED BY <1>4, <1>6, <1>7, <1>8, <1>9, <1>10, <1>11 DEF Next, Ensure, Thinks
-----------------------------------------------------------------------------
LEMMA Invariant == Spec => []IInv
  <1>1. Init => IInv
    <2> SUFFICES ASSUME Init PROVE IInv
      OBVIOUS
    <2>1. TypeOK
      BY DeploymentType, IdleType DEF Init, TypeOK
    <2>2. HandlersSound
      BY DEF Init, HandlersSound, Sound, Idle
    <2> QED BY <2>1, <2>2 DEF Init, IInv, OneActiveIssuer, Active, Exists, SignersActivated
  <1>2. IInv /\ [Next]_vars => IInv'
    BY Step, SignedStep DEF IInv, Kept
  <1> QED BY <1>1, <1>2, PTL DEF Spec

\* Every reachable state of the issuers is well typed.
THEOREM TypeCorrect == Spec => []TypeOK
  <1>1. IInv => TypeOK
    BY DEF IInv
  <1> QED BY <1>1, Invariant, PTL

\* Any number of concurrent activations leave one issuer active.
THEOREM OneActive == Spec => []OneActiveIssuer
  <1>1. IInv => OneActiveIssuer
    BY DEF IInv
  <1> QED BY <1>1, Invariant, PTL

\* ensureSigningIssuer never names an issuer that was not activated.
THEOREM SignersAreActivated == Spec => []SignersActivated
  <1>1. IInv => SignersActivated
    BY DEF IInv
  <1> QED BY <1>1, Invariant, PTL

\* An issuer is retired only into the successor that names it.
THEOREM Succession == Spec => RetiredIntoSuccessor
  <1>1. IInv /\ [Next]_vars =>
          [\A i \in Issuer : Active(i) /\ ~Active(i)' =>
             \E j \in Issuer : Active(j)' /\ row'[j].from = i]_vars
    BY Step DEF IInv, Kept
  <1> QED BY <1>1, Invariant, PTL DEF Spec, RetiredIntoSuccessor

\* What SwitchKeepsTrust leaves: within one process an activation ends the trust
\* in one issuer at most, the one it retires, and the successor names that issuer.
TrustEndsBySwitch ==
  \A i \in Issuer : boot' = boot /\ Trusted(i) /\ ~Trusted(i)' =>
    /\ i # conf.active
    /\ \E j \in Issuer : ~Active(j) /\ Active(j)' /\ row'[j].from = i
    /\ \A k \in Issuer \ {i} : Trusted(k) => Trusted(k)'

\* What a switch leaves of validateIssuerTrust.
THEOREM TrustEndsWithItsIssuer == Spec => [][TrustEndsBySwitch]_vars
  <1>1. IInv /\ IInv' /\ [Next]_vars => [TrustEndsBySwitch]_vars
    <2> SUFFICES ASSUME IInv, IInv', [Next]_vars, NEW i \in Issuer,
                        boot' = boot, Trusted(i), ~Trusted(i)'
                 PROVE  /\ i # conf.active
                        /\ \E j \in Issuer : ~Active(j) /\ Active(j)' /\ row'[j].from = i
                        /\ \A k \in Issuer \ {i} : Trusted(k) => Trusted(k)'
      BY DEF TrustEndsBySwitch
    <2>1. conf' = conf
      <3>1. ASSUME NEW d \in Deployment PROVE ~Restart(d)
        BY DEF Restart, IInv, TypeOK
      <3>2. ASSUME NEW r \in Request, Admin(r) \/ Ensure(r) \/ Fail(r) PROVE conf' = conf
        BY <3>2 DEF Admin, Ensure, Fail, BeginCreate, BeginActivate, BeginIssue, Lookup,
           AdoptByCA, Insert, GetActive, BeginSwitch, Switch, Sign, process
      <3> QED BY <3>1, <3>2 DEF Next, vars
    <2>2. Active(i) /\ ~Active(i)' /\ i # conf.active
      BY <2>1 DEF Trusted
    <2>3. PICK j \in Issuer : Active(j)' /\ row'[j].from = i
      BY <2>2, Step DEF IInv, Kept
    <2>4. \A k \in Issuer \ {i} : ~Active(k)
      BY <2>2 DEF IInv, OneActiveIssuer
    <2> QED BY <2>1, <2>2, <2>3, <2>4 DEF Trusted
  <1> QED BY <1>1, Invariant, PTL DEF Spec

\* The issuer on record has the CA that signed, or it was configured and its row
\* was there before the process started.
THEOREM SignedByIssuersCA == Spec => []SignedByIssuer
  <1>1. Init => SignInv
    <2> SUFFICES ASSUME Init PROVE SignInv
      OBVIOUS
    <2>1. (\A i \in Issuer : ~Exists(i)) /\ certs = {}
      BY DEF Init, Exists
    <2>2. \A r \in Request : Bound(r)
      BY DEF Init, Bound, Idle
    <2> QED BY <2>1, <2>2 DEF SignInv, SignedByIssuer
  <1>2. IInv /\ SignInv /\ [Next]_vars => SignInv'
    BY SignInvStep, Step DEF IInv, Kept
  <1>3. SignInv => SignedByIssuer
    BY DEF SignInv
  <1> QED BY <1>1, <1>2, <1>3, Invariant, PTL DEF Spec
=============================================================================
