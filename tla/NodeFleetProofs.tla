--------------------------- MODULE NodeFleetProofs ---------------------------
(***************************************************************************)
(* What a node may rely on, for any number of nodes, requests and          *)
(* certificates.                                                           *)
(***************************************************************************)
EXTENDS NodeFleet, TLAPS

\* Node n was given certificate c, and still has it unless someone took it.
Kept(n, c) ==
  /\ c \in used
  /\ active[n] = c \/ c \in withdrawn \cup expired

\* What a handler carries, from the statement that read it to the one that uses it.
Sound(h) ==
  /\ h.pc # "idle" => h.node \in Node
  /\ h.serial \in used \cup {NoCert}
  /\ h.kind = "register" /\ h.pc = "answer" => Kept(h.node, h.cert)
  /\ h.pc = "revoke" => h.cert \in expired
  /\ h.out => /\ h.pc \in {"load", "verify"}
              /\ status[h.node] # "absent"
              /\ ~Valid(h.node, h.serial)
  /\ /\ h.kind = "register" /\ h.pc \in {"ensure", "revoke", "insert", "answer"}
     /\ status[h.node] = "revoked"
     => h.late

HandlersSound == \A r \in Request : Sound(req[r])
SlotsUsed     == \A n \in Node : active[n] \in used \cup {NoCert}
KnownKept     == \A n \in Node : known[n] # NoCert => Kept(n, known[n])

IInv == TypeOK /\ HandlersSound /\ SlotsUsed /\ KnownKept

\* What every step does to rows, slots and certificates.
Steady ==
  /\ used \subseteq used' /\ expired \subseteq expired' /\ withdrawn \subseteq withdrawn'
  /\ \A n \in Node : status[n] # "absent" => status'[n] # "absent"
  /\ \A n \in Node :
       \/ active'[n] = active[n]
       \/ active'[n] = NoCert /\ active[n] \in withdrawn' \cup expired'
       \/ active[n] = NoCert /\ active'[n] \in CertId \ used /\ active'[n] \in used'

\* No node becomes revoked.
NoneRevoked == \A n \in Node : status'[n] = "revoked" => status[n] = "revoked"

slotsKept == UNCHANGED <<slots, expired, withdrawn>>
-----------------------------------------------------------------------------
LEMMA IdleType == Idle \in Handler /\ Idle.pc = "idle"
  BY DEF Idle, Handler

LEMMA MoveType ==
  ASSUME TypeOK, NEW r \in Request, NEW x \in Handler, req' = [req EXCEPT ![r] = x]
  PROVE  req' \in [Request -> Handler]
  BY DEF TypeOK

LEMMA MoveRecord ==
  ASSUME TypeOK, NEW r \in Request,
         NEW pc \in {"load", "verify", "write", "ensure", "revoke", "insert", "answer"}, Move(r, pc)
  PROVE  \E x \in Handler :
           /\ req' = [req EXCEPT ![r] = x]
           /\ x.pc = pc /\ x.kind = req[r].kind /\ x.node = req[r].node
           /\ x.serial = req[r].serial /\ x.cert = req[r].cert
           /\ x.out = req[r].out /\ x.late = req[r].late
  <1> DEFINE x == [req[r] EXCEPT !.pc = pc]
  <1>1. req[r] \in Handler
    BY DEF TypeOK
  <1>2. /\ x \in Handler
        /\ x.pc = pc /\ x.kind = req[r].kind /\ x.node = req[r].node
        /\ x.serial = req[r].serial /\ x.cert = req[r].cert
        /\ x.out = req[r].out /\ x.late = req[r].late
    BY <1>1 DEF Handler
  <1>3. req' = [req EXCEPT ![r] = x]
    BY DEF Move
  <1> QED BY <1>2, <1>3

\* A handler that goes on with a certificate: Ensure and Insert.
LEMMA CertRecord ==
  ASSUME TypeOK, NEW r \in Request, NEW pc \in {"revoke", "insert", "answer"},
         NEW c \in CertId \cup {NoCert}, Carry(r, pc, c)
  PROVE  \E x \in Handler :
           /\ req' = [req EXCEPT ![r] = x]
           /\ x.pc = pc /\ x.cert = c /\ x.kind = req[r].kind /\ x.node = req[r].node
           /\ x.serial = req[r].serial /\ x.out = req[r].out /\ x.late = req[r].late
  <1> DEFINE x == [req[r] EXCEPT !.pc = pc, !.cert = c]
  <1>1. req[r] \in Handler
    BY DEF TypeOK
  <1>2. /\ x \in Handler
        /\ x.pc = pc /\ x.cert = c /\ x.kind = req[r].kind /\ x.node = req[r].node
        /\ x.serial = req[r].serial /\ x.out = req[r].out /\ x.late = req[r].late
    BY <1>1 DEF Handler
  <1>3. req' = [req EXCEPT ![r] = x]
    BY DEF Carry
  <1> QED BY <1>2, <1>3
-----------------------------------------------------------------------------
(***************************************************************************)
(* What lasts.                                                             *)
(***************************************************************************)
\* A certificate that was given is not taken without leaving a trace.
LEMMA KeptLasts ==
  ASSUME Steady, NEW n \in Node, NEW c \in CertId, Kept(n, c)
  PROVE  Kept(n, c)'
  <1>1. CASE c \in withdrawn \cup expired
    BY <1>1 DEF Kept, Steady
  <1>2. CASE active[n] = c
    BY <1>2, NoneAssumption DEF Kept, Steady
  <1> QED BY <1>1, <1>2 DEF Kept

\* No serial number that is not valid becomes valid later.
LEMMA BadLasts ==
  ASSUME Steady, NEW n \in Node, NEW c \in used \cup {NoCert}, ~Valid(n, c)
  PROVE  ~Valid(n, c)'
  BY DEF Valid, Steady

LEMMA SoundLasts ==
  ASSUME IInv, Steady, NEW h \in Handler, Sound(h),
         \/ NoneRevoked
         \/ h.late
         \/ ~(h.kind = "register" /\ h.pc \in {"ensure", "revoke", "insert", "answer"})
  PROVE  Sound(h)'
  <1>1. h.pc # "idle" => h.node \in Node
    BY DEF Sound
  <1>2. (h.serial \in used \cup {NoCert})'
    BY DEF Sound, Steady
  <1>3. h.kind = "register" /\ h.pc = "answer" => Kept(h.node, h.cert)'
    <2> SUFFICES ASSUME h.kind = "register", h.pc = "answer" PROVE Kept(h.node, h.cert)'
      OBVIOUS
    <2>1. Kept(h.node, h.cert) /\ h.cert \in CertId
      BY DEF Sound, Kept, IInv, TypeOK
    <2> QED BY <1>1, <2>1, KeptLasts
  <1>4. h.pc = "revoke" => h.cert \in expired'
    BY DEF Sound, Steady
  <1>5. h.out => /\ h.pc \in {"load", "verify"}
                 /\ status'[h.node] # "absent"
                 /\ ~Valid(h.node, h.serial)'
    <2> SUFFICES ASSUME h.out
                 PROVE  /\ h.pc \in {"load", "verify"}
                        /\ status'[h.node] # "absent"
                        /\ ~Valid(h.node, h.serial)'
      OBVIOUS
    <2> QED BY <1>1, BadLasts DEF Sound, Steady
  <1>6. /\ h.kind = "register" /\ h.pc \in {"ensure", "revoke", "insert", "answer"}
        /\ status'[h.node] = "revoked"
        => h.late
    BY <1>1 DEF Sound, NoneRevoked
  <1> QED BY <1>1, <1>2, <1>3, <1>4, <1>5, <1>6 DEF Sound
-----------------------------------------------------------------------------
(***************************************************************************)
(* The actions one by one: types, and what they leave steady.              *)
(***************************************************************************)
LEMMA InstallSteady ==
  ASSUME TypeOK, NEW n \in Node, NEW c \in CertId, Install(n, c),
         UNCHANGED <<status, expired, withdrawn>>
  PROVE  /\ Steady /\ NoneRevoked
         /\ c \notin used /\ active[n] = NoCert
         /\ active' = [active EXCEPT ![n] = c] /\ used' = used \cup {c}
  BY DEF Install, Slot!Install, Steady, NoneRevoked, TypeOK

LEMMA UnslottedSteady ==
  ASSUME TypeOK, slotsKept, status' = status
  PROVE  Steady /\ NoneRevoked
  BY DEF slotsKept, slots, Steady, NoneRevoked

\* A handler returns, and a node that waits for it gets an error.
LEMMA RefusedEffect ==
  ASSUME TypeOK, NEW r \in Request, Refused(r)
  PROVE  /\ req' = [req EXCEPT ![r] = Idle] /\ req' \in [Request -> Handler]
         /\ waiting' \in [Node -> Request \cup {NoReq}]
  <1>1. req' = [req EXCEPT ![r] = Idle] /\ req' \in [Request -> Handler]
    BY IdleType, MoveType DEF Refused, Leave
  <1>2. waiting' \in [Node -> Request \cup {NoReq}]
    BY DEF Refused, TypeOK
  <1> QED BY <1>1, <1>2

LEMMA IdleSound == Sound(Idle)'
  BY DEF Sound, Idle

\* A step of one handler leaves all handlers sound if it leaves that one sound.
LEMMA OneMoves ==
  ASSUME IInv, Steady, NoneRevoked, NEW r \in Request, NEW x,
         req' = [req EXCEPT ![r] = x], Sound(x)'
  PROVE  HandlersSound'
  <1> SUFFICES ASSUME NEW q \in Request PROVE Sound(req[q])'
    BY DEF HandlersSound
  <1>1. CASE q = r
    <2>1. req'[q] = x
      BY <1>1 DEF IInv, TypeOK
    <2> QED BY <2>1 DEF Sound, Kept, Valid
  <1>2. CASE q # r
    <2>1. PICK h \in Handler : h = req[q]
      BY DEF IInv, TypeOK
    <2>2. req'[q] = h
      BY <1>2, <2>1 DEF IInv, TypeOK
    <2>3. Sound(h)
      BY <2>1 DEF IInv, HandlersSound
    <2>4. Sound(h)'
      BY <2>3, SoundLasts
    <2> QED BY <2>2, <2>4 DEF Sound, Kept, Valid
  <1> QED BY <1>1, <1>2

\* No handler moves.
LEMMA NoneMoves ==
  ASSUME IInv, Steady, NoneRevoked, req' = req
  PROVE  HandlersSound'
  <1> SUFFICES ASSUME NEW q \in Request PROVE Sound(req[q])'
    BY DEF HandlersSound
  <1>1. PICK h \in Handler : h = req[q]
    BY DEF IInv, TypeOK
  <1>2. Sound(h)
    BY <1>1 DEF IInv, HandlersSound
  <1>3. Sound(h)'
    BY <1>2, SoundLasts
  <1> QED BY <1>1, <1>3 DEF Sound, Kept, Valid

\* The parts of the invariant that speak of slots and of what nodes know.
LEMMA SlotsStay ==
  ASSUME IInv, Steady, UNCHANGED known
  PROVE  SlotsUsed' /\ KnownKept'
  <1>1. SlotsUsed'
    BY DEF IInv, SlotsUsed, Steady
  <1>2. KnownKept'
    <2> SUFFICES ASSUME NEW n \in Node, known[n] # NoCert PROVE Kept(n, known[n])'
      BY DEF KnownKept
    <2>1. PICK c \in CertId : c = known[n]
      BY DEF IInv, TypeOK
    <2>2. Kept(n, c)'
      BY <2>1, KeptLasts DEF IInv, KnownKept
    <2> QED BY <2>1, <2>2
  <1> QED BY <1>1, <1>2

\* A handler that ends, whatever else the step does within these bounds.
LEMMA RefusedStep ==
  ASSUME IInv, NEW r \in Request, Refused(r),
         UNCHANGED <<status, slots, expired, distrusted, phase, known, withdrawn>>
  PROVE  IInv'
  <1>1. Steady /\ NoneRevoked
    BY UnslottedSteady DEF slotsKept, slots, IInv
  <1>2. TypeOK'
    BY RefusedEffect DEF IInv, TypeOK, slots
  <1>3. HandlersSound'
    BY <1>1, RefusedEffect, OneMoves, IdleSound DEF IInv
  <1> QED BY <1>1, <1>2, <1>3, SlotsStay DEF IInv

\* A handler that goes on within its node's row and slot.
LEMMA MoveStep ==
  ASSUME IInv, NEW r \in Request, NEW x \in Handler, req' = [req EXCEPT ![r] = x], Sound(x)',
         status' \in [Node -> {"absent", "pending", "active", "revoked"}],
         Steady, NoneRevoked, UNCHANGED <<slots, expired, process, withdrawn>>,
         distrusted' \subseteq CertId
  PROVE  IInv'
  <1>1. TypeOK'
    BY MoveType DEF IInv, TypeOK, slots, process
  <1>2. HandlersSound'
    BY OneMoves
  <1> QED BY <1>1, <1>2, SlotsStay DEF IInv, process

LEMMA SendStep ==
  ASSUME IInv, NEW n \in Node, Send(n)
  PROVE  IInv'
  <1>1. PICK r \in Request :
          /\ req' = [req EXCEPT ![r] = [Idle EXCEPT !.pc = "load", !.kind = phase[n], !.node = n,
                                                    !.serial = known[n], !.out = ShutOut(n)]]
          /\ waiting' = [waiting EXCEPT ![n] = r]
    BY DEF Send
  <1>2. PICK x \in Handler :
          /\ req' = [req EXCEPT ![r] = x]
          /\ x.pc = "load" /\ x.node = n /\ x.serial = known[n] /\ x.out = ShutOut(n)
    <2> DEFINE x == [Idle EXCEPT !.pc = "load", !.kind = phase[n], !.node = n,
                                 !.serial = known[n], !.out = ShutOut(n)]
    <2>1. ShutOut(n) \in BOOLEAN
      BY DEF ShutOut
    <2>2. x \in Handler
      BY <2>1, IdleType DEF Handler, IInv, TypeOK
    <2>3. x.pc = "load" /\ x.node = n /\ x.serial = known[n] /\ x.out = ShutOut(n)
      BY DEF Idle
    <2> QED BY <1>1, <2>2, <2>3
  <1>3. Steady /\ NoneRevoked
    BY UnslottedSteady DEF Send, slotsKept, slots, IInv
  <1>4. TypeOK'
    BY <1>1, <1>2, MoveType DEF Send, IInv, TypeOK, slots
  <1>5. Sound(x)'
    <2>1. x.serial \in used \cup {NoCert}
      BY <1>2 DEF IInv, KnownKept, Kept
    <2>2. UNCHANGED <<status, used, active, expired>>
      BY DEF Send, slots
    <2> QED BY <1>2, <2>1, <2>2 DEF Sound, ShutOut, Valid
  <1>6. HandlersSound'
    BY <1>2, <1>3, <1>5, OneMoves
  <1>7. UNCHANGED known
    BY DEF Send
  <1> QED BY <1>3, <1>4, <1>6, <1>7, SlotsStay DEF IInv

LEMMA LoadStep ==
  ASSUME IInv, NEW r \in Request, Load(r)
  PROVE  IInv'
  <1>1. CASE Refused(r)
    BY <1>1, RefusedStep DEF Load
  <1>2. CASE ~Refused(r)
    <2>1. PICK h \in Handler : h = req[r]
      BY DEF IInv, TypeOK
    <2>2. Sound(h) /\ h.pc = "load"
      BY <2>1 DEF IInv, HandlersSound, Load
    <2>3. PICK pc \in {"write", "verify"} :
            Move(r, pc) /\ (pc = "write" => status[h.node] = "absent")
      BY <1>2, <2>1 DEF Load
    <2>4. PICK x \in Handler :
            /\ req' = [req EXCEPT ![r] = x] /\ x.pc = pc /\ x.node = h.node
            /\ x.serial = h.serial /\ x.out = h.out
      BY <2>1, <2>3, MoveRecord DEF IInv
    <2>5. UNCHANGED <<status, slots, expired, distrusted, process, withdrawn>>
      BY <1>2 DEF Load, process
    <2>6. Steady /\ NoneRevoked
      BY <2>5, UnslottedSteady DEF slotsKept, IInv
    <2>7. Sound(x)'
      BY <2>2, <2>3, <2>4, <2>5 DEF Sound, Valid, slots
    <2> QED BY <2>4, <2>5, <2>6, <2>7, MoveStep DEF IInv, TypeOK
  <1> QED BY <1>1, <1>2

LEMMA VerifyStep ==
  ASSUME IInv, NEW r \in Request, Verify(r)
  PROVE  IInv'
  <1>1. CASE Refused(r)
    BY <1>1, RefusedStep DEF Verify
  <1>2. CASE ~Refused(r)
    <2>1. PICK h \in Handler : h = req[r]
      BY DEF IInv, TypeOK
    <2>2. Sound(h) /\ h.pc = "verify"
      BY <2>1 DEF IInv, HandlersSound, Verify
    <2>3. Move(r, "write") /\ Good(h.node, h.serial)
      BY <1>2, <2>1 DEF Verify
    <2>4. PICK x \in Handler :
            /\ req' = [req EXCEPT ![r] = x] /\ x.pc = "write" /\ x.node = h.node
            /\ x.serial = h.serial /\ x.out = h.out
      BY <2>1, <2>3, MoveRecord DEF IInv
    <2>5. UNCHANGED <<status, slots, expired, distrusted, process, withdrawn>>
      BY <1>2 DEF Verify, process
    <2>6. Steady /\ NoneRevoked
      BY <2>5, UnslottedSteady DEF slotsKept, IInv
    <2>7. Sound(x)'
      BY <2>2, <2>3, <2>4, <2>5 DEF Sound, Valid, Good, slots
    <2> QED BY <2>4, <2>5, <2>6, <2>7, MoveStep DEF IInv, TypeOK
  <1> QED BY <1>1, <1>2

\* A row changes its status, and no node becomes revoked.
LEMMA StatusSteady ==
  ASSUME IInv, NEW n \in Node, NEW s \in {"pending", "active"},
         status' = [status EXCEPT ![n] = s], slotsKept
  PROVE  /\ Steady /\ NoneRevoked /\ status'[n] = s
         /\ status' \in [Node -> {"absent", "pending", "active", "revoked"}]
  BY DEF IInv, TypeOK, Steady, NoneRevoked, slotsKept, slots

LEMMA UpsertStep ==
  ASSUME IInv, NEW r \in Request, Upsert(r)
  PROVE  IInv'
  <1>1. CASE Refused(r) /\ UNCHANGED status
    BY <1>1, RefusedStep DEF Upsert
  <1>2. CASE ~(Refused(r) /\ UNCHANGED status)
    <2>1. PICK h \in Handler : h = req[r]
      BY DEF IInv, TypeOK
    <2>2. Sound(h) /\ h.pc = "write" /\ h.node \in Node
      BY <2>1 DEF IInv, HandlersSound, Upsert, Sound
    <2>3. status' = [status EXCEPT ![h.node] = "pending"] /\ Move(r, "ensure")
      BY <1>2, <2>1 DEF Upsert
    <2>4. PICK x \in Handler :
            /\ req' = [req EXCEPT ![r] = x] /\ x.pc = "ensure" /\ x.node = h.node
            /\ x.serial = h.serial /\ x.out = h.out
      BY <2>1, <2>3, MoveRecord DEF IInv
    <2>5. UNCHANGED <<slots, expired, distrusted, process, withdrawn>>
      BY <1>2 DEF Upsert, process
    <2>6. /\ Steady /\ NoneRevoked /\ status'[h.node] = "pending"
          /\ status' \in [Node -> {"absent", "pending", "active", "revoked"}]
      BY <2>2, <2>3, <2>5, StatusSteady DEF slotsKept
    <2>7. Sound(x)'
      BY <2>2, <2>4, <2>5, <2>6 DEF Sound, slots
    <2> QED BY <2>4, <2>5, <2>6, <2>7, MoveStep DEF IInv, TypeOK
  <1> QED BY <1>1, <1>2

LEMMA TouchStep ==
  ASSUME IInv, NEW r \in Request, Touch(r)
  PROVE  IInv'
  <1>1. CASE Refused(r) /\ UNCHANGED status
    BY <1>1, RefusedStep DEF Touch
  <1>2. CASE ~(Refused(r) /\ UNCHANGED status)
    <2>1. PICK h \in Handler : h = req[r]
      BY DEF IInv, TypeOK
    <2>2. Sound(h) /\ h.pc = "write" /\ h.node \in Node /\ h.kind = "heartbeat"
      BY <2>1 DEF IInv, HandlersSound, Touch, Sound
    <2>3. status' = [status EXCEPT ![h.node] = "active"] /\ Move(r, "answer")
      BY <1>2, <2>1 DEF Touch
    <2>4. PICK x \in Handler :
            /\ req' = [req EXCEPT ![r] = x] /\ x.pc = "answer" /\ x.node = h.node
            /\ x.kind = h.kind /\ x.serial = h.serial /\ x.out = h.out
      BY <2>1, <2>3, MoveRecord DEF IInv
    <2>5. UNCHANGED <<slots, expired, distrusted, process, withdrawn>>
      BY <1>2 DEF Touch, process
    <2>6. /\ Steady /\ NoneRevoked /\ status'[h.node] = "active"
          /\ status' \in [Node -> {"absent", "pending", "active", "revoked"}]
      BY <2>2, <2>3, <2>5, StatusSteady DEF slotsKept
    <2>7. Sound(x)'
      BY <2>2, <2>4, <2>5, <2>6 DEF Sound, slots
    <2> QED BY <2>4, <2>5, <2>6, <2>7, MoveStep DEF IInv, TypeOK
  <1> QED BY <1>1, <1>2

LEMMA EnsureStep ==
  ASSUME IInv, NEW r \in Request, Ensure(r)
  PROVE  IInv'
  <1>1. PICK h \in Handler : h = req[r]
    BY DEF IInv, TypeOK
  <1>2. Sound(h) /\ h.pc = "ensure" /\ h.node \in Node
    BY <1>1 DEF IInv, HandlersSound, Ensure, Sound
  <1>3. PICK c \in used \cup {NoCert} : c = active[h.node]
    BY <1>2 DEF IInv, SlotsUsed
  <1>4. PICK pc \in {"revoke", "insert", "answer"} :
          /\ Ensures(r, pc)
          /\ pc = "revoke" => c \in expired
          /\ pc = "answer" => c # NoCert
    BY <1>1, <1>3 DEF Ensure
  <1>5. UNCHANGED <<status, slots, expired, process, withdrawn>>
    BY <1>4 DEF Ensures
  <1>6. PICK x \in Handler :
          /\ req' = [req EXCEPT ![r] = x] /\ x.pc = pc /\ x.cert = c
          /\ x.kind = h.kind /\ x.node = h.node /\ x.serial = h.serial
          /\ x.out = h.out /\ x.late = h.late
    <2>1. Carry(r, pc, c) /\ c \in CertId \cup {NoCert}
      BY <1>1, <1>3, <1>4 DEF Ensures, IInv, TypeOK
    <2> QED BY <1>1, <2>1, CertRecord DEF IInv
  <1>9. distrusted' \subseteq CertId
    BY <1>4 DEF Ensures, IssuersChange, IInv, TypeOK
  <1>7. Steady /\ NoneRevoked
    BY <1>5, UnslottedSteady DEF slotsKept, IInv
  <1>8. Sound(x)'
    <2>1. pc = "answer" => Kept(h.node, c)
      BY <1>3, <1>4 DEF Kept
    <2> QED BY <1>2, <1>4, <1>5, <1>6, <2>1 DEF Sound, Kept, slots
  <1> QED BY <1>5, <1>6, <1>7, <1>8, <1>9, MoveStep DEF IInv, TypeOK

\* A slot that is emptied leaves its certificate withdrawn or expired.
LEMMA RetireSteady ==
  ASSUME IInv, NEW n \in Node, Slot!Retire(n), UNCHANGED <<status, expired>>,
         withdrawn \subseteq withdrawn', active[n] \in withdrawn' \cup expired'
  PROVE  /\ Steady /\ NoneRevoked
         /\ active' \in [Node -> CertId \cup {NoCert}] /\ used' = used
  BY DEF IInv, TypeOK, Slot!Retire, Steady, NoneRevoked

LEMMA RevokeSeenStep ==
  ASSUME IInv, NEW r \in Request, RevokeSeen(r)
  PROVE  IInv'
  <1>1. PICK h \in Handler : h = req[r]
    BY DEF IInv, TypeOK
  <1>2. Sound(h) /\ h.pc = "revoke" /\ h.node \in Node /\ h.cert \in expired
    BY <1>1 DEF IInv, HandlersSound, RevokeSeen, Sound
  <1>3. Move(r, "insert") /\ UNCHANGED <<status, expired, distrusted, process, withdrawn>>
    BY DEF RevokeSeen
  <1>4. /\ Steady /\ NoneRevoked
        /\ active' \in [Node -> CertId \cup {NoCert}] /\ used' = used
    <2>1. CASE active[h.node] = h.cert
      <3>1. Slot!Retire(h.node)
        BY <1>1, <2>1 DEF RevokeSeen
      <3> QED BY <1>2, <1>3, <2>1, <3>1, RetireSteady
    <2>2. CASE active[h.node] # h.cert
      <3>1. slotsKept
        BY <1>1, <1>3, <2>2 DEF RevokeSeen, slotsKept
      <3> QED BY <1>3, <3>1, UnslottedSteady DEF slotsKept, slots, IInv, TypeOK
    <2> QED BY <2>1, <2>2
  <1>5. PICK x \in Handler :
          /\ req' = [req EXCEPT ![r] = x] /\ x.pc = "insert"
          /\ x.kind = h.kind /\ x.node = h.node /\ x.serial = h.serial
          /\ x.out = h.out /\ x.late = h.late
    BY <1>1, <1>3, MoveRecord DEF IInv
  <1>6. Sound(x)'
    BY <1>2, <1>3, <1>4, <1>5 DEF Sound
  <1>7. TypeOK'
    BY <1>3, <1>4, <1>5, MoveType DEF IInv, TypeOK, process
  <1>8. HandlersSound'
    BY <1>4, <1>5, <1>6, OneMoves
  <1> QED BY <1>3, <1>4, <1>7, <1>8, SlotsStay DEF IInv, process

LEMMA InsertStep ==
  ASSUME IInv, NEW r \in Request, Insert(r)
  PROVE  IInv'
  <1>1. PICK h \in Handler : h = req[r]
    BY DEF IInv, TypeOK
  <1>2. Sound(h) /\ h.pc = "insert" /\ h.node \in Node
    BY <1>1 DEF IInv, HandlersSound, Insert, Sound
  <1>3. UNCHANGED <<status, expired, process, withdrawn>>
    BY DEF Insert
  <1>4. PICK c \in CertId : Install(h.node, c) /\ Carry(r, "answer", c)
    BY <1>1 DEF Insert
  <1>5. /\ Steady /\ NoneRevoked
        /\ active' = [active EXCEPT ![h.node] = c] /\ used' = used \cup {c}
    BY <1>2, <1>3, <1>4, InstallSteady DEF IInv
  <1>6. distrusted' \subseteq CertId
    BY <1>4 DEF Install, IInv, TypeOK
  <1>7. PICK x \in Handler :
          /\ req' = [req EXCEPT ![r] = x] /\ x.pc = "answer" /\ x.cert = c
          /\ x.kind = h.kind /\ x.node = h.node /\ x.serial = h.serial
          /\ x.out = h.out /\ x.late = h.late
    BY <1>1, <1>4, CertRecord DEF IInv
  <1>8. Sound(x)'
    <2>1. Kept(h.node, c)'
      BY <1>2, <1>5 DEF Kept, IInv, TypeOK
    <2> QED BY <1>2, <1>3, <1>5, <1>7, <2>1 DEF Sound, Kept
  <1>9. TypeOK'
    BY <1>2, <1>3, <1>5, <1>6, <1>7, MoveType DEF IInv, TypeOK, process
  <1>10. HandlersSound'
    BY <1>5, <1>7, <1>8, OneMoves
  <1> QED BY <1>3, <1>5, <1>9, <1>10, SlotsStay DEF IInv, process

LEMMA AnswerStep ==
  ASSUME IInv, NEW r \in Request, Answer(r)
  PROVE  IInv'
  <1>1. PICK h \in Handler : h = req[r]
    BY DEF IInv, TypeOK
  <1>2. Sound(h) /\ h.pc = "answer" /\ h.node \in Node
    BY <1>1 DEF IInv, HandlersSound, Answer, Sound
  <1>3. UNCHANGED <<status, slots, expired, distrusted, withdrawn>> /\ req' = [req EXCEPT ![r] = Idle]
    BY DEF Answer, Leave
  <1>4. Steady /\ NoneRevoked
    BY <1>3, UnslottedSteady DEF slotsKept, IInv
  <1>5. \/ UNCHANGED known
        \/ known' = [known EXCEPT ![h.node] = h.cert] /\ h.kind = "register"
    BY <1>1 DEF Answer, process
  <1>6. TypeOK'
    <2>1. /\ waiting' \in [Node -> Request \cup {NoReq}]
          /\ phase' \in [Node -> {"register", "heartbeat"}]
      BY DEF Answer, process, IInv, TypeOK
    <2>2. known' \in [Node -> CertId \cup {NoCert}]
      BY <1>5 DEF IInv, TypeOK, Handler
    <2> QED BY <1>3, <2>1, <2>2, IdleType, MoveType DEF IInv, TypeOK, slots
  <1>7. HandlersSound'
    BY <1>3, <1>4, IdleSound, OneMoves
  <1>8. SlotsUsed'
    BY <1>4 DEF IInv, SlotsUsed, Steady
  <1>9. KnownKept'
    <2> SUFFICES ASSUME NEW n \in Node, known'[n] # NoCert PROVE Kept(n, known[n])'
      BY DEF KnownKept
    <2>1. Kept(n, known'[n])
      BY <1>2, <1>5 DEF Sound, IInv, KnownKept, TypeOK
    <2> QED BY <1>3, <2>1 DEF Kept, slots
  <1> QED BY <1>6, <1>7, <1>8, <1>9 DEF IInv
-----------------------------------------------------------------------------
(***************************************************************************)
(* Operators, the sweep, time and the node itself.                         *)
(***************************************************************************)
LEMMA GiveUpStep ==
  ASSUME IInv, NEW n \in Node, GiveUp(n) \/ Reboot(n)
  PROVE  IInv'
  <1>1. UNCHANGED <<status, slots, expired, distrusted, req, withdrawn>>
    BY DEF GiveUp, Reboot
  <1>2. TypeOK'
    <2>1. known' \in [Node -> CertId \cup {NoCert}]
      BY DEF GiveUp, Reboot, IInv, TypeOK
    <2>2. phase' \in [Node -> {"register", "heartbeat"}]
      BY DEF GiveUp, Reboot, IInv, TypeOK
    <2>3. waiting' \in [Node -> Request \cup {NoReq}]
      BY DEF GiveUp, Reboot, IInv, TypeOK
    <2> QED BY <1>1, <2>1, <2>2, <2>3 DEF IInv, TypeOK, slots
  <1>3. Steady /\ NoneRevoked
    BY <1>1, UnslottedSteady DEF slotsKept, IInv
  <1>4. HandlersSound'
    BY <1>1, <1>3, NoneMoves
  <1>5. SlotsUsed'
    BY <1>1 DEF IInv, SlotsUsed, slots
  <1>6. KnownKept'
    <2> SUFFICES ASSUME NEW m \in Node, known'[m] # NoCert PROVE Kept(m, known[m])'
      BY DEF KnownKept
    <2>1. known'[m] = known[m]
      BY DEF GiveUp, Reboot, IInv, TypeOK
    <2> QED BY <1>1, <2>1 DEF IInv, KnownKept, Kept, slots
  <1> QED BY <1>2, <1>4, <1>5, <1>6 DEF IInv

LEMMA RetireStep ==
  ASSUME IInv, NEW n \in Node, Retire(n)
  PROVE  IInv'
  <1>1. Slot!Retire(n) /\ UNCHANGED <<status, expired, process, req>>
    BY DEF Retire
  <1>2. /\ withdrawn' = withdrawn \cup ({active[n]} \ expired) /\ active[n] \in CertId
        /\ distrusted' = distrusted \ {active[n]}
    BY <1>1 DEF Retire, Slot!Retire, IInv, TypeOK
  <1>3. /\ Steady /\ NoneRevoked
        /\ active' \in [Node -> CertId \cup {NoCert}] /\ used' = used
    BY <1>1, <1>2, RetireSteady
  <1>4. TypeOK'
    BY <1>1, <1>2, <1>3 DEF IInv, TypeOK, process
  <1>5. HandlersSound'
    BY <1>1, <1>3, NoneMoves
  <1> QED BY <1>1, <1>3, <1>4, <1>5, SlotsStay DEF IInv, process

LEMMA FillStep ==
  ASSUME IInv, NEW n \in Node, Fill(n)
  PROVE  IInv'
  <1>1. UNCHANGED <<status, expired, process, req, withdrawn>>
    BY DEF Fill
  <1>2. PICK c \in CertId : Install(n, c)
    BY DEF Fill
  <1>3. /\ Steady /\ NoneRevoked
        /\ active' = [active EXCEPT ![n] = c] /\ used' = used \cup {c}
    BY <1>1, <1>2, InstallSteady DEF IInv
  <1>4. distrusted' \subseteq CertId
    BY <1>2 DEF Install, IInv, TypeOK
  <1>5. TypeOK'
    BY <1>1, <1>3, <1>4 DEF IInv, TypeOK, process
  <1>6. HandlersSound'
    BY <1>1, <1>3, NoneMoves
  <1> QED BY <1>1, <1>3, <1>5, <1>6, SlotsStay DEF IInv, process

LEMMA HandOverStep ==
  ASSUME IInv, NEW n \in Node, HandOver(n)
  PROVE  IInv'
  <1>1. UNCHANGED <<status, slots, expired, distrusted, phase, waiting, req, withdrawn>>
    BY DEF HandOver
  <1>2. active[n] \in CertId /\ known' = [known EXCEPT ![n] = active[n]]
    BY DEF HandOver, IInv, TypeOK
  <1>3. Steady /\ NoneRevoked
    BY <1>1, UnslottedSteady DEF slotsKept, IInv
  <1>4. TypeOK'
    BY <1>1, <1>2 DEF IInv, TypeOK, slots
  <1>5. HandlersSound'
    BY <1>1, <1>3, NoneMoves
  <1>6. SlotsUsed'
    BY <1>1 DEF IInv, SlotsUsed, slots
  <1>7. KnownKept'
    <2> SUFFICES ASSUME NEW m \in Node, known'[m] # NoCert PROVE Kept(m, known[m])'
      BY DEF KnownKept
    <2>1. Kept(m, known'[m])
      <3>1. CASE m = n
        BY <1>2, <3>1 DEF IInv, TypeOK, SlotsUsed, Kept
      <3>2. CASE m # n
        BY <1>2, <3>2 DEF IInv, TypeOK, KnownKept
      <3> QED BY <3>1, <3>2
    <2> QED BY <1>1, <2>1 DEF Kept, slots
  <1> QED BY <1>4, <1>5, <1>6, <1>7 DEF IInv

LEMMA ExpireStep ==
  ASSUME IInv, NEW n \in Node, Expire(n)
  PROVE  IInv'
  <1>1. UNCHANGED <<status, slots, process, req, withdrawn>>
    BY DEF Expire
  <1>2. /\ expired' = expired \cup {active[n]} /\ active[n] \in CertId
        /\ distrusted' = distrusted \ {active[n]}
    BY DEF Expire, IInv, TypeOK
  <1>3. Steady /\ NoneRevoked
    BY <1>1, <1>2 DEF Steady, NoneRevoked, slots
  <1>4. TypeOK'
    BY <1>1, <1>2 DEF IInv, TypeOK, slots, process
  <1>5. HandlersSound'
    BY <1>1, <1>3, NoneMoves
  <1> QED BY <1>1, <1>3, <1>4, <1>5, SlotsStay DEF IInv, process

LEMMA SwitchStep ==
  ASSUME IInv, SwitchIssuers
  PROVE  IInv'
  <1>1. UNCHANGED <<status, slots, expired, process, req, withdrawn>>
    BY DEF SwitchIssuers
  <1>2. distrusted' \subseteq CertId
    BY DEF SwitchIssuers, IssuersChange, IInv, TypeOK
  <1>3. Steady /\ NoneRevoked
    BY <1>1, UnslottedSteady DEF slotsKept, IInv
  <1>4. TypeOK'
    BY <1>1, <1>2 DEF IInv, TypeOK, slots, process
  <1>5. HandlersSound'
    BY <1>1, <1>3, NoneMoves
  <1> QED BY <1>1, <1>3, <1>4, <1>5, SlotsStay DEF IInv, process

\* A registration that has read the status of the node's row is marked when the
\* node is revoked; it is the same otherwise.
LEMMA Marked ==
  ASSUME IInv, NEW n \in Node, RevokeNode(n), NEW q \in Request
  PROVE  \E h, x \in Handler :
           /\ req[q] = h /\ req'[q] = x
           /\ x.pc = h.pc /\ x.kind = h.kind /\ x.node = h.node
           /\ x.serial = h.serial /\ x.cert = h.cert /\ x.out = h.out
           /\ (h.late => x.late) /\ (q \in Past(n) => x.late)
  <1>1. PICK h \in Handler : h = req[q]
    BY DEF IInv, TypeOK
  <1>2. CASE q \in Past(n)
    <2> DEFINE x == [h EXCEPT !.late = TRUE]
    <2>1. /\ x \in Handler
          /\ x.pc = h.pc /\ x.kind = h.kind /\ x.node = h.node
          /\ x.serial = h.serial /\ x.cert = h.cert /\ x.out = h.out /\ x.late
      BY DEF Handler
    <2>2. req'[q] = x
      BY <1>1, <1>2 DEF RevokeNode
    <2> QED BY <1>1, <2>1, <2>2
  <1>3. CASE q \notin Past(n)
    <2>1. req'[q] = h
      BY <1>1, <1>3 DEF RevokeNode
    <2> QED BY <1>1, <1>3, <2>1
  <1> QED BY <1>2, <1>3

LEMMA RevokeNodeStep ==
  ASSUME IInv, NEW n \in Node, RevokeNode(n)
  PROVE  IInv'
  <1>1. UNCHANGED <<slots, expired, distrusted, process, withdrawn>>
    BY DEF RevokeNode
  <1>2. status' = [status EXCEPT ![n] = "revoked"]
    BY DEF RevokeNode
  <1>3. Steady
    BY <1>1, <1>2 DEF Steady, IInv, TypeOK, slots
  <1>4. TypeOK'
    <2>1. req' \in [Request -> Handler]
      <3>1. DOMAIN req' = Request /\ \A q \in Request : req'[q] \in Handler
        BY Marked DEF RevokeNode
      <3>2. req' = [q \in Request |-> req'[q]]
        BY DEF RevokeNode
      <3> QED BY <3>1, <3>2
    <2> QED BY <1>1, <1>2, <2>1 DEF IInv, TypeOK, slots, process
  <1>5. HandlersSound'
    <2> SUFFICES ASSUME NEW q \in Request PROVE Sound(req[q])'
      BY DEF HandlersSound
    <2>1. PICK h, x \in Handler :
            /\ req[q] = h /\ req'[q] = x
            /\ x.pc = h.pc /\ x.kind = h.kind /\ x.node = h.node
            /\ x.serial = h.serial /\ x.cert = h.cert /\ x.out = h.out
            /\ (h.late => x.late) /\ (q \in Past(n) => x.late)
      BY Marked
    <2>2. Sound(h)
      BY <2>1 DEF IInv, HandlersSound
    <2>3. Sound(x)
      BY <2>1, <2>2 DEF Sound
    <2>4. Sound(x)'
      <3>1. CASE x.node = n /\ x.kind = "register" /\ x.pc \in {"ensure", "revoke", "insert", "answer"}
        <4>1. x.late
          BY <2>1, <3>1 DEF Past
        <4> QED BY <1>3, <2>3, <4>1, SoundLasts
      <3>2. CASE x.node # n
        <4>1. UNCHANGED <<active, used, expired, distrusted, withdrawn>>
          BY <1>1 DEF slots
        <4>2. status'[x.node] = status[x.node] \/ x.pc = "idle"
          BY <1>2, <2>3, <3>2 DEF Sound, IInv, TypeOK
        <4> QED BY <1>3, <2>3, <4>1, <4>2 DEF Sound, Kept, Valid
      <3>3. CASE ~(x.kind = "register" /\ x.pc \in {"ensure", "revoke", "insert", "answer"})
        BY <1>3, <2>3, <3>3, SoundLasts
      <3> QED BY <3>1, <3>2, <3>3
    <2> QED BY <2>1, <2>4 DEF Sound, Kept, Valid
  <1> QED BY <1>1, <1>3, <1>4, <1>5, SlotsStay DEF IInv, process

LEMMA StatusStep ==
  ASSUME IInv, NEW n \in Node, ReactivateNode(n) \/ MarkNodeRuntimeOnline(n)
  PROVE  IInv'
  <1>1. UNCHANGED <<slots, expired, distrusted, process, req, withdrawn>>
    BY DEF ReactivateNode, MarkNodeRuntimeOnline
  <1>2. PICK s \in {"pending", "active"} : status' = [status EXCEPT ![n] = s]
    BY DEF ReactivateNode, MarkNodeRuntimeOnline
  <1>3. /\ Steady /\ NoneRevoked
        /\ status' \in [Node -> {"absent", "pending", "active", "revoked"}]
    BY <1>1, <1>2, StatusSteady DEF slotsKept
  <1>4. TypeOK'
    BY <1>1, <1>3 DEF IInv, TypeOK, slots, process
  <1>5. HandlersSound'
    BY <1>1, <1>3, NoneMoves
  <1> QED BY <1>1, <1>3, <1>4, <1>5, SlotsStay DEF IInv, process
-----------------------------------------------------------------------------
(***************************************************************************)
(* The invariant, and what follows from it.                                *)
(***************************************************************************)
LEMMA IInvInit == Init => IInv
  <1> SUFFICES ASSUME Init PROVE IInv
    OBVIOUS
  <1>1. TypeOK
    BY IdleType DEF Init, TypeOK, Slot!Init
  <1>2. HandlersSound
    BY DEF Init, HandlersSound, Sound, Idle
  <1>3. SlotsUsed /\ KnownKept
    BY DEF Init, Slot!Init, SlotsUsed, KnownKept
  <1> QED BY <1>1, <1>2, <1>3 DEF IInv

LEMMA IInvStep == IInv /\ [Next]_vars => IInv'
  <1> SUFFICES ASSUME IInv, [Next]_vars PROVE IInv'
    OBVIOUS
  <1>1. ASSUME NEW r \in Request, Step(r) PROVE IInv'
    <2>1. CASE Load(r)
      BY <2>1, LoadStep
    <2>2. CASE Verify(r)
      BY <2>2, VerifyStep
    <2>3. CASE Upsert(r)
      BY <2>3, UpsertStep
    <2>4. CASE Touch(r)
      BY <2>4, TouchStep
    <2>5. CASE Ensure(r)
      BY <2>5, EnsureStep
    <2>6. CASE RevokeSeen(r)
      BY <2>6, RevokeSeenStep
    <2>7. CASE Insert(r)
      BY <2>7, InsertStep
    <2>8. CASE InsertConflict(r)
      BY <2>8, RefusedStep DEF InsertConflict
    <2>9. CASE Answer(r)
      BY <2>9, AnswerStep
    <2> QED BY <1>1, <2>1, <2>2, <2>3, <2>4, <2>5, <2>6, <2>7, <2>8, <2>9 DEF Step
  <1>2. ASSUME NEW n \in Node, Send(n) PROVE IInv'
    BY <1>2, SendStep
  <1>3. ASSUME NEW n \in Node, MarkNodeRuntimeOnline(n) \/ ReactivateNode(n) PROVE IInv'
    BY <1>3, StatusStep
  <1>4. ASSUME NEW r \in Request, Fail(r) PROVE IInv'
    BY <1>4, RefusedStep DEF Fail
  <1>5. ASSUME NEW n \in Node, GiveUp(n) \/ Reboot(n) PROVE IInv'
    BY <1>5, GiveUpStep
  <1>6. ASSUME NEW n \in Node, Retire(n) PROVE IInv'
    BY <1>6, RetireStep
  <1>7. ASSUME NEW n \in Node, Fill(n) PROVE IInv'
    BY <1>7, FillStep
  <1>8. ASSUME NEW n \in Node, HandOver(n) PROVE IInv'
    BY <1>8, HandOverStep
  <1>9. ASSUME NEW n \in Node, Expire(n) PROVE IInv'
    BY <1>9, ExpireStep
  <1>10. ASSUME NEW n \in Node, RevokeNode(n) PROVE IInv'
    BY <1>10, RevokeNodeStep
  <1>13. ASSUME SwitchIssuers PROVE IInv'
    BY <1>13, SwitchStep
  <1>11. CASE UNCHANGED vars
    <2>1. UNCHANGED <<status, slots, expired, distrusted, process, req, withdrawn>>
      BY <1>11 DEF vars, slots, process
    <2>2. Steady /\ NoneRevoked
      BY <2>1, UnslottedSteady DEF slotsKept, IInv
    <2>3. TypeOK'
      BY <2>1 DEF IInv, TypeOK, slots, process
    <2>4. HandlersSound'
      BY <2>1, <2>2, NoneMoves
    <2> QED BY <2>1, <2>2, <2>3, <2>4, SlotsStay DEF IInv, process
  <1>12. CASE Disturbance
    BY <1>12, <1>3, <1>4, <1>5, <1>6, <1>7, <1>8, <1>9, <1>10, <1>13 DEF Disturbance
  <1> QED BY <1>1, <1>2, <1>3, <1>11, <1>12 DEF Next

LEMMA IInvHolds == Spec => []IInv
  BY IInvInit, IInvStep, PTL DEF Spec

\* The types of all variables: rows, slots, what nodes know and the handlers.
THEOREM TypeCorrect == Spec => []TypeOK
  <1>1. IInv => TypeOK
    BY DEF IInv
  <1> QED BY <1>1, IInvHolds, PTL

\* A certificate that a registration answered with stays the node's own until it is
\* withdrawn or expires or its issuer loses its trust: no retry, abandoned
\* registration or failure of RegisterNode takes it away.
THEOREM OutExplained == Spec => []OutForAReason
  <1>1. IInv => OutForAReason
    BY DEF IInv, KnownKept, Kept, OutForAReason, Good, Valid
  <1> QED BY <1>1, IInvHolds, PTL

\* verifyNodeTLSIdentity refuses a request that was sent while its node was shut
\* out, whatever is issued, revoked, activated or registered before it gets there.
THEOREM LockoutLasts == Spec => []StaysOut
  <1>1. IInv => StaysOut
    BY DEF IInv, HandlersSound, Sound, StaysOut
  <1> QED BY <1>1, IInvHolds, PTL

\* UpsertNodeRegistration keeps a status of revoked and RegisterNode reads it
\* back, so that only a registration that was past this is still served.
THEOREM RevocationHolds == Spec => []RevokedGetsNone
  <1>1. IInv => RevokedGetsNone
    BY DEF IInv, HandlersSound, Sound, RevokedGetsNone, Past
  <1> QED BY <1>1, IInvHolds, PTL
-----------------------------------------------------------------------------
(***************************************************************************)
(* The composition with CertificateSlot, and what EndsHeard rests on.      *)
(***************************************************************************)
\* A node is in touch: its row, its slot and what it presents agree, and so does
\* the request it waits for, however many older ones are still being handled.
Awaited(n, h) ==
  /\ h.node = n /\ h.pc \in {"load", "verify", "write", "ensure", "answer"}
  /\ h.pc \in {"load", "verify"} => h.serial = known[n]
  /\ h.kind = "register" /\ h.pc = "answer" => h.cert = known[n]
InTouch(n) ==
  /\ status[n] \in {"pending", "active"}
  /\ Good(n, known[n])
  /\ waiting[n] # NoReq => Awaited(n, req[waiting[n]])

\* Undisturbed, it stays in touch, and is answered, not refused.
TouchLasts(n) ==
  Undisturbed /\ InTouch(n) =>
    /\ InTouch(n)'
    /\ waiting[n] # NoReq /\ waiting'[n] # waiting[n] => phase'[n] = "heartbeat"

\* It has settled once it is active and only heartbeats of it are left.
Settled(n) ==
  /\ InTouch(n) /\ status[n] = "active" /\ phase[n] = "heartbeat"
  /\ \A r \in Request : req[r].pc # "idle" /\ req[r].node = n => req[r].kind = "heartbeat"
SettledLasts(n) == Undisturbed /\ Settled(n) => Settled(n)'

\* Without a disturbance a step is one of a handler, a request that is sent, or
\* an operator who applies a configuration.
LEMMA UndisturbedStep ==
  ASSUME [Next]_vars, Undisturbed
  PROVE  \/ \E r \in Request : Step(r)
         \/ \E m \in Node : Send(m) \/ MarkNodeRuntimeOnline(m)
         \/ UNCHANGED vars
  BY DEF Next, Undisturbed

\* A statement of any handler leaves the slot of a node in touch alone, and what
\* the node holds unless the node waits for that handler.
LEMMA StepAtTouch ==
  ASSUME IInv, NEW n \in Node, InTouch(n), NEW r \in Request, Step(r)
  PROVE  /\ active'[n] = active[n] /\ expired' = expired
         /\ status'[n] \in {"pending", "active"}
         /\ status'[n] # status[n] /\ status'[n] = "pending" =>
              req[r].pc = "write" /\ req[r].kind = "register" /\ req[r].node = n
         /\ \A q \in Request \ {r} : req'[q] = req[q]
         /\ waiting[n] # r =>
              waiting'[n] = waiting[n] /\ known'[n] = known[n] /\ phase'[n] = phase[n]
  <1> USE DEF IInv, TypeOK
  <1>1. Good(n, known[n]) /\ status[n] \in {"pending", "active"}
    BY DEF InTouch
  <1>2. active'[n] = active[n]
    <2>1. CASE RevokeSeen(r)
      <3>1. req[r].cert \in expired
        BY <2>1 DEF RevokeSeen, HandlersSound, Sound
      <3>2. active[n] # req[r].cert
        BY <1>1, <3>1 DEF Good, Valid
      <3> QED BY <2>1, <3>2 DEF RevokeSeen, Slot!Retire, slots
    <2>2. CASE Insert(r)
      <3>1. PICK c \in CertId : Slot!Install(req[r].node, c)
        BY <2>2 DEF Insert, Install
      <3>2. active[n] # NoCert
        BY <1>1 DEF Good, Valid
      <3> QED BY <3>1, <3>2 DEF Slot!Install
    <2>3. CASE Load(r) \/ Verify(r) \/ Upsert(r) \/ Touch(r) \/ Ensure(r)
               \/ InsertConflict(r) \/ Answer(r)
      BY <2>3 DEF Load, Verify, Upsert, Touch, Ensure, Ensures, InsertConflict, Answer, slots
    <2> QED BY <2>1, <2>2, <2>3 DEF Step
  <1>3. expired' = expired
    BY DEF Step, Load, Verify, Upsert, Touch, Ensure, Ensures, RevokeSeen, Insert,
           InsertConflict, Answer
  <1>4. /\ status'[n] \in {"pending", "active"}
        /\ status'[n] # status[n] /\ status'[n] = "pending" =>
             req[r].pc = "write" /\ req[r].kind = "register" /\ req[r].node = n
    <2>1. CASE Upsert(r)
      BY <1>1, <2>1 DEF Upsert
    <2>2. CASE Touch(r)
      BY <1>1, <2>2 DEF Touch
    <2>3. CASE Load(r) \/ Verify(r) \/ Ensure(r) \/ RevokeSeen(r) \/ Insert(r)
               \/ InsertConflict(r) \/ Answer(r)
      BY <1>1, <2>3 DEF Load, Verify, Ensure, Ensures, RevokeSeen, Insert, InsertConflict, Answer
    <2> QED BY <2>1, <2>2, <2>3 DEF Step
  <1>5. \A q \in Request \ {r} : req'[q] = req[q]
    BY DEF Step, Load, Verify, Upsert, Touch, Ensure, Ensures, RevokeSeen, Insert,
           InsertConflict, Answer, Move, Carry, Leave, Refused
  <1>6. waiting[n] # r => waiting'[n] = waiting[n] /\ known'[n] = known[n] /\ phase'[n] = phase[n]
    <2>1. CASE Answer(r)
      BY <2>1 DEF Answer, process
    <2>2. CASE Load(r) \/ Verify(r) \/ Upsert(r) \/ Touch(r) \/ InsertConflict(r)
      BY <2>2 DEF Load, Verify, Upsert, Touch, InsertConflict, Refused
    <2>3. CASE Ensure(r) \/ RevokeSeen(r) \/ Insert(r)
      BY <2>3 DEF Ensure, Ensures, RevokeSeen, Insert, process
    <2> QED BY <2>1, <2>2, <2>3 DEF Step
  <1> QED BY <1>2, <1>3, <1>4, <1>5, <1>6

\* The handler that a node in touch waits for goes on to its answer.
LEMMA AwaitedStep ==
  ASSUME IInv, NEW n \in Node, InTouch(n), NEW r \in Request, Step(r), waiting[n] = r
  PROVE  \/ /\ waiting'[n] = r /\ known'[n] = known[n] /\ phase'[n] = phase[n]
            /\ req'[r].kind = req[r].kind
            /\ req'[r].node = n /\ req'[r].pc \in {"load", "verify", "write", "ensure", "answer"}
            /\ req'[r].pc \in {"load", "verify"} => req'[r].serial = known[n]
            /\ req'[r].kind = "register" /\ req'[r].pc = "answer" => req'[r].cert = known[n]
         \/ /\ waiting'[n] = NoReq /\ known'[n] = known[n] /\ phase'[n] = "heartbeat"
            /\ req'[r] = Idle
  <1> USE DEF IInv, TypeOK
  <1>1. Good(n, known[n]) /\ status[n] \in {"pending", "active"} /\ Awaited(n, req[r])
    BY NoneAssumption DEF InTouch
  <1>2. req[r] \in Handler /\ req[r].node = n
    BY <1>1 DEF Awaited
  <1>3. ASSUME NEW pc \in {"verify", "write", "ensure"}, Move(r, pc), UNCHANGED <<waiting, known, phase>>,
               pc = "verify" => req[r].pc = "load"
        PROVE  /\ waiting'[n] = r /\ known'[n] = known[n] /\ phase'[n] = phase[n]
               /\ req'[r].kind = req[r].kind
               /\ req'[r].node = n /\ req'[r].pc = pc
               /\ req'[r].pc \in {"load", "verify"} => req'[r].serial = known[n]
               /\ req'[r].kind = "register" /\ req'[r].pc = "answer" => req'[r].cert = known[n]
    <2>1. req'[r] = [req[r] EXCEPT !.pc = pc]
      BY <1>3 DEF Move
    <2>2. /\ req'[r].pc = pc /\ req'[r].kind = req[r].kind /\ req'[r].node = req[r].node
          /\ req'[r].serial = req[r].serial
      BY <1>2, <2>1 DEF Handler
    <2> QED BY <1>1, <1>2, <1>3, <2>2 DEF Awaited
  <1>4. CASE Load(r)
    BY <1>1, <1>2, <1>3, <1>4 DEF Load
  <1>5. CASE Verify(r)
    <2>1. Good(req[r].node, req[r].serial)
      BY <1>1, <1>2, <1>5 DEF Verify, Awaited
    <2> QED BY <1>3, <1>5, <2>1 DEF Verify
  <1>6. CASE Upsert(r)
    BY <1>1, <1>2, <1>3, <1>6 DEF Upsert
  <1>7. CASE Touch(r)
    <2>1. /\ req' = [req EXCEPT ![r].pc = "answer"] /\ req[r].kind = "heartbeat"
          /\ UNCHANGED <<waiting, known, phase>>
      BY <1>1, <1>2, <1>7 DEF Touch, Move
    <2> QED BY <1>2, <2>1 DEF Awaited, Handler
  <1>8. CASE Ensure(r)
    <2>1. active[n] = known[n] /\ active[n] # NoCert /\ active[n] \notin expired
      BY <1>1 DEF Good, Valid
    <2>2. /\ req' = [req EXCEPT ![r].pc = "answer", ![r].cert = active[n]]
          /\ UNCHANGED <<waiting, known, phase>>
      BY <1>2, <1>8, <2>1 DEF Ensure, Ensures, Carry, process
    <2> QED BY <1>2, <2>1, <2>2 DEF Awaited, Handler
  <1>9. CASE Answer(r)
    <2>1. /\ req' = [req EXCEPT ![r] = Idle]
          /\ waiting' = [waiting EXCEPT ![n] = NoReq]
          /\ phase' = [phase EXCEPT ![n] = "heartbeat"]
          /\ known' = IF req[r].kind = "register" THEN [known EXCEPT ![n] = req[r].cert] ELSE known
      BY <1>2, <1>9 DEF Answer, Leave
    <2>2. req[r].kind = "register" => req[r].cert = known[n]
      BY <1>1, <1>9 DEF Answer, Awaited
    <2>3. known'[n] = known[n]
      BY <2>1, <2>2
    <2> QED BY <2>1, <2>3
  <1>10. ~(RevokeSeen(r) \/ Insert(r) \/ InsertConflict(r))
    BY <1>1 DEF RevokeSeen, Insert, InsertConflict, Awaited
  <1> QED BY <1>4, <1>5, <1>6, <1>7, <1>8, <1>9, <1>10 DEF Step

\* A request that is sent by a node in touch presents what the node knows, and
\* one sent by another node takes the place of no handler it waits for.
LEMMA SendAtTouch ==
  ASSUME IInv, NEW n \in Node, InTouch(n), NEW m \in Node, Send(m)
  PROVE  /\ InTouch(n)'
         /\ UNCHANGED <<status, phase>>
         /\ waiting[n] # NoReq => waiting'[n] = waiting[n]
         /\ \A q \in Request : req'[q] = req[q] \/ (req'[q].node = m /\ req'[q].kind = phase[m])
  <1> USE DEF IInv, TypeOK
  <1>1. PICK r \in Request :
          /\ req[r].pc = "idle" /\ waiting[m] = NoReq
          /\ req' = [req EXCEPT ![r] = [Idle EXCEPT !.pc = "load", !.kind = phase[m], !.node = m,
                                                    !.serial = known[m], !.out = ShutOut(m)]]
          /\ waiting' = [waiting EXCEPT ![m] = r]
    BY DEF Send
  <1>2. /\ req'[r].pc = "load" /\ req'[r].kind = phase[m] /\ req'[r].node = m
        /\ req'[r].serial = known[m]
        /\ \A q \in Request \ {r} : req'[q] = req[q]
    BY <1>1 DEF Idle
  <1>3. UNCHANGED <<status, active, expired, distrusted, known, phase>>
    BY DEF Send, slots
  <1>4. CASE n = m
    BY <1>1, <1>2, <1>3, <1>4 DEF InTouch, Awaited, Good, Valid
  <1>5. CASE n # m
    <2>1. waiting'[n] = waiting[n]
      BY <1>1, <1>5
    <2>2. waiting[n] # NoReq => waiting[n] \in Request \ {r}
      BY <1>1 DEF InTouch, Awaited
    <2> QED BY <1>2, <1>3, <2>1, <2>2 DEF InTouch, Awaited, Good, Valid
  <1> QED BY <1>1, <1>2, <1>3, <1>4, <1>5

\* Undisturbed, a node stays in touch.
LEMMA TouchStays ==
  ASSUME IInv, [Next]_vars, NEW n \in Node
  PROVE  TouchLasts(n)
  <1> SUFFICES ASSUME Undisturbed, InTouch(n)
               PROVE  /\ InTouch(n)'
                      /\ waiting[n] # NoReq /\ waiting'[n] # waiting[n] => phase'[n] = "heartbeat"
    BY DEF TouchLasts
  <1>0. known[n] \notin distrusted'
    <2>1. known[n] = active[n] /\ known[n] # NoCert /\ known[n] \notin distrusted
      BY DEF InTouch, Good, Valid
    <2>2. known[n] \in used
      BY <2>1 DEF IInv, SlotsUsed
    <2> QED BY <2>1, <2>2 DEF Undisturbed
  <1>1. ASSUME NEW r \in Request, Step(r), waiting[n] # r
        PROVE  InTouch(n)' /\ waiting'[n] = waiting[n]
    <2>1. waiting[n] # NoReq => waiting[n] \in Request \ {r}
      BY <1>1 DEF IInv, TypeOK
    <2> QED BY <1>0, <1>1, <2>1, StepAtTouch DEF InTouch, Awaited, Good, Valid
  <1>2. ASSUME NEW r \in Request, Step(r), waiting[n] = r
        PROVE  InTouch(n)' /\ (waiting'[n] # waiting[n] => phase'[n] = "heartbeat")
    <2>1. /\ status'[n] \in {"pending", "active"}
          /\ active'[n] = active[n] /\ expired' = expired
      BY <1>2, StepAtTouch
    <2>2. CASE /\ waiting'[n] = r /\ known'[n] = known[n]
               /\ req'[r].node = n /\ req'[r].pc \in {"load", "verify", "write", "ensure", "answer"}
               /\ req'[r].pc \in {"load", "verify"} => req'[r].serial = known[n]
               /\ req'[r].kind = "register" /\ req'[r].pc = "answer" => req'[r].cert = known[n]
      BY <1>0, <1>2, <2>1, <2>2 DEF InTouch, Awaited, Good, Valid
    <2>3. CASE waiting'[n] = NoReq /\ known'[n] = known[n] /\ phase'[n] = "heartbeat"
      BY <1>0, <2>1, <2>3 DEF InTouch, Good, Valid
    <2> QED BY <1>2, <2>2, <2>3, AwaitedStep
  <1>3. ASSUME NEW m \in Node, Send(m)
        PROVE  InTouch(n)' /\ (waiting[n] # NoReq => waiting'[n] = waiting[n])
    BY <1>3, SendAtTouch
  <1>4. ASSUME NEW m \in Node, MarkNodeRuntimeOnline(m)
        PROVE  InTouch(n)' /\ waiting'[n] = waiting[n]
    BY <1>4 DEF MarkNodeRuntimeOnline, slots, process, InTouch, Awaited, Good, Valid, IInv, TypeOK
  <1>5. CASE UNCHANGED vars
    BY <1>5 DEF vars, InTouch, Awaited, Good, Valid
  <1> QED BY <1>1, <1>2, <1>3, <1>4, <1>5, UndisturbedStep

\* Undisturbed, a node that has settled stays active.
LEMMA SettledStays ==
  ASSUME IInv, [Next]_vars, NEW n \in Node
  PROVE  SettledLasts(n)
  <1> SUFFICES ASSUME Undisturbed, Settled(n) PROVE Settled(n)'
    BY DEF SettledLasts
  <1>1. InTouch(n) /\ InTouch(n)'
    BY TouchStays DEF TouchLasts, Settled
  <1>2. /\ status[n] = "active" /\ phase[n] = "heartbeat"
        /\ \A q \in Request : req[q].pc # "idle" /\ req[q].node = n => req[q].kind = "heartbeat"
    BY DEF Settled
  <1>3. ASSUME NEW r \in Request, Step(r) PROVE Settled(n)'
    <2>1. req[r].pc # "idle"
      BY <1>3 DEF Step, Load, Verify, Upsert, Touch, Ensure, RevokeSeen, Insert,
         InsertConflict, Answer
    <2>2. status'[n] = "active"
      BY <1>1, <1>2, <1>3, <2>1, StepAtTouch
    <2>3. phase'[n] = "heartbeat"
      BY <1>1, <1>2, <1>3, StepAtTouch, AwaitedStep
    <2>4. req'[r].pc # "idle" => req'[r].node = req[r].node /\ req'[r].kind = req[r].kind
      BY <1>3, IdleType DEF IInv, TypeOK, Handler, Step, Load, Verify, Upsert, Touch, Ensure,
         Ensures, RevokeSeen, Insert, InsertConflict, Answer, Move, Carry, Leave, Refused
    <2>5. \A q \in Request \ {r} : req'[q] = req[q]
      BY <1>1, <1>3, StepAtTouch
    <2> QED BY <1>1, <1>2, <2>1, <2>2, <2>3, <2>4, <2>5 DEF Settled
  <1>4. ASSUME NEW m \in Node, Send(m) PROVE Settled(n)'
    BY <1>1, <1>2, <1>4, SendAtTouch DEF Settled
  <1>5. ASSUME NEW m \in Node, MarkNodeRuntimeOnline(m) PROVE Settled(n)'
    BY <1>1, <1>2, <1>5 DEF MarkNodeRuntimeOnline, process, Settled, IInv, TypeOK
  <1>6. CASE UNCHANGED vars
    BY <1>1, <1>2, <1>6 DEF vars, Settled
  <1> QED BY <1>3, <1>4, <1>5, <1>6, UndisturbedStep

\* The safety that EndsHeard rests on: a node that is in touch is answered and
\* stays in touch, until an operator, time, a failure, the node itself or the end
\* of its issuer's trust intervenes; handlers it has given up cannot do so in its
\* place.
THEOREM NodesStayInTouch == Spec => [][\A n \in Node : TouchLasts(n)]_vars
  <1>1. IInv /\ [Next]_vars => [\A n \in Node : TouchLasts(n)]_vars
    BY TouchStays
  <1> QED BY <1>1, IInvHolds, PTL DEF Spec

\* Once such a node is active and its registrations have ended, it stays active.
THEOREM NodesStaySettled == Spec => [][\A n \in Node : SettledLasts(n)]_vars
  <1>1. IInv /\ [Next]_vars => [\A n \in Node : SettledLasts(n)]_vars
    BY SettledStays
  <1> QED BY <1>1, IInvHolds, PTL DEF Spec

\* Operators, the sweep and overlapping registrations use the table of
\* certificates as a slot per node, which is what NodeCertificates implements.
THEOREM FleetUsesSlots == Spec => Slot!Spec
  <1>1. Init => Slot!Init
    BY DEF Init
  <1>2. IInv /\ [Next]_vars => [Slot!Next]_(Slot!slotVars)
    <2> SUFFICES ASSUME IInv, [Next]_vars PROVE Slot!Next \/ UNCHANGED slots
      BY DEF Slot!slotVars, slots
    <2>1. ASSUME NEW n \in Node, Slot!Retire(n) \/ \E c \in CertId : Install(n, c)
          PROVE  Slot!Next
      BY <2>1 DEF Install, Slot!Next
    <2>2. ASSUME NEW r \in Request, Step(r) PROVE Slot!Next \/ UNCHANGED slots
      <3>1. CASE RevokeSeen(r) \/ Insert(r)
        <4>1. req[r].node \in Node
          BY <3>1 DEF RevokeSeen, Insert, IInv, HandlersSound, Sound
        <4> QED BY <2>1, <3>1, <4>1 DEF RevokeSeen, Insert
      <3>2. CASE ~(RevokeSeen(r) \/ Insert(r))
        BY <2>2, <3>2 DEF Step, Load, Verify, Upsert, Touch, Ensure, Ensures,
           InsertConflict, Answer
      <3> QED BY <3>1, <3>2
    <2>3. ASSUME NEW n \in Node, Retire(n) \/ Fill(n) PROVE Slot!Next
      BY <2>1, <2>3 DEF Retire, Fill
    <2>4. ASSUME NEW n \in Node, \/ Send(n) \/ MarkNodeRuntimeOnline(n) \/ GiveUp(n) \/ Reboot(n)
                                 \/ HandOver(n) \/ Expire(n) \/ RevokeNode(n) \/ ReactivateNode(n)
          PROVE  UNCHANGED slots
      BY <2>4 DEF Send, MarkNodeRuntimeOnline, GiveUp, Reboot, HandOver, Expire,
         RevokeNode, ReactivateNode
    <2>5. ASSUME NEW r \in Request, Fail(r) PROVE UNCHANGED slots
      BY <2>5 DEF Fail
    <2>6. UNCHANGED vars => UNCHANGED slots
      BY DEF vars, slots
    <2>7. SwitchIssuers => UNCHANGED slots
      BY DEF SwitchIssuers
    <2> QED BY <2>2, <2>3, <2>4, <2>5, <2>6, <2>7 DEF Next, Disturbance
  <1> QED BY <1>1, <1>2, IInvHolds, PTL DEF Spec, Slot!Spec
=============================================================================
