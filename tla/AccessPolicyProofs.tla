------------------------- MODULE AccessPolicyProofs -------------------------
(***************************************************************************)
(* What AccessPolicy does, for any users, devices, keys, policies and      *)
(* handlers.                                                               *)
(***************************************************************************)
EXTENDS AccessPolicy, FiniteSetTheorems, TLAPS

Within(limit, h) == h = None \/ (limit # None /\ limit <= h)

\* A handler that has read the policy has a limit the user really had, and was
\* under the quota if it is under the quota it carries.
Sound(x) ==
  /\ x.pc # "idle" => x.id \in User
  /\ x.pc # "idle" /\ x.goal = "device" => x.fp \in Fingerprint
  /\ x.pc = "user" => x.goal = "key"
  /\ x.pc \in {"lookup", "count", "find", "update"} => x.goal = "device"
  /\ x.pc = "count" => x.limit # None
  /\ x.pc = "usage" /\ Under(x.quota, usage) => x.under
  /\ x.pc \in {"lookup", "count", "find", "update", "insert"} => x.under
  /\ x.pc \in {"usage", "lookup", "count"} =>
       user[x.id] # "unknown" /\ Within(x.limit, highest[x.id])
  /\ x.goal = "key" /\ x.pc \in {"policy", "usage", "insert"} /\ user[x.id] = "blocked" => x.late

HandlersSound == \A r \in Request : Sound(req[r])

\* The handlers that may still add a device to those of the user.
Adds(x, u) == /\ x.goal = "device" /\ x.id = u /\ x.pc \in {"find", "insert"}
              /\ device[x.fp] # u
Pending(u) == {r \in Request : Adds(req[r], u)}

\* Devices and pending devices together are bounded: a handler that finds room
\* under the limit finds at most limit - 1 devices, with at most all the handlers
\* pending, itself included.
Room == \A u \in User : highest[u] # None =>
          Cardinality(Devices(u)) + Cardinality(Pending(u)) <= highest[u] - 1 + Cardinality(Request)

\* highest is what it is said to be.
HighestHeld == \A u \in User : Exists(u) => Within(Effective(u).devices, highest[u])

IInv == TypeOK /\ HandlersSound /\ NoOrphans /\ HighestHeld /\ Room
-----------------------------------------------------------------------------
LEMMA IdleFacts == Idle \in Handler /\ Idle.pc = "idle"
  BY NameAssumption DEF Idle, Handler

LEMMA EffectiveType ==
  ASSUME TypeOK, NEW u \in User
  PROVE  /\ Effective(u).quota \in Nat \cup {None}
         /\ Effective(u).devices \in (Nat \ {0}) \cup {None}
  BY NameAssumption DEF TypeOK, Effective, Joined, Coalesce, Row, Valid, Wish

\* Sets of devices and handlers are finite.
LEMMA Sizes ==
  ASSUME NEW u \in User
  PROVE  /\ IsFiniteSet(Devices(u)) /\ Cardinality(Devices(u)) \in Nat
         /\ IsFiniteSet(Pending(u)) /\ Cardinality(Pending(u)) \in Nat
         /\ Cardinality(Request) \in Nat
         /\ Cardinality(Pending(u)) <= Cardinality(Request)
  <1>1. Devices(u) \in SUBSET Fingerprint /\ Pending(u) \in SUBSET Request
    BY DEF Devices, Pending
  <1> QED BY <1>1, FiniteAssumption, FS_Subset, FS_CardinalityType

\* With as many devices, and no other handlers pending, there is as much room.
LEMMA SameRoom ==
  ASSUME Room, NEW u \in User, highest'[u] # None, TypeOK, TypeOK',
         highest[u] # None, highest[u] <= highest'[u],
         Devices(u)' = Devices(u), Pending(u)' \subseteq Pending(u)
  PROVE  Cardinality(Devices(u)') + Cardinality(Pending(u)')
           <= highest'[u] - 1 + Cardinality(Request)
  <1>1. Cardinality(Pending(u)') <= Cardinality(Pending(u)) /\ Cardinality(Pending(u)') \in Nat
    BY Sizes, FS_Subset, FS_CardinalityType
  <1>2. highest[u] \in Nat /\ highest'[u] \in Nat
    BY DEF TypeOK
  <1> QED BY <1>1, <1>2, Sizes DEF Room

\* However many handlers are pending, there is room for a user with fewer devices
\* than the limit.
LEMMA NewRoom ==
  ASSUME NEW u \in User, TypeOK', highest'[u] # None,
         Cardinality(Devices(u)') < highest'[u]
  PROVE  Cardinality(Devices(u)') + Cardinality(Pending(u)')
           <= highest'[u] - 1 + Cardinality(Request)
  <1>1. Pending(u)' \in SUBSET Request /\ Devices(u)' \in SUBSET Fingerprint
    BY DEF Pending, Devices
  <1>2. /\ Cardinality(Pending(u)') <= Cardinality(Request)
        /\ Cardinality(Pending(u)') \in Nat /\ Cardinality(Request) \in Nat
        /\ Cardinality(Devices(u)') \in Nat
    BY <1>1, FiniteAssumption, FS_Subset, FS_CardinalityType
  <1>3. highest'[u] \in Nat
    BY DEF TypeOK
  <1> QED BY <1>2, <1>3
-----------------------------------------------------------------------------
\* A step of a handler that only moves it on.
Reads(r) == \/ Begin(r) \/ ReadUser(r) \/ ReadPolicy(r) \/ ReadUsage(r)
            \/ Lookup(r) \/ Count(r) \/ Find(r) \/ Update(r) \/ Fail(r)

Fewer(u) == highest[u] = None \/ Cardinality(Devices(u)) < highest[u]

\* What the record of the handler may become.
Next_Record(r, x) ==
  /\ x \in Handler
  /\ Sound(x)
  /\ \A u \in User : Adds(x, u) => Adds(req[r], u) \/ Fewer(u)

LEMMA BeginRecord ==
  ASSUME IInv, NEW r \in Request, Begin(r)
  PROVE  UNCHANGED tables /\ \E x : req' = [req EXCEPT ![r] = x] /\ Next_Record(r, x)
  <1>1. ASSUME NEW u \in User, BeginKey(r, u)
        PROVE  UNCHANGED tables /\ \E x : req' = [req EXCEPT ![r] = x] /\ Next_Record(r, x)
    <2> DEFINE x == [Idle EXCEPT !.pc = "user", !.id = u]
    <2>1. x \in Handler /\ x.pc = "user" /\ x.id = u /\ x.goal = "key"
      BY DEF Idle, Handler
    <2>2. Next_Record(r, x)
      BY <2>1 DEF Next_Record, Sound, Adds
    <2> QED BY <1>1, <2>2 DEF BeginKey
  <1>2. ASSUME NEW u \in User, NEW f \in Fingerprint, BeginDevice(r, u, f)
        PROVE  UNCHANGED tables /\ \E x : req' = [req EXCEPT ![r] = x] /\ Next_Record(r, x)
    <2> DEFINE x == [Idle EXCEPT !.pc = "policy", !.goal = "device", !.id = u, !.fp = f]
    <2>1. x \in Handler /\ x.pc = "policy" /\ x.id = u /\ x.goal = "device" /\ x.fp = f
      BY DEF Idle, Handler
    <2>2. Next_Record(r, x)
      BY <2>1 DEF Next_Record, Sound, Adds
    <2> QED BY <1>2, <2>2 DEF BeginDevice
  <1> QED BY <1>1, <1>2 DEF Begin

LEMMA FinishRecord ==
  ASSUME NEW r \in Request, Finish(r)
  PROVE  \E x : req' = [req EXCEPT ![r] = x] /\ Next_Record(r, x)
  <1>1. Next_Record(r, Idle)
    BY IdleFacts DEF Next_Record, Sound, Adds, Idle
  <1> QED BY <1>1 DEF Finish

PC == {"user", "policy", "usage", "lookup", "count", "find", "update", "insert"}

\* The record that Move, Admit and Register leave: but for pc, quota and limit it
\* is the one there was.
Kept(r, x) == /\ x \in Handler
              /\ x.goal = req[r].goal /\ x.id = req[r].id /\ x.fp = req[r].fp
              /\ x.late = req[r].late /\ x.under = req[r].under

LEMMA MoveRecord ==
  ASSUME TypeOK, NEW r \in Request, NEW pc \in PC, Move(r, pc)
  PROVE  \E x : /\ req' = [req EXCEPT ![r] = x] /\ Kept(r, x)
                /\ x.pc = pc /\ x.quota = req[r].quota /\ x.limit = req[r].limit
  <1> DEFINE x == [req[r] EXCEPT !.pc = pc]
  <1>1. /\ Kept(r, x)
        /\ x.pc = pc /\ x.quota = req[r].quota /\ x.limit = req[r].limit
    BY DEF TypeOK, Handler, PC, Kept
  <1>2. req' = [req EXCEPT ![r] = x]
    BY DEF Move
  <1> QED BY <1>1, <1>2

LEMMA AdmitRecord ==
  ASSUME TypeOK, NEW r \in Request, NEW pc \in PC, Admit(r, pc)
  PROVE  \E x : /\ req' = [req EXCEPT ![r] = x] /\ Kept(r, x)
                /\ x.pc = pc /\ x.limit = req[r].limit
  <1> DEFINE x == [req[r] EXCEPT !.pc = pc, !.quota = None]
  <1>0. req[r] \in Handler
    BY DEF TypeOK
  <1>1. Kept(r, x) /\ x.pc = pc /\ x.limit = req[r].limit
    BY <1>0 DEF Handler, PC, Kept
  <1>2. req' = [req EXCEPT ![r] = x]
    BY DEF Admit
  <1> QED BY <1>1, <1>2

LEMMA RegisterRecord ==
  ASSUME TypeOK, NEW r \in Request, Register(r)
  PROVE  \E x : /\ req' = [req EXCEPT ![r] = x] /\ Kept(r, x) /\ x.pc = "find"
  <1> DEFINE x == [req[r] EXCEPT !.pc = "find", !.limit = None]
  <1>0. req[r] \in Handler
    BY DEF TypeOK
  <1>1. Kept(r, x) /\ x.pc = "find"
    BY <1>0 DEF Handler, Kept
  <1>2. req' = [req EXCEPT ![r] = x]
    BY DEF Register
  <1> QED BY <1>1, <1>2

LEMMA ReadRecord ==
  ASSUME IInv, NEW r \in Request, Reads(r)
  PROVE  UNCHANGED tables /\ \E x : req' = [req EXCEPT ![r] = x] /\ Next_Record(r, x)
  <1> USE DEF IInv
  <1>0. req[r] \in Handler /\ Sound(req[r])
    BY DEF TypeOK, HandlersSound
  <1>1. CASE Begin(r)
    BY <1>1, BeginRecord
  <1>2. CASE Fail(r)
    BY <1>2, FinishRecord DEF Fail
  <1>3. CASE ReadUser(r)
    <2>1. CASE user[req[r].id] = "active"
      <3>1. Move(r, "policy")
        BY <1>3, <2>1 DEF ReadUser
      <3>2. PICK x : /\ req' = [req EXCEPT ![r] = x] /\ Kept(r, x) /\ x.pc = "policy"
        BY <3>1, MoveRecord DEF PC
      <3>3. Next_Record(r, x)
        BY <1>0, <1>3, <2>1, <3>2 DEF Next_Record, Sound, Adds, Kept, ReadUser
      <3> QED BY <1>3, <3>2, <3>3 DEF ReadUser
    <2> QED BY <1>3, <2>1, FinishRecord DEF ReadUser
  <1>4. CASE ReadPolicy(r)
    <2>1. CASE Exists(req[r].id)
      <3> DEFINE p == Effective(req[r].id)
                 x == [req[r] EXCEPT !.pc = "usage", !.quota = p.quota, !.limit = p.devices,
                                     !.under = Under(p.quota, usage)]
      <3>1. req[r].id \in User /\ req[r].pc = "policy"
        BY <1>0, <1>4 DEF Sound, ReadPolicy
      <3>2. /\ p.quota \in Nat \cup {None} /\ p.devices \in (Nat \ {0}) \cup {None}
            /\ Under(p.quota, usage) \in BOOLEAN
        BY <3>1, EffectiveType DEF Under
      <3>3. /\ x \in Handler /\ x.pc = "usage" /\ x.goal = req[r].goal /\ x.id = req[r].id
            /\ x.fp = req[r].fp /\ x.late = req[r].late
            /\ x.quota = p.quota /\ x.limit = p.devices /\ x.under = Under(p.quota, usage)
        BY <1>0, <3>2 DEF Handler
      <3>4. req' = [req EXCEPT ![r] = x]
        BY <1>4, <2>1 DEF ReadPolicy
      <3>5. Within(x.limit, highest[x.id]) /\ user[x.id] # "unknown"
        BY <2>1, <3>1, <3>3 DEF HighestHeld, Exists
      <3>6. Next_Record(r, x)
        BY <1>0, <3>1, <3>3, <3>5 DEF Next_Record, Sound, Adds
      <3> QED BY <1>4, <3>4, <3>6 DEF ReadPolicy
    <2> QED BY <1>4, <2>1, FinishRecord DEF ReadPolicy
  <1>5. CASE ReadUsage(r)
    <2>1. CASE Under(req[r].quota, usage)
      <3> DEFINE pc == IF req[r].goal = "key" THEN "insert" ELSE "lookup"
      <3>1. Admit(r, pc)
        BY <1>5, <2>1 DEF ReadUsage
      <3>2. PICK x : /\ req' = [req EXCEPT ![r] = x] /\ Kept(r, x) /\ x.pc = pc
                     /\ x.limit = req[r].limit
        BY <3>1, AdmitRecord DEF PC
      <3>3. Next_Record(r, x)
        BY <1>0, <1>5, <2>1, <3>2 DEF Next_Record, Sound, Adds, Kept, ReadUsage, Handler
      <3> QED BY <1>5, <3>2, <3>3 DEF ReadUsage
    <2> QED BY <1>5, <2>1, FinishRecord DEF ReadUsage
  <1>6. ASSUME req[r].pc \in {"lookup", "count"}, Register(r), UNCHANGED tables,
               device[req[r].fp] = req[r].id \/ Fewer(req[r].id)
        PROVE  \E x : req' = [req EXCEPT ![r] = x] /\ Next_Record(r, x)
    <2>1. PICK x : /\ req' = [req EXCEPT ![r] = x] /\ Kept(r, x) /\ x.pc = "find"
      BY <1>6, RegisterRecord
    <2>2. Next_Record(r, x)
      BY <1>0, <1>6, <2>1 DEF Next_Record, Sound, Adds, Kept
    <2> QED BY <2>1, <2>2
  <1>7. CASE Lookup(r)
    <2>1. req[r].pc = "lookup" /\ UNCHANGED tables /\ req[r].id \in User
      BY <1>0, <1>7 DEF Lookup, Sound
    <2>2. ASSUME req[r].limit # None, Move(r, "count")
          PROVE  \E x : req' = [req EXCEPT ![r] = x] /\ Next_Record(r, x)
      <3>1. PICK x : /\ req' = [req EXCEPT ![r] = x] /\ Kept(r, x) /\ x.pc = "count"
                     /\ x.limit = req[r].limit
        BY <2>2, MoveRecord DEF PC
      <3>2. Next_Record(r, x)
        BY <1>0, <2>1, <2>2, <3>1 DEF Next_Record, Sound, Adds, Kept
      <3> QED BY <3>1, <3>2
    <2>3. ASSUME req[r].limit = None, Register(r)
          PROVE  \E x : req' = [req EXCEPT ![r] = x] /\ Next_Record(r, x)
      <3>1. Fewer(req[r].id)
        BY <1>0, <2>1, <2>3 DEF Fewer, Sound, Within
      <3> QED BY <1>6, <2>1, <2>3, <3>1
    <2>4. ASSUME device[req[r].fp] = req[r].id, Register(r)
          PROVE  \E x : req' = [req EXCEPT ![r] = x] /\ Next_Record(r, x)
      BY <1>6, <2>1, <2>4
    <2>5. ASSUME Finish(r)
          PROVE  \E x : req' = [req EXCEPT ![r] = x] /\ Next_Record(r, x)
      BY <2>5, FinishRecord
    <2> QED BY <1>7, <2>1, <2>2, <2>3, <2>4, <2>5 DEF Lookup
  <1>8. CASE Count(r)
    <2>1. req[r].pc = "count" /\ UNCHANGED tables /\ req[r].id \in User /\ req[r].limit # None
      BY <1>0, <1>8 DEF Count, Sound
    <2>2. CASE Cardinality(Devices(req[r].id)) < req[r].limit
      <3>1. Register(r)
        BY <1>8, <2>2 DEF Count
      <3>2. /\ req[r].limit \in Nat /\ highest[req[r].id] \in Nat \cup {None}
            /\ Cardinality(Devices(req[r].id)) \in Nat
            /\ Within(req[r].limit, highest[req[r].id])
        BY <1>0, <2>1, Sizes DEF Handler, TypeOK, Sound
      <3>3. Fewer(req[r].id)
        BY <2>2, <3>2 DEF Fewer, Within
      <3> QED BY <1>6, <2>1, <3>1, <3>3
    <2> QED BY <1>8, <2>1, <2>2, FinishRecord DEF Count
  <1>9. CASE Find(r)
    <2>1. req[r].pc = "find" /\ UNCHANGED tables
      BY <1>9 DEF Find
    <2>2. ASSUME NEW pc \in {"insert", "update"}, Move(r, pc)
          PROVE  \E x : req' = [req EXCEPT ![r] = x] /\ Next_Record(r, x)
      <3>1. PICK x : /\ req' = [req EXCEPT ![r] = x] /\ Kept(r, x) /\ x.pc = pc
        BY <2>2, MoveRecord DEF PC
      <3>2. Next_Record(r, x)
        BY <1>0, <2>1, <3>1 DEF Next_Record, Sound, Adds, Kept
      <3> QED BY <3>1, <3>2
    <2> QED BY <1>9, <2>1, <2>2, FinishRecord DEF Find
  <1>10. CASE Update(r)
    BY <1>10, FinishRecord DEF Update
  <1> QED BY <1>1, <1>2, <1>3, <1>4, <1>5, <1>7, <1>8, <1>9, <1>10 DEF Reads
-----------------------------------------------------------------------------
LEMMA InitHolds == Init => IInv
  <1> SUFFICES ASSUME Init PROVE IInv
    OBVIOUS
  <1>1. TypeOK
    BY IdleFacts, NameAssumption DEF Init, TypeOK, Row, Wish, Valid, Unlimited, NoKey
  <1>2. HandlersSound
    BY IdleFacts DEF Init, HandlersSound, Sound
  <1>3. NoOrphans /\ HighestHeld
    BY DEF Init, NoOrphans, HighestHeld, Within
  <1>4. Room
    BY DEF Init, Room
  <1> QED BY <1>1, <1>2, <1>3, <1>4 DEF IInv

LEMMA ReadStep ==
  ASSUME IInv, NEW r \in Request, Reads(r)
  PROVE  IInv'
  <1> USE DEF IInv
  <1>1. UNCHANGED tables
    BY ReadRecord
  <1>2. PICK x : req' = [req EXCEPT ![r] = x] /\ Next_Record(r, x)
    BY ReadRecord
  <1>3. TypeOK'
    BY <1>1, <1>2 DEF TypeOK, tables, people, policies, granted, Next_Record
  <1>4. HandlersSound'
    <2> SUFFICES ASSUME NEW q \in Request PROVE Sound(req[q])'
      BY DEF HandlersSound
    <2>1. PICK h : h = req'[q]
      OBVIOUS
    <2>2. Sound(h)
      BY <1>2, <2>1 DEF TypeOK, Next_Record, HandlersSound
    <2>3. user' = user /\ highest' = highest /\ usage' = usage
      BY <1>1 DEF tables, people
    <2> QED BY <2>1, <2>2, <2>3 DEF Sound
  <1>5. NoOrphans' /\ HighestHeld'
    BY <1>1 DEF NoOrphans, HighestHeld, Exists, Effective, tables, people, policies, granted
  <1>6. Room'
    <2> SUFFICES ASSUME NEW u \in User, highest'[u] # None
                 PROVE  Cardinality(Devices(u)') + Cardinality(Pending(u)')
                          <= highest'[u] - 1 + Cardinality(Request)
      BY DEF Room
    <2>1. Devices(u)' = Devices(u) /\ highest' = highest /\ device' = device
      BY <1>1 DEF tables, people, granted, Devices
    <2>2. CASE Fewer(u)
      BY <1>3, <2>1, <2>2, NewRoom DEF Fewer
    <2>3. CASE ~ Fewer(u)
      <3>1. \A q \in Request : Adds(req'[q], u) => Adds(req[q], u)
        BY <1>2, <2>3 DEF Next_Record, TypeOK
      <3>2. Pending(u)' \subseteq Pending(u)
        BY <2>1, <3>1 DEF Pending, Adds
      <3>3. highest[u] # None /\ highest[u] <= highest'[u]
        BY <2>1 DEF TypeOK
      <3> QED BY <1>3, <2>1, <3>2, <3>3, SameRoom
    <2> QED BY <2>2, <2>3
  <1> QED BY <1>3, <1>4, <1>5, <1>6

LEMMA SoundAfterFinish ==
  ASSUME TypeOK, HandlersSound, NEW r \in Request, req' = [req EXCEPT ![r] = Idle],
         UNCHANGED <<user, highest, usage>>
  PROVE  HandlersSound'
  <1> SUFFICES ASSUME NEW q \in Request PROVE Sound(req[q])'
    BY DEF HandlersSound
  <1>1. PICK h : h = req'[q]
    OBVIOUS
  <1>2. h = Idle \/ h = req[q]
    BY <1>1 DEF TypeOK
  <1>3. Sound(h)
    BY <1>2, IdleFacts DEF HandlersSound, Sound, Idle
  <1> QED BY <1>1, <1>3 DEF Sound

LEMMA RoomAfterFinish ==
  ASSUME TypeOK, TypeOK', Room, NEW r \in Request, req' = [req EXCEPT ![r] = Idle],
         UNCHANGED <<highest, device>>
  PROVE  Room'
  <1> SUFFICES ASSUME NEW u \in User, highest'[u] # None
               PROVE  Cardinality(Devices(u)') + Cardinality(Pending(u)')
                        <= highest'[u] - 1 + Cardinality(Request)
    BY DEF Room
  <1>1. \A q \in Request : req'[q] = Idle \/ req'[q] = req[q]
    BY DEF TypeOK
  <1>2. Devices(u)' = Devices(u) /\ Pending(u)' \subseteq Pending(u)
    BY <1>1, IdleFacts DEF Devices, Pending, Adds
  <1>3. highest[u] # None /\ highest[u] <= highest'[u]
    BY DEF TypeOK
  <1> QED BY <1>2, <1>3, SameRoom

LEMMA InsertKeyStep ==
  ASSUME IInv, NEW r \in Request, InsertKey(r)
  PROVE  IInv'
  <1> USE DEF IInv
  <1>1. /\ req' = [req EXCEPT ![r] = Idle] /\ req[r].pc = "insert" /\ req[r].id \in User
        /\ UNCHANGED <<people, policies, device, usage>>
    BY DEF InsertKey, Finish, HandlersSound, Sound
  <1>2. \/ key' = key
        \/ /\ Exists(req[r].id)
           /\ \E k \in AccessKey :
                key' = [key EXCEPT ![k] = [user |-> req[r].id, status |-> "active"]]
    BY DEF InsertKey
  <1>3. TypeOK'
    BY <1>1, <1>2, IdleFacts DEF TypeOK, people, policies
  <1>4. HandlersSound'
    BY <1>1, SoundAfterFinish DEF people
  <1>5. NoOrphans' /\ HighestHeld'
    <2>1. \A k \in AccessKey : key'[k] # NoKey => key'[k].user \in User /\ Exists(key'[k].user)
      <3>1. CASE key' = key
        BY <3>1 DEF NoOrphans
      <3>2. ASSUME NEW k \in AccessKey, Exists(req[r].id),
                   key' = [key EXCEPT ![k] = [user |-> req[r].id, status |-> "active"]]
            PROVE  \A j \in AccessKey :
                     key'[j] # NoKey => key'[j].user \in User /\ Exists(key'[j].user)
        BY <1>1, <3>2 DEF NoOrphans, TypeOK
      <3> QED BY <1>2, <3>1, <3>2
    <2> QED BY <1>1, <2>1 DEF NoOrphans, HighestHeld, Exists, Effective, people, policies
  <1>6. Room'
    BY <1>1, <1>3, RoomAfterFinish DEF people
  <1> QED BY <1>3, <1>4, <1>5, <1>6

LEMMA InsertDeviceStep ==
  ASSUME IInv, NEW r \in Request, InsertDevice(r)
  PROVE  IInv'
  <1> USE DEF IInv
  <1> DEFINE f == req[r].fp
             v == req[r].id
  <1>1. /\ req' = [req EXCEPT ![r] = Idle] /\ req[r].pc = "insert" /\ req[r].goal = "device"
        /\ v \in User /\ f \in Fingerprint
        /\ UNCHANGED <<people, policies, key, usage>>
    BY DEF InsertDevice, Finish, HandlersSound, Sound
  <1>2. \/ device' = device
        \/ Exists(v) /\ device[f] = NoUser /\ device' = [device EXCEPT ![f] = v]
    BY DEF InsertDevice
  <1>3. TypeOK'
    BY <1>1, <1>2, IdleFacts DEF TypeOK, people, policies
  <1>4. HandlersSound'
    BY <1>1, SoundAfterFinish DEF people
  <1>5. NoOrphans' /\ HighestHeld'
    <2>1. \A g \in Fingerprint : device'[g] # NoUser => Exists(device'[g])
      BY <1>1, <1>2 DEF NoOrphans, TypeOK
    <2> QED BY <1>1, <2>1 DEF NoOrphans, HighestHeld, Exists, Effective, people, policies
  <1>6. Room'
    <2>1. CASE device' = device
      BY <1>1, <1>3, <2>1, RoomAfterFinish DEF people
    <2>2. CASE Exists(v) /\ device[f] = NoUser /\ device' = [device EXCEPT ![f] = v]
      <3> SUFFICES ASSUME NEW u \in User, highest'[u] # None
                   PROVE  Cardinality(Devices(u)') + Cardinality(Pending(u)')
                            <= highest'[u] - 1 + Cardinality(Request)
        BY DEF Room
      <3>1. highest' = highest /\ v # NoUser
        BY <1>1, NameAssumption DEF people
      <3>2. \A q \in Request : req'[q] = IF q = r THEN Idle ELSE req[q]
        BY <1>1 DEF TypeOK
      <3>3. \A q \in Request \ {r} : req[q].pc # "idle" /\ req[q].goal = "device" =>
              req[q].fp \in Fingerprint
        BY DEF HandlersSound, Sound
      <3>4. CASE u = v
        <4>1. Devices(u)' = Devices(u) \cup {f} /\ f \notin Devices(u)
          BY <1>1, <2>2, <3>1, <3>4 DEF Devices, TypeOK
        <4>2. Cardinality(Devices(u)') = Cardinality(Devices(u)) + 1
          BY <4>1, Sizes, FS_AddElement
        <4>3. r \in Pending(u)
          BY <1>1, <2>2, <3>1, <3>4 DEF Pending, Adds
        <4>4. Pending(u)' \in SUBSET (Pending(u) \ {r})
          BY <1>1, <2>2, <3>2, <3>3, <3>4, IdleFacts DEF Pending, Adds, TypeOK
        <4>5. IsFiniteSet(Pending(u) \ {r})
              /\ Cardinality(Pending(u) \ {r}) = Cardinality(Pending(u)) - 1
          BY <4>3, Sizes, FS_RemoveElement
        <4>6. Cardinality(Pending(u)') <= Cardinality(Pending(u)) - 1
              /\ Cardinality(Pending(u)') \in Nat
          BY <4>4, <4>5, FS_Subset, FS_CardinalityType
        <4>7. highest[u] \in Nat
          BY <3>1 DEF TypeOK
        <4> QED BY <3>1, <4>2, <4>6, <4>7, Sizes DEF Room
      <3>5. CASE u # v
        <4>1. Devices(u)' = Devices(u)
          BY <1>1, <2>2, <3>5, NameAssumption DEF Devices, TypeOK
        <4>2. Pending(u)' \subseteq Pending(u)
          BY <1>1, <2>2, <3>2, <3>3, <3>5, IdleFacts, NameAssumption DEF Pending, Adds, TypeOK
        <4>3. highest[u] # None /\ highest[u] <= highest'[u]
          BY <3>1 DEF TypeOK
        <4> QED BY <1>3, <4>1, <4>2, <4>3, SameRoom
      <3> QED BY <3>4, <3>5
    <2> QED BY <1>2, <2>1, <2>2
  <1> QED BY <1>3, <1>4, <1>5, <1>6
-----------------------------------------------------------------------------
\* What the administrators' steps and Traffic do to what the handlers rely on:
\* users become known and stay so, limits that applied are covered by highest.
Steady ==
  /\ usage <= usage'
  /\ \A u \in User : user[u] # "unknown" =>
       /\ user'[u] # "unknown"
       /\ highest'[u] = None \/ (highest[u] # None /\ highest[u] <= highest'[u])

LEMMA SoundKept ==
  ASSUME TypeOK, TypeOK', NEW h \in Handler, Sound(h), Steady,
         \A u \in User : user'[u] = "blocked" => user[u] = "blocked"
  PROVE  Sound(h)'
  <1>1. h.pc = "usage" /\ Under(h.quota, usage') => h.under
    BY DEF Sound, Steady, Under, TypeOK, Handler
  <1>2. h.pc \in {"usage", "lookup", "count"} =>
          user'[h.id] # "unknown" /\ Within(h.limit, highest'[h.id])
    BY DEF Sound, Steady, Within, TypeOK, Handler
  <1>3. h.goal = "key" /\ h.pc \in {"policy", "usage", "insert"} /\ user'[h.id] = "blocked" => h.late
    BY DEF Sound
  <1> QED BY <1>1, <1>2, <1>3 DEF Sound

LEMMA HandlersKept ==
  ASSUME TypeOK, TypeOK', HandlersSound, req' = req, Steady,
         \A u \in User : user'[u] = "blocked" => user[u] = "blocked"
  PROVE  HandlersSound'
  <1> SUFFICES ASSUME NEW q \in Request PROVE Sound(req[q])'
    BY DEF HandlersSound
  <1>1. PICK h \in Handler : h = req[q] /\ h = req'[q]
    BY DEF TypeOK
  <1>2. Sound(h)'
    BY <1>1, SoundKept DEF HandlersSound
  <1> QED BY <1>1, <1>2 DEF Sound

\* No device and no handler comes into it: there is room as long as highest does
\* not shrink; a user who was unknown has no devices.
LEMMA RoomKept ==
  ASSUME TypeOK, TypeOK', NoOrphans, Room, req' = req, device' = device, Steady
  PROVE  Room'
  <1> SUFFICES ASSUME NEW u \in User, highest'[u] # None
               PROVE  Cardinality(Devices(u)') + Cardinality(Pending(u)')
                        <= highest'[u] - 1 + Cardinality(Request)
    BY DEF Room
  <1>1. Devices(u)' = Devices(u) /\ Pending(u)' \subseteq Pending(u)
    BY DEF Devices, Pending, Adds
  <1>2. CASE user[u] = "unknown"
    <2>1. Devices(u)' = {}
      BY <1>1, <1>2, NameAssumption DEF NoOrphans, Devices, Exists
    <2>2. highest'[u] \in Nat \ {0} /\ Cardinality(Devices(u)') = 0
      BY <2>1, FS_EmptySet DEF TypeOK
    <2> QED BY <2>2, NewRoom
  <1>3. CASE user[u] # "unknown"
    BY <1>1, <1>3, SameRoom DEF Steady
  <1> QED BY <1>2, <1>3

LEMMA HigherFacts ==
  ASSUME NEW x \in (Nat \ {0}) \cup {None}, NEW y \in (Nat \ {0}) \cup {None}
  PROVE  /\ HigherOf(x, y) \in (Nat \ {0}) \cup {None}
         /\ HigherOf(x, y) = None \/ (x # None /\ x <= HigherOf(x, y))
         /\ Within(y, HigherOf(x, y))
  BY NameAssumption DEF HigherOf, Within

\* A policy that is set: highest follows.
LEMMA PolicyStep ==
  ASSUME IInv, tenant' \in Row, override' \in [User -> Row],
         highest' = Raised(tenant', override'), UNCHANGED <<user, granted, usage, req>>,
         \A u \in User : override'[u] # Unlimited => Exists(u)
  PROVE  IInv'
  <1> USE DEF IInv
  <1>1. \A u \in User : Effective(u)' = Joined(tenant', override'[u])
                        /\ Joined(tenant', override'[u]).devices \in (Nat \ {0}) \cup {None}
    BY NameAssumption DEF Effective, Joined, Coalesce, Row, Valid, Wish
  <1>2. \A u \in User : highest'[u] = IF Exists(u)
                                        THEN HigherOf(highest[u], Effective(u)'.devices)
                                        ELSE highest[u]
    BY <1>1 DEF Raised
  <1>3. \A u \in User :
          /\ highest'[u] \in (Nat \ {0}) \cup {None}
          /\ highest'[u] = None \/ (highest[u] # None /\ highest[u] <= highest'[u])
          /\ Exists(u) => Within(Effective(u)'.devices, highest'[u])
    <2> TAKE u \in User
    <2>1. PICK d \in (Nat \ {0}) \cup {None} : d = Effective(u)'.devices
      BY <1>1
    <2>2. highest[u] \in (Nat \ {0}) \cup {None}
      BY DEF TypeOK
    <2>3. highest'[u] = IF Exists(u) THEN HigherOf(highest[u], d) ELSE highest[u]
      BY <1>2, <2>1
    <2>4. CASE Exists(u)
      <3>1. highest'[u] = HigherOf(highest[u], d)
        BY <2>3, <2>4
      <3> QED BY <2>1, <2>2, <3>1, HigherFacts
    <2>5. CASE ~ Exists(u)
      BY <2>2, <2>3, <2>5
    <2> QED BY <2>4, <2>5
  <1>4. TypeOK'
    <2>1. highest' \in [User -> (Nat \ {0}) \cup {None}]
      BY <1>3 DEF Raised
    <2> QED BY <2>1 DEF TypeOK, granted
  <1>5. Steady
    BY <1>3 DEF Steady, TypeOK
  <1>6. HighestHeld'
    BY <1>3 DEF HighestHeld, Exists, Within
  <1>7. NoOrphans'
    BY DEF NoOrphans, granted, Exists
  <1> QED BY <1>4, <1>5, <1>6, <1>7, HandlersKept, RoomKept DEF granted

LEMMA CreateUserStep ==
  ASSUME IInv, NEW u \in User, CreateUser(u)
  PROVE  IInv'
  <1> USE DEF IInv
  <1>1. TypeOK'
    BY EffectiveType DEF CreateUser, TypeOK, policies, granted
  <1>2. Steady
    BY DEF CreateUser, Steady, TypeOK
  <1>3. \A v \in User : user'[v] = "blocked" => user[v] = "blocked"
    BY DEF CreateUser, TypeOK
  <1>4. NoOrphans'
    BY DEF CreateUser, NoOrphans, Exists, TypeOK, policies, granted
  <1>5. HighestHeld'
    <2>1. \A v \in User : Effective(v)' = Effective(v)
      BY DEF CreateUser, Effective, policies
    <2>2. Within(Effective(u).devices, highest'[u])
      BY EffectiveType DEF CreateUser, Within, TypeOK
    <2>3. \A v \in User : Exists(v)' => Within(Effective(v).devices, highest'[v])
      BY <2>2 DEF CreateUser, HighestHeld, Exists, TypeOK
    <2> QED BY <2>1, <2>3 DEF HighestHeld, Within
  <1> QED BY <1>1, <1>2, <1>3, <1>4, <1>5, HandlersKept, RoomKept DEF CreateUser, granted

LEMMA LateFields ==
  ASSUME NEW h \in Handler
  PROVE  LET x == [h EXCEPT !.late = TRUE]
         IN  /\ x \in Handler /\ x.late
             /\ x.pc = h.pc /\ x.goal = h.goal /\ x.id = h.id /\ x.fp = h.fp
             /\ x.quota = h.quota /\ x.limit = h.limit /\ x.under = h.under
  BY DEF Handler

LEMMA BlockUserStep ==
  ASSUME IInv, NEW u \in User, BlockUser(u)
  PROVE  IInv'
  <1> USE DEF IInv
  <1>1. \A q \in Request :
          req'[q] = IF q \in Past(u) THEN [req[q] EXCEPT !.late = TRUE] ELSE req[q]
    BY DEF BlockUser
  <1>2. TypeOK'
    <2>1. \A q \in Request : req'[q] \in Handler
      <3> TAKE q \in Request
      <3>1. req[q] \in Handler
        BY DEF TypeOK
      <3> QED BY <1>1, <3>1, LateFields
    <2> QED BY <2>1 DEF BlockUser, TypeOK, policies, granted
  <1>3. HandlersSound'
    <2> SUFFICES ASSUME NEW q \in Request PROVE Sound(req[q])'
      BY DEF HandlersSound
    <2>1. PICK h \in Handler, x \in Handler : h = req[q] /\ x = req'[q]
      BY <1>2 DEF TypeOK
    <2>2. /\ x.pc = h.pc /\ x.goal = h.goal /\ x.id = h.id /\ x.fp = h.fp
          /\ x.quota = h.quota /\ x.limit = h.limit /\ x.under = h.under
          /\ x.late = h.late \/ x.late
          /\ q \in Past(u) => x.late
      <3>1. x = IF q \in Past(u) THEN [h EXCEPT !.late = TRUE] ELSE h
        BY <1>1, <2>1
      <3> QED BY <3>1, LateFields
    <2>3. Sound(h)
      BY <2>1 DEF HandlersSound
    <2>4. x.goal = "key" /\ x.pc \in {"policy", "usage", "insert"} /\ user'[x.id] = "blocked"
            => x.late
      <3> SUFFICES ASSUME x.goal = "key", x.pc \in {"policy", "usage", "insert"},
                          user'[x.id] = "blocked"
                   PROVE  x.late
        OBVIOUS
      <3>1. x.id \in User
        BY <2>2, <2>3 DEF Sound
      <3>2. CASE x.id = u
        BY <2>1, <2>2, <3>2 DEF Past
      <3>3. CASE x.id # u
        <4>1. user[h.id] = "blocked" /\ x.id = h.id
          BY <2>2, <3>1, <3>3 DEF BlockUser, TypeOK
        <4>2. h.late = TRUE
          BY <2>1, <2>2, <2>3, <4>1 DEF Sound, Handler
        <4> QED BY <2>2, <4>2
      <3> QED BY <3>2, <3>3
    <2>5. user' = [user EXCEPT ![u] = "blocked"] /\ highest' = highest /\ usage' = usage
      BY DEF BlockUser
    <2>6. x.pc \in {"usage", "lookup", "count"} =>
            user'[x.id] # "unknown" /\ Within(x.limit, highest[x.id])
      BY <2>2, <2>3, <2>5 DEF Sound, TypeOK
    <2>7. /\ x.pc # "idle" => x.id \in User
          /\ x.pc # "idle" /\ x.goal = "device" => x.fp \in Fingerprint
          /\ x.pc = "user" => x.goal = "key"
          /\ x.pc \in {"lookup", "count", "find", "update"} => x.goal = "device"
          /\ x.pc = "count" => x.limit # None
          /\ x.pc = "usage" /\ Under(x.quota, usage) => x.under
          /\ x.pc \in {"lookup", "count", "find", "update", "insert"} => x.under
      BY <2>2, <2>3 DEF Sound
    <2> QED BY <2>1, <2>4, <2>5, <2>6, <2>7 DEF Sound
  <1>4. NoOrphans' /\ HighestHeld'
    <2>1. \A v \in User : Exists(v)' = Exists(v)
      BY DEF BlockUser, Exists, TypeOK
    <2>2. /\ UNCHANGED <<tenant, override, device, key, highest>>
      BY DEF BlockUser, policies, granted
    <2>3. NoOrphans'
      BY <2>1, <2>2 DEF NoOrphans, TypeOK
    <2> QED BY <2>1, <2>2, <2>3 DEF HighestHeld, Effective, Within
  <1>5. Room'
    <2> SUFFICES ASSUME NEW v \in User, highest'[v] # None
                 PROVE  Cardinality(Devices(v)') + Cardinality(Pending(v)')
                          <= highest'[v] - 1 + Cardinality(Request)
      BY DEF Room
    <2>1. device' = device /\ highest' = highest
      BY DEF BlockUser, granted
    <2>2. \A q \in Request : /\ req'[q].pc = req[q].pc /\ req'[q].goal = req[q].goal
                             /\ req'[q].id = req[q].id /\ req'[q].fp = req[q].fp
      <3> TAKE q \in Request
      <3>1. PICK h \in Handler : h = req[q]
        BY DEF TypeOK
      <3>2. req'[q] = IF q \in Past(u) THEN [h EXCEPT !.late = TRUE] ELSE h
        BY <1>1, <3>1
      <3> QED BY <3>1, <3>2, LateFields
    <2>3. Devices(v)' = Devices(v) /\ Pending(v)' \subseteq Pending(v)
      BY <2>1, <2>2 DEF Devices, Pending, Adds
    <2>4. highest[v] # None /\ highest[v] <= highest'[v]
      BY <2>1 DEF TypeOK
    <2> QED BY <1>2, <2>3, <2>4, SameRoom
  <1> QED BY <1>2, <1>3, <1>4, <1>5

LEMMA UnblockUserStep ==
  ASSUME IInv, NEW u \in User, UnblockUser(u)
  PROVE  IInv'
  <1> USE DEF IInv
  <1>1. TypeOK'
    BY DEF UnblockUser, TypeOK, policies, granted
  <1>2. Steady
    BY DEF UnblockUser, Steady, TypeOK
  <1>3. \A v \in User : user'[v] = "blocked" => user[v] = "blocked"
    BY DEF UnblockUser, TypeOK
  <1>4. NoOrphans' /\ HighestHeld'
    <2>1. \A v \in User : Exists(v)' = Exists(v)
      BY DEF UnblockUser, Exists, TypeOK
    <2>2. UNCHANGED <<tenant, override, device, key, highest>>
      BY DEF UnblockUser, policies, granted
    <2>3. NoOrphans'
      BY <2>1, <2>2 DEF NoOrphans, TypeOK
    <2> QED BY <2>1, <2>2, <2>3 DEF HighestHeld, Effective, Within
  <1> QED BY <1>1, <1>2, <1>3, <1>4, HandlersKept, RoomKept DEF UnblockUser, granted

LEMMA DeleteUserStep ==
  ASSUME IInv, NEW u \in User, DeleteUser(u)
  PROVE  IInv'
  <1> USE DEF IInv
  <1>1. TypeOK'
    <2>1. Unlimited \in Row
      BY NameAssumption DEF Unlimited, Row, Wish, Valid
    <2>2. key' \in [AccessKey -> [user : User \cup {NoUser}, status : {"none", "active", "revoked"}]]
      BY DEF DeleteUser, TypeOK, NoKey
    <2>3. device' \in [Fingerprint -> User \cup {NoUser}]
      BY DEF DeleteUser, TypeOK
    <2> QED BY <2>1, <2>2, <2>3 DEF DeleteUser, TypeOK
  <1>2. Steady
    BY DEF DeleteUser, Steady, TypeOK
  <1>3. \A v \in User : user'[v] = "blocked" => user[v] = "blocked"
    BY DEF DeleteUser, TypeOK
  <1>4. \A v \in User : v # u => Exists(v)' = Exists(v)
    BY DEF DeleteUser, Exists, TypeOK
  <1>5. NoOrphans'
    <2>1. \A f \in Fingerprint : device'[f] # NoUser => user'[device'[f]] \in {"active", "blocked"}
      BY DEF DeleteUser, NoOrphans, Exists, TypeOK
    <2>2. \A k \in AccessKey : key'[k] # NoKey =>
            key'[k].user \in User /\ user'[key'[k].user] \in {"active", "blocked"}
      BY DEF DeleteUser, NoOrphans, Exists, TypeOK
    <2>3. \A v \in User : override'[v] # Unlimited => user'[v] \in {"active", "blocked"}
      BY DEF DeleteUser, NoOrphans, Exists, TypeOK
    <2> QED BY <2>1, <2>2, <2>3 DEF NoOrphans, Exists
  <1>6. HighestHeld'
    <2>1. ASSUME NEW v \in User, Exists(v)'
          PROVE  Within(Effective(v)'.devices, highest'[v])
      <3>1. v # u /\ Exists(v)
        BY <1>4, <2>1 DEF DeleteUser, Exists, TypeOK
      <3>2. Effective(v)' = Effective(v) /\ highest' = highest
        BY <3>1 DEF DeleteUser, Effective, TypeOK
      <3> QED BY <3>1, <3>2 DEF HighestHeld
    <2> QED BY <2>1 DEF HighestHeld, Within
  <1>7. HandlersSound'
    BY <1>1, <1>2, <1>3, HandlersKept DEF DeleteUser
  <1>8. Room'
    <2> SUFFICES ASSUME NEW v \in User, highest'[v] # None
                 PROVE  Cardinality(Devices(v)') + Cardinality(Pending(v)')
                          <= highest'[v] - 1 + Cardinality(Request)
      BY DEF Room
    <2>1. CASE v = u
      <3>1. Devices(v)' = {}
        BY <2>1, NameAssumption DEF DeleteUser, Devices, TypeOK
      <3>2. highest'[v] \in Nat \ {0} /\ Cardinality(Devices(v)') = 0
        BY <1>1, <3>1, FS_EmptySet DEF TypeOK
      <3> QED BY <1>1, <3>2, NewRoom
    <2>2. CASE v # u
      <3>1. Devices(v)' = Devices(v)
        BY <2>2, NameAssumption DEF DeleteUser, Devices, TypeOK
      <3>2. \A q \in Request : req[q].pc # "idle" /\ req[q].goal = "device" =>
              req[q].fp \in Fingerprint
        BY DEF HandlersSound, Sound
      <3>3. \A q \in Request : Adds(req[q], v)' => Adds(req[q], v)
        BY <2>2, <3>2, NameAssumption DEF DeleteUser, Adds, TypeOK
      <3>4. Pending(v)' \subseteq Pending(v)
        BY <3>3 DEF Pending
      <3>5. highest[v] # None /\ highest[v] <= highest'[v]
        BY DEF DeleteUser, TypeOK
      <3> QED BY <1>1, <3>1, <3>4, <3>5, SameRoom
    <2> QED BY <2>1, <2>2
  <1> QED BY <1>1, <1>5, <1>6, <1>7, <1>8

LEMMA RevokeAccessKeyStep ==
  ASSUME IInv, NEW k \in AccessKey, RevokeAccessKey(k)
  PROVE  IInv'
  <1> USE DEF IInv
  <1>1. /\ key' = [key EXCEPT ![k].status = "revoked"]
        /\ key[k].status # "none"
        /\ UNCHANGED <<user, highest, tenant, override, device, usage, req>>
    BY DEF RevokeAccessKey, people, policies
  <1>2. TypeOK'
    BY <1>1 DEF TypeOK
  <1>3. Steady
    BY <1>1 DEF Steady, TypeOK
  <1>4. NoOrphans' /\ HighestHeld'
    <2>1. \A j \in AccessKey : key'[j].user = key[j].user /\ (key'[j] # NoKey => key[j] # NoKey)
      BY <1>1 DEF TypeOK, NoKey
    <2>2. \A j \in AccessKey : key'[j] # NoKey => key'[j].user \in User /\ Exists(key'[j].user)
      BY <2>1 DEF NoOrphans
    <2> QED BY <1>1, <2>2 DEF NoOrphans, HighestHeld, Exists, Effective
  <1> QED BY <1>1, <1>2, <1>3, <1>4, HandlersKept, RoomKept

LEMMA TrafficStep ==
  ASSUME IInv, Traffic
  PROVE  IInv'
  <1> USE DEF IInv
  <1>1. TypeOK' /\ Steady
    BY DEF Traffic, TypeOK, Steady, people, policies, granted
  <1>2. NoOrphans' /\ HighestHeld'
    BY DEF Traffic, NoOrphans, HighestHeld, Exists, Effective, people, policies, granted
  <1> QED BY <1>1, <1>2, HandlersKept, RoomKept DEF Traffic, people, granted

LEMMA NextHolds ==
  ASSUME IInv, [Next]_vars
  PROVE  IInv'
  <1>1. CASE UNCHANGED vars
    BY <1>1 DEF vars, IInv, TypeOK, HandlersSound, Sound, NoOrphans, HighestHeld, Room,
                Exists, Effective, Devices, Pending, Adds
  <1>2. ASSUME NEW u \in User, CreateUser(u) \/ BlockUser(u) \/ UnblockUser(u) \/ DeleteUser(u)
        PROVE  IInv'
    BY <1>2, CreateUserStep, BlockUserStep, UnblockUserStep, DeleteUserStep
  <1>3. ASSUME NEW p \in Policy, SetTenantPolicy(p)
        PROVE  IInv'
    <2>1. p \in Row
      BY <1>3, InputAssumption DEF SetTenantPolicy, Row
    <2> QED BY <1>3, <2>1, PolicyStep
            DEF SetTenantPolicy, Raised, IInv, TypeOK, NoOrphans
  <1>4. ASSUME NEW u \in User, NEW p \in Policy, SetUserPolicyOverride(u, p)
        PROVE  IInv'
    <2>1. p \in Row
      BY <1>4, InputAssumption DEF SetUserPolicyOverride, Row
    <2>2. override' \in [User -> Row] /\ tenant' = tenant /\ tenant \in Row
      BY <1>4, <2>1 DEF SetUserPolicyOverride, IInv, TypeOK
    <2>3. \A v \in User : override'[v] # Unlimited => Exists(v)
      BY <1>4 DEF SetUserPolicyOverride, IInv, TypeOK, NoOrphans
    <2> QED BY <1>4, <2>2, <2>3, PolicyStep DEF SetUserPolicyOverride, Raised
  <1>5. ASSUME NEW k \in AccessKey, RevokeAccessKey(k)
        PROVE  IInv'
    BY <1>5, RevokeAccessKeyStep
  <1>6. CASE Traffic
    BY <1>6, TrafficStep
  <1>7. ASSUME NEW r \in Request, Begin(r) \/ Step(r) \/ Fail(r)
        PROVE  IInv'
    BY <1>7, ReadStep, InsertKeyStep, InsertDeviceStep DEF Step, Reads
  <1> QED BY <1>1, <1>2, <1>3, <1>4, <1>5, <1>6, <1>7 DEF Next, Administer

LEMMA Invariance == Spec => []IInv
  BY InitHolds, NextHolds, PTL DEF Spec
-----------------------------------------------------------------------------
\* Every state of the handlers is typed; a policy that is stored is valid.
THEOREM TypeCorrect == Spec => []TypeOK
  <1>1. IInv => TypeOK
    BY DEF IInv
  <1> QED BY <1>1, Invariance, PTL

\* DeleteUser leaves nothing behind, whatever handlers were in flight.
THEOREM NothingLeft == Spec => []NoOrphans
  <1>1. IInv => NoOrphans
    BY DEF IInv
  <1> QED BY <1>1, Invariance, PTL

\* However many registrations are in flight, a user's devices go over the highest
\* limit he has had by less than their number.
THEOREM DeviceBound == Spec => []DevicesBounded
  <1>1. IInv => DevicesBounded
    <2> SUFFICES ASSUME IInv, NEW u \in User, highest[u] # None
                 PROVE  Cardinality(Devices(u)) <= highest[u] - 1 + Cardinality(Request)
      BY DEF DevicesBounded
    <2>1. highest[u] \in Nat
      BY DEF IInv, TypeOK
    <2> QED BY <2>1, Sizes DEF IInv, Room
  <1> QED BY <1>1, Invariance, PTL

\* Who passes enforceQuota was under the quota when the policy was read.
THEOREM QuotaIsHeld == Spec => []QuotaHeld
  <1>1. IInv => QuotaHeld
    BY DEF IInv, QuotaHeld, HandlersSound, Sound
  <1> QED BY <1>1, Invariance, PTL

\* After BlockUser only requests that had got past its check can make a key.
THEOREM BlockIsHeld == Spec => []BlockHolds
  <1>1. IInv => BlockHolds
    BY DEF IInv, BlockHolds, Past, HandlersSound, Sound
  <1> QED BY <1>1, Invariance, PTL

\* A fingerprint changes hands only over the deletion of its owner.
THEOREM OwnerKept == Spec => OneOwner
  <1>1. ASSUME IInv, [Next]_vars
        PROVE  [\A f \in Fingerprint : device[f] # NoUser /\ device'[f] # device[f] =>
                  device'[f] = NoUser /\ user'[device[f]] = "deleted"]_vars
    <2> SUFFICES ASSUME NEW f \in Fingerprint, device[f] # NoUser, device'[f] # device[f]
                 PROVE  device'[f] = NoUser /\ user'[device[f]] = "deleted"
      OBVIOUS
    <2>1. ASSUME NEW u \in User, DeleteUser(u)
          PROVE  device'[f] = NoUser /\ user'[device[f]] = "deleted"
      BY <1>1, <2>1 DEF DeleteUser, IInv, TypeOK
    <2>2. ASSUME NEW r \in Request, InsertDevice(r)
          PROVE  FALSE
      BY <1>1, <2>2 DEF InsertDevice, IInv, TypeOK
    <2>3. CASE device' = device
      BY <2>3
    <2>4. ASSUME NEW u \in User, CreateUser(u) \/ BlockUser(u) \/ UnblockUser(u)
          PROVE  device' = device
      BY <2>4 DEF CreateUser, BlockUser, UnblockUser, granted
    <2>5. ASSUME NEW p \in Policy, SetTenantPolicy(p) \/ \E u \in User : SetUserPolicyOverride(u, p)
          PROVE  device' = device
      BY <2>5 DEF SetTenantPolicy, SetUserPolicyOverride, granted
    <2>6. ASSUME NEW k \in AccessKey, RevokeAccessKey(k)
          PROVE  device' = device
      BY <2>6 DEF RevokeAccessKey
    <2>7. ASSUME NEW r \in Request, Reads(r) \/ InsertKey(r)
          PROVE  device' = device
      BY <1>1, <2>7, ReadRecord DEF tables, granted, InsertKey
    <2>8. Traffic \/ UNCHANGED vars => device' = device
      BY DEF Traffic, granted, vars
    <2> QED BY <1>1, <2>1, <2>2, <2>3, <2>4, <2>5, <2>6, <2>7, <2>8
            DEF Next, Administer, Step, Reads
  <1> QED BY <1>1, Invariance, PTL DEF Spec, OneOwner
-----------------------------------------------------------------------------
(***************************************************************************)
(* The refinement of AccessRegistry, for devices and for keys.             *)
(***************************************************************************)
\* The steps that write users, devices or keys.
LEMMA StepShape ==
  ASSUME IInv, [Next]_vars
  PROVE  \/ UNCHANGED <<user, device, key>>
         \/ \E u \in User : CreateUser(u) \/ BlockUser(u) \/ UnblockUser(u) \/ DeleteUser(u)
         \/ \E k \in AccessKey : RevokeAccessKey(k)
         \/ \E r \in Request : InsertKey(r) \/ InsertDevice(r)
  <1>1. ASSUME NEW r \in Request, Reads(r) PROVE UNCHANGED <<user, device, key>>
    BY <1>1, ReadRecord DEF IInv, tables, people, granted
  <1>2. ASSUME NEW p \in Policy, SetTenantPolicy(p) \/ \E u \in User : SetUserPolicyOverride(u, p)
        PROVE  UNCHANGED <<user, device, key>>
    BY <1>2 DEF SetTenantPolicy, SetUserPolicyOverride, granted
  <1>3. Traffic \/ UNCHANGED vars => UNCHANGED <<user, device, key>>
    BY DEF Traffic, people, granted, vars
  <1> QED BY <1>1, <1>2, <1>3 DEF Next, Administer, Step, Reads

\* A user whose status an operator changes keeps what he holds.
LEMMA StatusStep ==
  ASSUME IInv, NEW u \in User, CreateUser(u) \/ BlockUser(u) \/ UnblockUser(u)
  PROVE  /\ UNCHANGED <<device, key>>
         /\ \/ user[u] = "unknown" /\ user' = [user EXCEPT ![u] = "active"]
            \/ /\ Exists(u)
               /\ \/ user' = [user EXCEPT ![u] = "blocked"]
                  \/ user' = [user EXCEPT ![u] = "active"]
  BY DEF CreateUser, BlockUser, UnblockUser, granted

\* A handler that inserts a key gives it to a user who exists, or stops.
LEMMA InsertKeyEffect ==
  ASSUME IInv, NEW r \in Request, InsertKey(r)
  PROVE  /\ UNCHANGED <<user, device>>
         /\ \/ UNCHANGED key
            \/ \E u \in User, k \in AccessKey :
                 /\ Exists(u) /\ key[k] = NoKey
                 /\ key' = [key EXCEPT ![k] = [user |-> u, status |-> "active"]]
  <1>1. req[r].id \in User
    BY DEF IInv, HandlersSound, Sound, InsertKey
  <1> QED BY <1>1 DEF InsertKey, people

LEMMA InsertDeviceEffect ==
  ASSUME IInv, NEW r \in Request, InsertDevice(r)
  PROVE  /\ UNCHANGED <<user, key>>
         /\ \/ UNCHANGED device
            \/ \E u \in User, f \in Fingerprint :
                 Exists(u) /\ device[f] = NoUser /\ device' = [device EXCEPT ![f] = u]
  <1>1. req[r].id \in User /\ req[r].fp \in Fingerprint
    BY DEF IInv, HandlersSound, Sound, InsertDevice
  <1> QED BY <1>1 DEF InsertDevice, people

LEMMA DeviceRegistryStep ==
  ASSUME IInv, [Next]_vars
  PROVE  [DeviceRegistry!Next]_(DeviceRegistry!registryVars)
  <1> USE DEF DeviceRegistry!registryVars
  <1>1. CASE UNCHANGED <<user, device>>
    BY <1>1
  <1>2. ASSUME NEW u \in User, CreateUser(u) \/ BlockUser(u) \/ UnblockUser(u)
        PROVE  DeviceRegistry!Next
    <2>1. DeviceRegistry!Enrol(u) \/ DeviceRegistry!Suspend(u) \/ DeviceRegistry!Resume(u)
      BY <1>2, StatusStep DEF DeviceRegistry!Enrol, DeviceRegistry!Suspend, DeviceRegistry!Resume,
         DeviceRegistry!Become, DeviceRegistry!Exists, Exists
    <2> QED BY <2>1 DEF DeviceRegistry!Next
  <1>3. ASSUME NEW u \in User, DeleteUser(u) PROVE DeviceRegistry!Next
    <2>1. DeviceRegistry!Remove(u)
      BY <1>3 DEF DeleteUser, DeviceRegistry!Remove, DeviceRegistry!Become,
         DeviceRegistry!Exists, Exists
    <2> QED BY <2>1 DEF DeviceRegistry!Next
  <1>4. ASSUME NEW k \in AccessKey, RevokeAccessKey(k) PROVE UNCHANGED <<user, device>>
    BY <1>4 DEF RevokeAccessKey, people
  <1>5. ASSUME NEW r \in Request, InsertKey(r) PROVE UNCHANGED <<user, device>>
    BY <1>5, InsertKeyEffect
  <1>6. ASSUME NEW r \in Request, InsertDevice(r), device' # device
        PROVE  DeviceRegistry!Next
    <2>1. PICK u \in User, f \in Fingerprint :
            Exists(u) /\ device[f] = NoUser /\ device' = [device EXCEPT ![f] = u]
      BY <1>6, InsertDeviceEffect
    <2>2. DeviceRegistry!Give(u, f)
      BY <1>6, <2>1, InsertDeviceEffect DEF DeviceRegistry!Give, DeviceRegistry!Exists, Exists
    <2> QED BY <2>2 DEF DeviceRegistry!Next
  <1>7. ASSUME NEW r \in Request, InsertDevice(r) PROVE user' = user
    BY <1>7, InsertDeviceEffect
  <1> QED BY <1>1, <1>2, <1>3, <1>4, <1>5, <1>6, <1>7, StepShape

LEMMA KeyRegistryStep ==
  ASSUME IInv, [Next]_vars
  PROVE  [KeyRegistry!Next]_(KeyRegistry!registryVars)
  <1> USE DEF KeyRegistry!registryVars
  <1>a. key \in [AccessKey -> [user : User \cup {NoUser}, status : {"none", "active", "revoked"}]]
    BY DEF IInv, TypeOK
  <1>b. key' = key => KeyHolder' = KeyHolder /\ RevokedKeys' = RevokedKeys
    BY DEF KeyHolder, RevokedKeys
  <1>1. CASE UNCHANGED <<user, key>>
    BY <1>1, <1>b
  <1>2. ASSUME NEW u \in User, CreateUser(u) \/ BlockUser(u) \/ UnblockUser(u)
        PROVE  KeyRegistry!Next
    <2>1. KeyRegistry!Enrol(u) \/ KeyRegistry!Suspend(u) \/ KeyRegistry!Resume(u)
      BY <1>2, <1>b, StatusStep DEF KeyRegistry!Enrol, KeyRegistry!Suspend, KeyRegistry!Resume,
         KeyRegistry!Become, KeyRegistry!Exists, Exists
    <2> QED BY <2>1 DEF KeyRegistry!Next
  <1>3. ASSUME NEW u \in User, DeleteUser(u) PROVE KeyRegistry!Next
    <2>1. key' = [k \in AccessKey |-> IF key[k].user = u THEN NoKey ELSE key[k]]
      BY <1>3 DEF DeleteUser
    <2>2. KeyHolder' = [k \in AccessKey |-> IF KeyHolder[k] = u THEN NoUser ELSE KeyHolder[k]]
      BY <2>1 DEF KeyHolder, NoKey
    <2>3. RevokedKeys' = {k \in RevokedKeys : KeyHolder[k] # u}
      BY <2>1 DEF KeyHolder, RevokedKeys, NoKey
    <2>4. Exists(u) /\ user' = [user EXCEPT ![u] = "deleted"]
      BY <1>3 DEF DeleteUser
    <2>5. KeyRegistry!Remove(u)
      BY <2>2, <2>3, <2>4 DEF KeyRegistry!Remove, KeyRegistry!Become, KeyRegistry!Exists, Exists
    <2> QED BY <2>5 DEF KeyRegistry!Next
  <1>4. ASSUME NEW k \in AccessKey, RevokeAccessKey(k) PROVE KeyRegistry!Next
    <2>1. key' = [key EXCEPT ![k].status = "revoked"] /\ key[k].status # "none" /\ user' = user
      BY <1>4 DEF RevokeAccessKey, people
    <2>2. KeyHolder' = KeyHolder
      <3>1. \A j \in AccessKey : key'[j].user = key[j].user
        BY <1>a, <2>1
      <3> QED BY <3>1 DEF KeyHolder
    <2>3. RevokedKeys' = RevokedKeys \cup {k}
      <3>1. key'[k].status = "revoked" /\ \A j \in AccessKey : j # k => key'[j] = key[j]
        BY <1>a, <2>1
      <3> QED BY <3>1 DEF RevokedKeys
    <2>4. KeyHolder[k] # NoUser
      <3>1. key[k] # NoKey
        BY <2>1 DEF NoKey
      <3>2. key[k].user \in User
        BY <3>1 DEF IInv, NoOrphans
      <3> QED BY <3>2, NameAssumption DEF KeyHolder
    <2>5. KeyRegistry!Revoke(k)
      BY <2>1, <2>2, <2>3, <2>4 DEF KeyRegistry!Revoke
    <2> QED BY <2>5 DEF KeyRegistry!Next
  <1>5. ASSUME NEW r \in Request, InsertKey(r), key' # key PROVE KeyRegistry!Next
    <2>1. PICK u \in User, k \in AccessKey :
            /\ Exists(u) /\ key[k] = NoKey
            /\ key' = [key EXCEPT ![k] = [user |-> u, status |-> "active"]]
      BY <1>5, InsertKeyEffect
    <2>2. key'[k] = [user |-> u, status |-> "active"]
          /\ \A j \in AccessKey : j # k => key'[j] = key[j]
      BY <1>a, <2>1
    <2>3. KeyHolder' = [KeyHolder EXCEPT ![k] = u] /\ KeyHolder[k] = NoUser
      <3>1. KeyHolder[k] = NoUser
        BY <2>1 DEF KeyHolder, NoKey
      <3>2. \A j \in AccessKey : key'[j].user = IF j = k THEN u ELSE key[j].user
        BY <2>2
      <3>3. KeyHolder' = [KeyHolder EXCEPT ![k] = u]
        BY <3>2 DEF KeyHolder
      <3> QED BY <3>1, <3>3
    <2>4. RevokedKeys' = RevokedKeys
      BY <2>1, <2>2 DEF RevokedKeys, NoKey
    <2>5. KeyRegistry!Give(u, k)
      BY <1>5, <2>1, <2>3, <2>4, InsertKeyEffect DEF KeyRegistry!Give, KeyRegistry!Exists, Exists
    <2> QED BY <2>5 DEF KeyRegistry!Next
  <1>6. ASSUME NEW r \in Request, InsertKey(r) PROVE user' = user
    BY <1>6, InsertKeyEffect
  <1>7. ASSUME NEW r \in Request, InsertDevice(r) PROVE UNCHANGED <<user, key>>
    BY <1>7, InsertDeviceEffect
  <1> QED BY <1>1, <1>2, <1>3, <1>4, <1>5, <1>6, <1>7, StepShape

\* ImplementsRegistry: a device, and a key, is held by one user who exists and
\* freed only with him, and a key that is revoked is not good again.
THEOREM RegistryRefinement == Spec => ImplementsRegistry
  <1>1. Init => DeviceRegistry!Init
    BY DEF Init, DeviceRegistry!Init
  <1>2. Init => KeyRegistry!Init
    BY DEF Init, KeyRegistry!Init, KeyHolder, RevokedKeys, NoKey
  <1>3. IInv /\ [Next]_vars => [DeviceRegistry!Next]_(DeviceRegistry!registryVars)
    BY DeviceRegistryStep
  <1>4. IInv /\ [Next]_vars => [KeyRegistry!Next]_(KeyRegistry!registryVars)
    BY KeyRegistryStep
  <1> QED BY <1>1, <1>2, <1>3, <1>4, Invariance, PTL
          DEF Spec, ImplementsRegistry, DeviceRegistry!Spec, KeyRegistry!Spec
=============================================================================
