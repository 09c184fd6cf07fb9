------------------------- MODULE SubscriptionsProofs -------------------------
(***************************************************************************)
(* What answers contain and what they do not miss, for any number of keys, *)
(* nodes and handlers, and any length of a page.                           *)
(***************************************************************************)
EXTENDS Subscriptions, FiniteSetTheorems, WellFoundedInduction, TLAPS

Early == {"user", "keys", "nodes"}
Late  == {"runtime", "answer"}

\* A handler h agrees with what has been watched since it began.
Sound(h, w) ==
  h.pc # "idle" =>
  /\ h.goal = "subscription" /\ h.pc # "user" => w.free
  /\ h.goal = "link" => h.pc \notin {"user", "keys"}
  /\ h.keys \subseteq w.keysEver
  /\ h.goal = "subscription" /\ h.pc \in {"nodes", "runtime", "answer"} => w.keysKept \subseteq h.keys
  /\ h.pc \in Early => h.found = {} /\ h.lost = {}
  /\ h.pc \in Late =>
       /\ \A n \in Node : h.rows[n] \in {"pending", "active"} => n \in w.nodesEver
       /\ \A n \in w.nodesKept : h.rows[n] \in {"pending", "active"}
       /\ \A n \in h.todo \cup h.found : h.rows[n] # "absent"
  /\ h.pc \in Late /\ h.goal = "subscription" =>
       /\ w.nodesKept \subseteq h.todo \cup h.found \cup h.lost
       /\ h.pc = "answer" => h.todo = {}
  /\ h.pc = "runtime" /\ h.goal = "link" =>
       h.found = {} /\ w.nodesKept \subseteq h.todo \cup h.lost
  /\ h.pc = "answer" /\ h.goal = "link" =>
       h.found \subseteq w.nodesEver \/ w.nodesKept \subseteq h.lost

HandlersSound == \A r \in Request : Sound(req[r], watch[r])

IInv == TypeOK /\ HandlersSound

\* What watching on can only do.
Shrunk(w, x) ==
  /\ x.keysKept \subseteq w.keysKept /\ x.nodesKept \subseteq w.nodesKept
  /\ w.keysEver \subseteq x.keysEver /\ w.nodesEver \subseteq x.nodesEver
  /\ w.free => x.free

TablesType ==
  /\ user \in {"active", "blocked", "deleted"}
  /\ key \in [Key -> {"absent", "active", "gone"}]
  /\ node \in [Node -> Status \cup {"absent"}]
  /\ ready \subseteq Node
-----------------------------------------------------------------------------
LEMMA IdleType == Idle \in Handler /\ Idle.pc = "idle"
  BY DEF Idle, Handler, Status

LEMMA UnwatchedType == Unwatched \in Watched
  BY DEF Unwatched, Watched

LEMMA WatchType ==
  ASSUME TypeOK, Watch
  PROVE  watch' \in [Request -> Watched]
  <1> SUFFICES ASSUME NEW r \in Request PROVE watch'[r] \in Watched
    BY DEF Watch
  <1>1. CASE req'[r].pc = "idle"
    BY <1>1, UnwatchedType DEF Watch
  <1>2. CASE req'[r].pc # "idle" /\ req[r].pc = "idle"
    <2>1. watch'[r] = [free |-> user' = "active",
                       keysKept |-> Offered(req[r].goal)', keysEver |-> Current(req[r].goal)',
                       nodesKept |-> Usable(req[r].goal)', nodesEver |-> Unrevoked']
      BY <1>2 DEF Watch
    <2>2. /\ Offered(req[r].goal)' \subseteq Key /\ Current(req[r].goal)' \subseteq Key
          /\ Usable(req[r].goal)' \subseteq Node /\ Unrevoked' \subseteq Node
      BY DEF Offered, Current, Usable, Listed, Newest, ActiveKeys, Nodes, Unrevoked
    <2> QED BY <2>1, <2>2 DEF Watched
  <1>3. CASE req'[r].pc # "idle" /\ req[r].pc # "idle"
    <2>1. watch'[r] = [free |-> watch[r].free \/ user' = "active",
                       keysKept |-> watch[r].keysKept \cap Offered(req[r].goal)',
                       keysEver |-> watch[r].keysEver \cup Current(req[r].goal)',
                       nodesKept |-> watch[r].nodesKept \cap Usable(req[r].goal)',
                       nodesEver |-> watch[r].nodesEver \cup Unrevoked']
      BY <1>3 DEF Watch
    <2>2. /\ Current(req[r].goal)' \subseteq Key /\ Unrevoked' \subseteq Node
      BY DEF Current, ActiveKeys, Nodes, Unrevoked
    <2>3. watch[r] \in Watched
      BY DEF TypeOK
    <2> QED BY <2>1, <2>2, <2>3 DEF Watched
  <1> QED BY <1>1, <1>2, <1>3

\* A handler that goes on is watched on, and what is kept is still on offer.
LEMMA WatchGoesOn ==
  ASSUME TypeOK, Watch, NEW r \in Request, req[r].pc # "idle", req'[r].pc # "idle"
  PROVE  /\ Shrunk(watch[r], watch'[r])
         /\ watch'[r].keysKept \subseteq Offered(req[r].goal)'
         /\ watch'[r].nodesKept \subseteq Usable(req[r].goal)'
         /\ Current(req[r].goal)' \subseteq watch'[r].keysEver
         /\ Unrevoked' \subseteq watch'[r].nodesEver
         /\ user' = "active" => watch'[r].free
  <1>1. watch'[r] = [free |-> watch[r].free \/ user' = "active",
                     keysKept |-> watch[r].keysKept \cap Offered(req[r].goal)',
                     keysEver |-> watch[r].keysEver \cup Current(req[r].goal)',
                     nodesKept |-> watch[r].nodesKept \cap Usable(req[r].goal)',
                     nodesEver |-> watch[r].nodesEver \cup Unrevoked']
    BY DEF Watch
  <1>2. /\ watch'[r].keysKept = watch[r].keysKept \cap Offered(req[r].goal)'
        /\ watch'[r].nodesKept = watch[r].nodesKept \cap Usable(req[r].goal)'
    BY <1>1
  <1>3. /\ watch'[r].keysEver = watch[r].keysEver \cup Current(req[r].goal)'
        /\ watch'[r].nodesEver = watch[r].nodesEver \cup Unrevoked'
    BY <1>1
  <1>4. watch'[r].free = (watch[r].free \/ user' = "active")
    BY <1>1
  <1>5. Shrunk(watch[r], watch'[r])
    BY <1>2, <1>3, <1>4 DEF Shrunk
  <1> QED BY <1>2, <1>3, <1>4, <1>5

LEMMA SoundShrinks ==
  ASSUME NEW h, NEW w, NEW x, Sound(h, w), Shrunk(w, x)
  PROVE  Sound(h, x)
  BY DEF Sound, Shrunk

LEMMA IdleSound == ASSUME NEW w PROVE Sound(Idle, w)
  <1>1. Idle.pc = "idle"
    BY DEF Idle
  <1> QED BY <1>1 DEF Sound

\* A handler that does not move stays sound.
LEMMA Unmoved ==
  ASSUME IInv, Watch, NEW r \in Request, req'[r] = req[r]
  PROVE  Sound(req'[r], watch'[r])
  <1>1. CASE req[r].pc = "idle"
    BY <1>1 DEF Sound
  <1>2. CASE req[r].pc # "idle"
    <2>1. Shrunk(watch[r], watch'[r])
      BY <1>2, WatchGoesOn DEF IInv
    <2> QED BY <2>1, SoundShrinks DEF IInv, HandlersSound
  <1> QED BY <1>1, <1>2

LEMMA NoneMoves ==
  ASSUME IInv, Watch, req' = req, TablesType'
  PROVE  IInv'
  <1>1. TypeOK'
    BY WatchType DEF IInv, TypeOK, TablesType
  <1>2. HandlersSound'
    BY Unmoved DEF HandlersSound
  <1> QED BY <1>1, <1>2 DEF IInv

LEMMA OneMoves ==
  ASSUME IInv, Watch, UNCHANGED tables, NEW r \in Request, NEW x \in Handler,
         req' = [req EXCEPT ![r] = x], Sound(x, watch'[r])
  PROVE  IInv'
  <1>1. TypeOK'
    <2>1. watch' \in [Request -> Watched]
      BY WatchType DEF IInv
    <2>2. req' \in [Request -> Handler]
      BY DEF IInv, TypeOK
    <2> QED BY <2>1, <2>2 DEF IInv, TypeOK, tables, servers
  <1>2. HandlersSound'
    <2> SUFFICES ASSUME NEW q \in Request PROVE Sound(req'[q], watch'[q])
      BY DEF HandlersSound
    <2>1. CASE q = r
      BY <2>1 DEF IInv, TypeOK
    <2>2. CASE q # r
      <3>1. req'[q] = req[q]
        BY <2>2 DEF IInv, TypeOK
      <3> QED BY <3>1, Unmoved
    <2> QED BY <2>1, <2>2
  <1> QED BY <1>1, <1>2 DEF IInv
-----------------------------------------------------------------------------
(***************************************************************************)
(* The handlers.                                                           *)
(***************************************************************************)
LEMMA LeaveStep ==
  ASSUME IInv, Watch, UNCHANGED tables, NEW r \in Request, Leave(r)
  PROVE  IInv'
  BY IdleType, IdleSound, OneMoves DEF Leave

LEMMA BeginStep ==
  ASSUME IInv, NEW r \in Request, NEW goal \in {"subscription", "link"}, Begin(r, goal)
  PROVE  IInv'
  <1> DEFINE x == [Idle EXCEPT !.goal = goal, !.pc = IF goal = "link" THEN "nodes" ELSE "user"]
  <1>1. req' = [req EXCEPT ![r] = x] /\ Watch /\ UNCHANGED tables
    BY DEF Begin
  <1>2. x \in Handler
    BY IdleType DEF Handler
  <1>3. Sound(x, watch'[r])
    BY DEF Sound, Idle, Early, Late
  <1> QED BY <1>1, <1>2, <1>3, OneMoves

LEMMA ReadUserStep ==
  ASSUME IInv, NEW r \in Request, ReadUser(r)
  PROVE  IInv'
  <1>1. Watch /\ UNCHANGED tables
    BY DEF ReadUser
  <1>2. CASE Leave(r)
    BY <1>1, <1>2, LeaveStep
  <1>3. CASE user = "active" /\ Move(r, "keys")
    <2>1. PICK h \in Handler : h = req[r]
      BY DEF IInv, TypeOK
    <2> DEFINE x == [h EXCEPT !.pc = "keys"]
    <2>2. x \in Handler
      BY DEF Handler
    <2>3. req' = [req EXCEPT ![r] = x]
      BY <1>3, <2>1 DEF Move
    <2>4. h.pc = "user" /\ x.pc = "keys"
      BY <2>1 DEF ReadUser, Handler
    <2>5. req[r].pc # "idle" /\ req'[r].pc # "idle" /\ req'[r].goal = h.goal
      BY <2>1, <2>3, <2>4 DEF IInv, TypeOK, Handler
    <2>6. Shrunk(watch[r], watch'[r]) /\ (user' = "active" => watch'[r].free)
      BY <1>1, <2>5, WatchGoesOn DEF IInv
    <2>7. user' = "active"
      BY <1>1, <1>3 DEF tables
    <2>8. Sound(h, watch'[r])
      BY <2>1, <2>6, SoundShrinks DEF IInv, HandlersSound
    <2>9. Sound(x, watch'[r])
      BY <2>4, <2>6, <2>7, <2>8 DEF Sound, Early, Late, Handler
    <2> QED BY <1>1, <2>2, <2>3, <2>9, OneMoves
  <1> QED BY <1>2, <1>3 DEF ReadUser

LEMMA ListKeysStep ==
  ASSUME IInv, NEW r \in Request, ListKeys(r)
  PROVE  IInv'
  <1>1. Watch /\ UNCHANGED tables
    BY DEF ListKeys
  <1>2. PICK h \in Handler : h = req[r]
    BY DEF IInv, TypeOK
  <1> DEFINE S == Newest(ActiveKeys)
  <1> DEFINE x == [h EXCEPT !.pc = "nodes", !.keys = S]
  <1>3. S \subseteq Key /\ S \subseteq ActiveKeys
    BY DEF Newest, ActiveKeys
  <1>4. x \in Handler /\ x.pc = "nodes" /\ x.keys = S /\ x.goal = h.goal
        /\ x.found = h.found /\ x.lost = h.lost
    BY <1>3 DEF Handler
  <1>5. req' = [req EXCEPT ![r] = x]
    BY <1>2 DEF ListKeys
  <1>6. h.pc = "keys"
    BY <1>2 DEF ListKeys
  <1>7. req[r].pc # "idle" /\ req'[r].pc # "idle" /\ req'[r].goal = h.goal
    BY <1>2, <1>4, <1>5, <1>6 DEF IInv, TypeOK
  <1>8. Sound(h, watch[r])
    BY <1>2 DEF IInv, HandlersSound
  <1>9. h.goal = "subscription"
    BY <1>6, <1>8 DEF Sound, Handler
  <1>10. /\ Shrunk(watch[r], watch'[r])
         /\ watch'[r].keysKept \subseteq Offered(req[r].goal)'
         /\ Current(req[r].goal)' \subseteq watch'[r].keysEver
    BY <1>1, <1>7, WatchGoesOn DEF IInv
  <1>11. Offered(req[r].goal)' = S /\ Current(req[r].goal)' = ActiveKeys
    <2>1. key' = key
      BY <1>1 DEF tables
    <2> QED BY <1>7, <1>9, <2>1 DEF Offered, Current, ActiveKeys, Newest
  <1>12. Sound(h, watch'[r])
    BY <1>8, <1>10, SoundShrinks
  <1>13. Sound(x, watch'[r])
    BY <1>3, <1>4, <1>6, <1>9, <1>10, <1>11, <1>12 DEF Sound, Early, Late
  <1> QED BY <1>1, <1>4, <1>5, <1>13, OneMoves

LEMMA ListNodesStep ==
  ASSUME IInv, NEW r \in Request, ListNodes(r)
  PROVE  IInv'
  <1>1. Watch /\ UNCHANGED tables
    BY DEF ListNodes
  <1>2. PICK h \in Handler : h = req[r]
    BY DEF IInv, TypeOK
  <1> DEFINE page == Listed(h.goal)
  <1> DEFINE pc == IF page = {} THEN "answer" ELSE "runtime"
  <1> DEFINE rows == [n \in Node |-> IF n \in page THEN node[n] ELSE "absent"]
  <1> DEFINE x == [h EXCEPT !.pc = pc, !.rows = rows, !.todo = page]
  <1>3. page \subseteq Nodes /\ Nodes \subseteq Node
    BY DEF Listed, Newest, Nodes
  <1>4. rows \in [Node -> Status \cup {"absent"}]
    BY DEF IInv, TypeOK
  <1>5. x \in Handler /\ x.pc = pc /\ x.rows = rows /\ x.todo = page /\ x.goal = h.goal
        /\ x.keys = h.keys /\ x.found = h.found /\ x.lost = h.lost
    BY <1>3, <1>4 DEF Handler
  <1>6. req' = [req EXCEPT ![r] = x]
    BY <1>2 DEF ListNodes
  <1>7. h.pc = "nodes" /\ pc \in {"answer", "runtime"} /\ pc # "idle"
    BY <1>2 DEF ListNodes
  <1>8. req[r].pc # "idle" /\ req'[r].pc # "idle" /\ req'[r].goal = h.goal
    BY <1>2, <1>5, <1>6, <1>7 DEF IInv, TypeOK
  <1>9. /\ Shrunk(watch[r], watch'[r])
        /\ watch'[r].nodesKept \subseteq Usable(req[r].goal)'
        /\ Unrevoked' \subseteq watch'[r].nodesEver
    BY <1>1, <1>8, WatchGoesOn DEF IInv
  <1>10. Usable(req[r].goal)' = page \cap Unrevoked \cap ready /\ Unrevoked' = Unrevoked
    <2>1. node' = node /\ ready' = ready
      BY <1>1 DEF tables, servers
    <2> QED BY <1>8, <2>1 DEF Usable, Listed, Unrevoked, Nodes, Newest
  <1>11. Sound(h, watch'[r])
    BY <1>2, <1>9, SoundShrinks DEF IInv, HandlersSound
  <1>12. h.found = {} /\ h.lost = {}
    BY <1>7, <1>11 DEF Sound, Early
  <1>13. \A n \in Node : rows[n] \in {"pending", "active"} => n \in watch'[r].nodesEver
    <2> SUFFICES ASSUME NEW n \in Node, rows[n] \in {"pending", "active"}
                 PROVE  n \in Unrevoked
      BY <1>9, <1>10
    <2> QED BY <1>3 DEF Unrevoked
  <1>14. watch'[r].nodesKept \subseteq page
         /\ \A n \in watch'[r].nodesKept : rows[n] \in {"pending", "active"}
    BY <1>3, <1>9, <1>10 DEF Unrevoked, Nodes, IInv, TypeOK, Status
  <1>15. \A n \in page : rows[n] # "absent"
    BY <1>3 DEF Nodes
  <1>16. page = {} <=> pc = "answer"
    OBVIOUS
  <1> HIDE DEF page, rows, pc
  <1>17. Sound(x, watch'[r])
    BY <1>5, <1>7, <1>11, <1>12, <1>13, <1>14, <1>15, <1>16 DEF Sound, Early, Late
  <1> QED BY <1>1, <1>5, <1>6, <1>17, OneMoves

\* A node with no runtime yet, or with one that cannot be read, is passed over.
LEMMA PassedOver ==
  ASSUME IInv, Watch, UNCHANGED tables, NEW r \in Request, NEW n \in Node, NEW x \in Handler,
         NEW h, h = req[r], h.pc = "runtime", n \in h.todo,
         req' = [req EXCEPT ![r] = x],
         x.pc = Onward(r, h.todo \ {n}, FALSE), x.todo = h.todo \ {n},
         x.goal = h.goal, x.keys = h.keys, x.rows = h.rows, x.found = h.found,
         h.lost \subseteq x.lost, n \in x.lost \/ n \notin ready
  PROVE  IInv'
  <1>1. x.pc \in Late /\ (x.pc = "answer" <=> x.todo = {})
    BY DEF Onward, Late
  <1>2. req[r].pc # "idle" /\ req'[r].pc # "idle" /\ req'[r].goal = h.goal
    BY <1>1 DEF IInv, TypeOK, Late
  <1>3. Shrunk(watch[r], watch'[r]) /\ watch'[r].nodesKept \subseteq Usable(req[r].goal)'
    BY <1>2, WatchGoesOn DEF IInv
  <1>4. Sound(h, watch'[r])
    BY <1>3, SoundShrinks DEF IInv, HandlersSound
  <1>5. n \in x.lost \/ n \notin watch'[r].nodesKept
    BY <1>3 DEF Usable, tables, servers
  <1>6. Sound(x, watch'[r])
    <2>0. /\ \A m \in Node : x.rows[m] \in {"pending", "active"} => m \in watch'[r].nodesEver
          /\ \A m \in watch'[r].nodesKept : x.rows[m] \in {"pending", "active"}
          /\ \A m \in x.todo \cup x.found : x.rows[m] # "absent"
          /\ x.keys \subseteq watch'[r].keysEver
      BY <1>4 DEF Sound, Late
    <2>1. CASE h.goal = "subscription"
      <3>1. watch'[r].free /\ watch'[r].keysKept \subseteq x.keys
        BY <1>4, <2>1 DEF Sound
      <3>2. watch'[r].nodesKept \subseteq x.todo \cup x.found \cup x.lost
        BY <1>4, <1>5, <2>1 DEF Sound, Late
      <3>3. x.goal = "subscription"
        BY <2>1
      <3> QED BY <1>1, <2>0, <3>1, <3>2, <3>3 DEF Sound, Early, Late
    <2>2. CASE h.goal = "link"
      <3>1. h.found = {} /\ watch'[r].nodesKept \subseteq x.todo \cup x.lost
        BY <1>4, <1>5, <2>2 DEF Sound
      <3>2. x.pc = "answer" => watch'[r].nodesKept \subseteq x.lost
        BY <1>1, <3>1
      <3>3. x.found = {} /\ x.goal = "link"
        BY <2>2, <3>1
      <3> QED BY <1>1, <2>0, <3>1, <3>2, <3>3 DEF Sound, Early, Late
    <2> QED BY <2>1, <2>2 DEF Handler
  <1> QED BY <1>6, OneMoves

LEMMA MissRuntimeStep ==
  ASSUME IInv, NEW r \in Request, NEW n \in Node, MissRuntime(r, n)
  PROVE  IInv'
  <1>1. Watch /\ UNCHANGED tables
    BY DEF MissRuntime
  <1>2. PICK h \in Handler : h = req[r]
    BY DEF IInv, TypeOK
  <1> DEFINE pc == Onward(r, h.todo \ {n}, FALSE)
  <1> DEFINE x == [h EXCEPT !.pc = pc, !.todo = h.todo \ {n}, !.lost = h.lost \cup {n}]
  <1>3. h.pc = "runtime" /\ n \in h.todo
    BY <1>2 DEF MissRuntime, Turn
  <1>4. pc \in {"answer", "runtime"}
    BY DEF Onward
  <1>5. req' = [req EXCEPT ![r] = x]
    BY <1>2 DEF MissRuntime
  <1> HIDE DEF pc
  <1>6. /\ x \in Handler
        /\ x.pc = pc /\ x.todo = h.todo \ {n} /\ x.goal = h.goal /\ x.keys = h.keys
        /\ x.rows = h.rows /\ x.found = h.found /\ x.lost = h.lost \cup {n}
    BY <1>4 DEF Handler
  <1> HIDE DEF x
  <1>7. x.pc = Onward(r, h.todo \ {n}, FALSE)
    BY <1>6 DEF pc
  <1> QED BY <1>1, <1>2, <1>3, <1>5, <1>6, <1>7, PassedOver

LEMMA ReadRuntimeStep ==
  ASSUME IInv, NEW r \in Request, NEW n \in Node, ReadRuntime(r, n)
  PROVE  IInv'
  <1>1. Watch /\ UNCHANGED tables
    BY DEF ReadRuntime
  <1>2. PICK h \in Handler : h = req[r]
    BY DEF IInv, TypeOK
  <1>3. h.pc = "runtime" /\ n \in h.todo
    BY <1>2 DEF ReadRuntime, Turn
  <1>4. CASE n \notin ready
    <2> DEFINE pc == Onward(r, h.todo \ {n}, FALSE)
    <2> DEFINE x == [h EXCEPT !.pc = pc, !.todo = h.todo \ {n}, !.found = h.found]
    <2>1. pc \in {"answer", "runtime"}
      BY DEF Onward
    <2>2. req' = [req EXCEPT ![r] = x]
      BY <1>2, <1>4 DEF ReadRuntime, Onward
    <2> HIDE DEF pc
    <2>3. /\ x \in Handler
          /\ x.pc = pc /\ x.todo = h.todo \ {n} /\ x.goal = h.goal /\ x.keys = h.keys
          /\ x.rows = h.rows /\ x.found = h.found /\ x.lost = h.lost
      BY <2>1 DEF Handler
    <2> HIDE DEF x
    <2>4. x.pc = Onward(r, h.todo \ {n}, FALSE)
      BY <2>3 DEF pc
    <2> QED BY <1>1, <1>2, <1>3, <1>4, <2>2, <2>3, <2>4, PassedOver
  <1>5. CASE n \in ready
    <2> DEFINE pc == Onward(r, h.todo \ {n}, TRUE)
    <2> DEFINE x == [h EXCEPT !.pc = pc, !.todo = h.todo \ {n}, !.found = h.found \cup {n}]
    <2>1. /\ pc \in {"answer", "runtime"}
          /\ h.goal = "link" => pc = "answer"
          /\ h.goal # "link" /\ pc = "answer" => h.todo \ {n} = {}
      BY <1>2 DEF Onward
    <2>2. req' = [req EXCEPT ![r] = x]
      BY <1>2, <1>5 DEF ReadRuntime, Onward
    <2> HIDE DEF pc
    <2>3. /\ x \in Handler
          /\ x.pc = pc /\ x.todo = h.todo \ {n} /\ x.goal = h.goal /\ x.keys = h.keys
          /\ x.rows = h.rows /\ x.found = h.found \cup {n} /\ x.lost = h.lost
      BY <2>1 DEF Handler
    <2> HIDE DEF x
    <2>4. req[r].pc # "idle" /\ req'[r].pc # "idle"
      BY <1>2, <1>3, <2>1, <2>2, <2>3 DEF IInv, TypeOK
    <2>5. Shrunk(watch[r], watch'[r])
      BY <1>1, <2>4, WatchGoesOn DEF IInv
    <2>6. Sound(h, watch'[r])
      BY <1>2, <2>5, SoundShrinks DEF IInv, HandlersSound
    <2>7. CASE h.goal = "subscription"
      BY <1>1, <1>3, <2>1, <2>2, <2>3, <2>6, <2>7, OneMoves DEF Sound, Early, Late
    <2>8. CASE h.goal = "link"
      <3>1. h.found = {} /\ watch'[r].nodesKept \subseteq h.todo \cup h.lost
        BY <1>3, <2>6, <2>8 DEF Sound
      <3>2. /\ \A m \in Node : h.rows[m] \in {"pending", "active"} => m \in watch'[r].nodesEver
            /\ \A m \in watch'[r].nodesKept : h.rows[m] \in {"pending", "active"}
            /\ h.rows[n] # "absent"
        BY <1>3, <2>6 DEF Sound, Late
      <3>3. x.found \subseteq watch'[r].nodesEver \/ watch'[r].nodesKept \subseteq x.lost
        <4>1. CASE h.rows[n] # "revoked"
          BY <2>3, <3>1, <3>2, <4>1 DEF Handler, Status
        <4>2. CASE h.rows[n] = "revoked"
          <5> SUFFICES ASSUME NEW m \in watch'[r].nodesKept PROVE m \in h.lost
            BY <2>3
          <5>1. m # n /\ h.rows[m] \in {"pending", "active"}
            BY <3>2, <4>2
          <5>2. m \notin h.todo
            <6> SUFFICES ASSUME m \in h.todo PROVE FALSE
              OBVIOUS
            <6>1. Before(h, n, m)
              BY <1>2, <5>1 DEF ReadRuntime, Turn
            <6>2. Priority[h.rows[n]] = 10 /\ Priority[h.rows[m]] \in {0, 1}
              BY <4>2, <5>1 DEF Priority
            <6> QED BY <2>8, <6>1, <6>2 DEF Before
          <5> QED BY <3>1, <5>2
        <4> QED BY <4>1, <4>2
      <3>4. Sound(x, watch'[r])
        BY <1>3, <2>1, <2>3, <2>6, <2>8, <3>3 DEF Sound, Early, Late
      <3> QED BY <1>1, <2>2, <2>3, <3>4, OneMoves
    <2> QED BY <2>7, <2>8 DEF Handler
  <1> QED BY <1>4, <1>5
-----------------------------------------------------------------------------
LEMMA AdminStep ==
  ASSUME IInv, Admin
  PROVE  IInv'
  <1>1. Watch /\ req' = req
    BY DEF Admin, SetUserStatus, DeleteUser, CreateAccessKey, RevokeAccessKey, CreateNode,
           SetNodeStatus, EnsureDefaults
  <1>2. TablesType
    BY DEF IInv, TypeOK, TablesType
  <1>3. TablesType'
    <2>1. ASSUME NEW s \in {"active", "blocked"}, SetUserStatus(s) PROVE TablesType'
      BY <1>2, <2>1 DEF SetUserStatus, TablesType, servers
    <2>2. CASE DeleteUser
      BY <1>2, <2>2 DEF DeleteUser, TablesType, servers
    <2>3. ASSUME NEW k \in Key, CreateAccessKey(k) \/ RevokeAccessKey(k) PROVE TablesType'
      BY <1>2, <2>3 DEF CreateAccessKey, RevokeAccessKey, TablesType, servers
    <2>4. ASSUME NEW n \in Node, CreateNode(n) PROVE TablesType'
      BY <1>2, <2>4 DEF CreateNode, TablesType, Status
    <2>5. ASSUME NEW n \in Node, NEW s \in Status, SetNodeStatus(n, s) PROVE TablesType'
      BY <1>2, <2>5 DEF SetNodeStatus, TablesType
    <2>6. ASSUME NEW n \in Node, EnsureDefaults(n) PROVE TablesType'
      BY <1>2, <2>6 DEF EnsureDefaults, TablesType
    <2> QED BY <2>1, <2>2, <2>3, <2>4, <2>5, <2>6 DEF Admin
  <1> QED BY <1>1, <1>3, NoneMoves

LEMMA IInvInit == Init => IInv
  <1> SUFFICES ASSUME Init PROVE IInv
    OBVIOUS
  <1>1. TypeOK
    BY IdleType, UnwatchedType DEF Init, TypeOK
  <1>2. HandlersSound
    BY IdleSound DEF Init, HandlersSound
  <1> QED BY <1>1, <1>2 DEF IInv

LEMMA IInvStep == IInv /\ [Next]_vars => IInv'
  <1> SUFFICES ASSUME IInv, [Next]_vars PROVE IInv'
    OBVIOUS
  <1>1. CASE Admin
    BY <1>1, AdminStep
  <1>2. ASSUME NEW r \in Request, Step(r) PROVE IInv'
    <2>1. ASSUME NEW goal \in {"subscription", "link"}, Begin(r, goal) PROVE IInv'
      BY <2>1, BeginStep
    <2>2. CASE ReadUser(r)
      BY <2>2, ReadUserStep
    <2>3. CASE ListKeys(r)
      BY <2>3, ListKeysStep
    <2>4. CASE ListNodes(r)
      BY <2>4, ListNodesStep
    <2>5. CASE Return(r)
      BY <2>5, LeaveStep DEF Return
    <2>6. ASSUME NEW n \in Node, ReadRuntime(r, n) PROVE IInv'
      BY <2>6, ReadRuntimeStep
    <2>7. ASSUME NEW n \in Node, MissRuntime(r, n) PROVE IInv'
      BY <2>7, MissRuntimeStep
    <2> QED BY <1>2, <2>1, <2>2, <2>3, <2>4, <2>5, <2>6, <2>7 DEF Step
  <1>3. CASE UNCHANGED vars
    BY <1>3 DEF vars, IInv, TypeOK, HandlersSound
  <1> QED BY <1>1, <1>2, <1>3 DEF Next

LEMMA IInvHolds == Spec => []IInv
  BY IInvInit, IInvStep, PTL DEF Spec

\* The types of all variables.
THEOREM TypeCorrect == Spec => []TypeOK
  <1>1. IInv => TypeOK
    BY DEF IInv
  <1> QED BY <1>1, IInvHolds, PTL

\* GetUserSubscription serves nothing to a user who was blocked, and no key or
\* node that was revoked, all the time from the request to the answer.
THEOREM ServedNothingStale == Spec => []ServedInTime
  <1>1. IInv => ServedInTime
    <2> SUFFICES ASSUME IInv, NEW r \in Subscribing
                 PROVE  /\ watch[r].free
                        /\ Served(req[r]) \subseteq watch[r].keysEver \X watch[r].nodesEver
      BY DEF ServedInTime
    <2>1. PICK h \in Handler : h = req[r] /\ h.pc = "answer" /\ h.goal = "subscription"
      BY DEF Subscribing, IInv, TypeOK
    <2>2. Sound(h, watch[r])
      BY <2>1 DEF Subscribing, IInv, HandlersSound
    <2>3. watch[r].free /\ h.keys \subseteq watch[r].keysEver
      BY <2>1, <2>2 DEF Sound
    <2>4. \A n \in h.found : h.rows[n] # "revoked" => n \in watch[r].nodesEver
      BY <2>1, <2>2 DEF Sound, Late, Handler, Status
    <2> QED BY <2>1, <2>3, <2>4 DEF Served
  <1> QED BY <1>1, IInvHolds, PTL

\* GetUserSubscription misses no key and no node that stayed usable and on its
\* page, except a node whose runtime it failed to read.
THEOREM ServedAllKept == Spec => []KeptAreServed
  <1>1. IInv => KeptAreServed
    <2> SUFFICES ASSUME IInv, NEW r \in Subscribing, NEW k \in watch[r].keysKept,
                        NEW n \in watch[r].nodesKept, Kind[k] = "uuid", n \notin req[r].lost
                 PROVE  <<k, n>> \in Served(req[r])
      BY DEF KeptAreServed
    <2>1. PICK h \in Handler : h = req[r] /\ h.pc = "answer" /\ h.goal = "subscription"
      BY DEF Subscribing, IInv, TypeOK
    <2>2. Sound(h, watch[r])
      BY <2>1 DEF Subscribing, IInv, HandlersSound
    <2>3. k \in h.keys
      BY <2>1, <2>2 DEF Sound
    <2>4. n \in h.found /\ h.rows[n] # "revoked"
      BY <2>1, <2>2 DEF Sound, Late
    <2> QED BY <2>1, <2>3, <2>4 DEF Served
  <1> QED BY <1>1, IInvHolds, PTL

\* resolveRuntimeTarget takes a revoked node only after every node that stayed
\* usable has been lost.
THEOREM LinksPreferUsable == Spec => []LinkPrefersUsable
  <1>1. IInv => LinkPrefersUsable
    <2> SUFFICES ASSUME IInv, NEW r \in Linking
                 PROVE  \/ req[r].found \subseteq watch[r].nodesEver
                        \/ watch[r].nodesKept \subseteq req[r].lost
      BY DEF LinkPrefersUsable
    <2> QED BY DEF Linking, IInv, HandlersSound, Sound
  <1> QED BY <1>1, IInvHolds, PTL
-----------------------------------------------------------------------------
(***************************************************************************)
(* Pages.                                                                  *)
(***************************************************************************)
LEMMA RowsFinite ==
  ASSUME NEW N \in Nat, NEW S \in SUBSET (1..N)
  PROVE  IsFiniteSet(S) /\ Cardinality(S) \in Nat
  <1>1. IsFiniteSet(1..N)
    BY FS_Interval
  <1>2. IsFiniteSet(S)
    BY <1>1, FS_Subset
  <1> QED BY <1>2, FS_CardinalityType

\* There is an oldest row: the one with the fewest older ones.
LEMMA OldestRow ==
  ASSUME NEW N \in Nat, NEW S \in SUBSET (1..N), S # {}
  PROVE  \E x \in S : \A y \in S : x <= y
  <1> DEFINE Older(x) == {y \in S : y < x}
             less     == StrictSubsetOrdering(S)
             T        == {Older(x) : x \in S}
  <1>1. T \subseteq FiniteSubsetsOf(S) /\ T # {}
    <2>1. FiniteSubsetsOf(S) = SUBSET S
      BY FS_FiniteSubsetsOfFinite, RowsFinite
    <2>2. \A x \in S : Older(x) \in SUBSET S
      OBVIOUS
    <2>3. T \subseteq SUBSET S
      BY <2>2, Zenon
    <2>4. T # {}
      BY Zenon
    <2> HIDE DEF T
    <2> QED BY <2>1, <2>3, <2>4
  <1>2. PICK U \in T : \A V \in T : ~ (<<V, U>> \in less)
    <2>1. IsWellFoundedOn(less, FiniteSubsetsOf(S))
      BY FS_StrictSubsetOrderingWellFounded
    <2> HIDE DEF T, less
    <2> QED BY <1>1, <2>1, WFMin
  <1>3. PICK x \in S : U = Older(x)
    OBVIOUS
  <1>4. ASSUME NEW y \in S, y < x PROVE FALSE
    <2>1. Older(y) \subseteq Older(x) /\ y \in Older(x) /\ y \notin Older(y)
      <3>1. S \in SUBSET Int /\ \A a, b, c \in Int : a < b /\ b < c => a < c
        OBVIOUS
      <3>2. y \in Int /\ ~ (y < y)
        BY <3>1
      <3>3. \A z \in S : z < y => z < x
        BY <1>4, <3>1
      <3> QED BY <1>4, <3>2, <3>3
    <2>2. <<Older(y), Older(x)>> \in less
      BY <2>1 DEF StrictSubsetOrdering
    <2> QED BY <1>2, <1>3, <2>2
  <1> QED BY <1>4

\* A page has no more rows than the limit ...
LEMMA PageLimited ==
  ASSUME NEW N \in Nat, NEW S \in SUBSET (1..N)
  PROVE  Cardinality(Newest(S)) <= PageLimit
  <1> DEFINE page == Newest(S)
  <1>1. page \in SUBSET S /\ page \in SUBSET (1..N)
    BY DEF Newest
  <1>2. CASE page = {}
    BY <1>2, FS_EmptySet, NodeAssumption
  <1>3. CASE page # {}
    <2>1. PICK x \in page : \A y \in page : x <= y
      BY <1>1, <1>3, OldestRow
    <2> DEFINE newer == {y \in S : y > x}
    <2>2. Cardinality(newer) < PageLimit
      BY <2>1 DEF Newest
    <2>3. newer \in SUBSET (1..N) /\ page \ {x} \in SUBSET newer
      <3>1. \A y \in page \ {x} : y > x
        BY <1>1, <2>1
      <3>2. page \in SUBSET S
        BY <1>1
      <3> HIDE DEF page
      <3> QED BY <3>1, <3>2
    <2> HIDE DEF page, newer
    <2>4. IsFiniteSet(page) /\ IsFiniteSet(newer) /\ Cardinality(page) \in Nat
          /\ Cardinality(newer) \in Nat
      BY <1>1, <2>3, RowsFinite
    <2>5. Cardinality(page \ {x}) = Cardinality(page) - 1
      BY <2>1, <2>4, FS_RemoveElement
    <2>6. Cardinality(page \ {x}) <= Cardinality(newer)
      BY <2>3, <2>4, FS_Subset
    <2>7. Cardinality(page) <= PageLimit
      BY <2>2, <2>4, <2>5, <2>6, NodeAssumption
    <2> QED BY <2>7 DEF page
  <1> QED BY <1>2, <1>3

\* What a handler has read is from one page of keys and, for a subscription, one
\* page of nodes.
Rows(h) == {n \in Node : h.rows[n] # "absent"}
Paged(h) ==
  /\ Cardinality(h.keys) <= PageLimit
  /\ h.todo \cup h.found \subseteq Rows(h)
  /\ h.goal = "subscription" => Cardinality(Rows(h)) <= PageLimit

LEMMA IdlePaged == Paged(Idle)
  <1>1. Rows(Idle) = {} /\ Idle.keys = {} /\ Idle.todo = {} /\ Idle.found = {}
    BY DEF Rows, Idle
  <1> QED BY <1>1, FS_EmptySet, NodeAssumption DEF Paged

LEMMA PagedStep ==
  ASSUME IInv, NEW r \in Request, Paged(req[r]), Step(r)
  PROVE  Paged(req'[r])
  <1>0. TypeOK
    BY DEF IInv
  <1>1. req[r] \in Handler
    BY <1>0 DEF TypeOK
  <1>2. ASSUME NEW goal \in {"subscription", "link"}, Begin(r, goal) PROVE Paged(req'[r])
    <2>1. /\ req'[r].keys = {} /\ req'[r].todo = {} /\ req'[r].found = {}
          /\ req'[r].rows = Idle.rows
      BY <1>0, <1>2 DEF Begin, Idle, TypeOK
    <2>2. Rows(req'[r]) = {}
      BY <2>1 DEF Rows, Idle
    <2> QED BY <2>1, <2>2, FS_EmptySet, NodeAssumption DEF Paged
  <1>3. ASSUME NEW pc, Move(r, pc) PROVE Paged(req'[r])
    <2>1. req'[r] = [req[r] EXCEPT !.pc = pc]
      BY <1>0, <1>3 DEF Move, TypeOK
    <2>2. /\ req'[r].keys = req[r].keys /\ req'[r].rows = req[r].rows /\ req'[r].goal = req[r].goal
          /\ req'[r].todo = req[r].todo /\ req'[r].found = req[r].found
      BY <1>1, <2>1 DEF Handler
    <2> QED BY <2>2 DEF Paged, Rows
  <1>4. ASSUME Leave(r) PROVE Paged(req'[r])
    BY <1>0, <1>4, IdlePaged DEF Leave, TypeOK
  <1>5. CASE ReadUser(r) \/ Return(r)
    BY <1>3, <1>4, <1>5 DEF ReadUser, Return
  <1>6. CASE ListKeys(r)
    <2>1. req'[r] = [req[r] EXCEPT !.pc = "nodes", !.keys = Newest(ActiveKeys)]
      BY <1>0, <1>6 DEF ListKeys, TypeOK
    <2>2. /\ req'[r].keys = Newest(ActiveKeys) /\ req'[r].rows = req[r].rows
          /\ req'[r].goal = req[r].goal
          /\ req'[r].todo = req[r].todo /\ req'[r].found = req[r].found
      BY <1>1, <2>1 DEF Handler
    <2>3. ActiveKeys \in SUBSET (1..MaxKeys)
      BY DEF ActiveKeys, Key
    <2>4. Cardinality(Newest(ActiveKeys)) <= PageLimit
      BY <2>3, PageLimited, KeyAssumption
    <2> QED BY <2>2, <2>4 DEF Paged, Rows
  <1>7. CASE ListNodes(r)
    <2> DEFINE page == Listed(req[r].goal)
               rows == [n \in Node |-> IF n \in page THEN node[n] ELSE "absent"]
    <2>1. req[r].pc = "nodes"
          /\ req'[r] = [req[r] EXCEPT !.pc = IF page = {} THEN "answer" ELSE "runtime",
                                      !.rows = rows, !.todo = page]
      BY <1>0, <1>7 DEF ListNodes, TypeOK
    <2> HIDE DEF rows
    <2>2. /\ req'[r].keys = req[r].keys /\ req'[r].rows = rows /\ req'[r].goal = req[r].goal
          /\ req'[r].todo = page /\ req'[r].found = req[r].found
      BY <1>1, <2>1 DEF Handler
    <2>3. page \subseteq Nodes /\ Nodes \in SUBSET (1..MaxNodes)
      BY DEF Listed, Newest, Nodes, Node
    <2>4. Rows(req'[r]) = page
      BY <2>2, <2>3 DEF Rows, rows, Nodes
    <2>5. req[r].goal = "subscription" => Cardinality(page) <= PageLimit
      BY <2>3, PageLimited, NodeAssumption DEF Listed
    <2>6. req[r].found = {}
      BY <2>1 DEF IInv, HandlersSound, Sound, Early
    <2> QED BY <2>2, <2>4, <2>5, <2>6 DEF Paged
  <1>8. ASSUME NEW n \in Node, ReadRuntime(r, n) \/ MissRuntime(r, n) PROVE Paged(req'[r])
    <2>1. n \in req[r].todo
      BY <1>8 DEF ReadRuntime, MissRuntime, Turn
    <2>2. PICK pc, found, lost :
            /\ req'[r] = [req[r] EXCEPT !.pc = pc, !.todo = req[r].todo \ {n}, !.found = found,
                                        !.lost = lost]
            /\ found \in {req[r].found, req[r].found \cup {n}}
      <3>1. CASE ReadRuntime(r, n)
        <4> DEFINE pc == Onward(r, req[r].todo \ {n}, n \in ready)
                   found == IF n \in ready THEN req[r].found \cup {n} ELSE req[r].found
        <4>1. req'[r] = [req[r] EXCEPT !.pc = pc, !.todo = req[r].todo \ {n}, !.found = found]
          BY <1>0, <3>1 DEF ReadRuntime, TypeOK
        <4>2. req'[r] = [req[r] EXCEPT !.pc = pc, !.todo = req[r].todo \ {n}, !.found = found,
                                       !.lost = req[r].lost]
          BY <1>1, <4>1 DEF Handler
        <4> QED BY <4>2
      <3>2. CASE MissRuntime(r, n)
        <4> DEFINE pc == Onward(r, req[r].todo \ {n}, FALSE)
        <4>1. req'[r] = [req[r] EXCEPT !.pc = pc, !.todo = req[r].todo \ {n},
                                       !.lost = req[r].lost \cup {n}]
          BY <1>0, <3>2 DEF MissRuntime, TypeOK
        <4>2. req'[r] = [req[r] EXCEPT !.pc = pc, !.todo = req[r].todo \ {n},
                                       !.found = req[r].found, !.lost = req[r].lost \cup {n}]
          BY <1>1, <4>1 DEF Handler
        <4> QED BY <4>2
      <3> QED BY <1>8, <3>1, <3>2
    <2>3. /\ req'[r].keys = req[r].keys /\ req'[r].rows = req[r].rows /\ req'[r].goal = req[r].goal
          /\ req'[r].todo = req[r].todo \ {n} /\ req'[r].found = found
      BY <1>1, <2>2 DEF Handler
    <2> QED BY <2>1, <2>2, <2>3 DEF Paged, Rows
  <1> QED BY <1>2, <1>5, <1>6, <1>7, <1>8 DEF Step

\* However many keys and nodes there are, and whatever changes between its reads, a
\* subscription is made from a page of keys and a page of nodes at most: the loop
\* over the nodes takes in no other (normalizePaging).
SubscriptionsPaged == \A r \in Subscribing :
  Cardinality(req[r].keys) <= PageLimit /\ Cardinality(req[r].found) <= PageLimit

THEOREM PagesHold == Spec => []SubscriptionsPaged
  <1> DEFINE Inv == \A r \in Request : Paged(req[r])
  <1>1. Init => Inv
    BY IdlePaged DEF Init
  <1>2. IInv /\ Inv /\ [Next]_vars => Inv'
    <2> SUFFICES ASSUME IInv, Inv, [Next]_vars, NEW q \in Request PROVE Paged(req'[q])
      BY DEF Paged, Rows
    <2>1. CASE req'[q] = req[q]
      BY <2>1 DEF Paged, Rows
    <2>2. ASSUME NEW r \in Request, Step(r) PROVE req'[q] = req[q] \/ q = r
      BY <2>2 DEF Step, Begin, ReadUser, ListKeys, ListNodes, Return, ReadRuntime, MissRuntime,
                  Move, Leave, IInv, TypeOK
    <2>3. CASE Step(q)
      BY <2>3, PagedStep DEF IInv
    <2>4. CASE Admin \/ UNCHANGED vars
      <3>1. req' = req
        BY <2>4 DEF Admin, SetUserStatus, DeleteUser, CreateAccessKey, RevokeAccessKey, CreateNode,
                    EnsureDefaults, SetNodeStatus, vars
      <3> QED BY <2>1, <3>1
    <2> QED BY <2>1, <2>2, <2>3, <2>4 DEF Next
  <1>3. IInv /\ Inv => SubscriptionsPaged
    <2> SUFFICES ASSUME IInv, Inv, NEW r \in Subscribing
                 PROVE  Cardinality(req[r].keys) <= PageLimit /\ Cardinality(req[r].found) <= PageLimit
      BY DEF SubscriptionsPaged
    <2>1. Paged(req[r]) /\ req[r].goal = "subscription" /\ req[r] \in Handler
      BY DEF Subscribing, IInv, TypeOK
    <2>2. req[r].found \in SUBSET Rows(req[r]) /\ Rows(req[r]) \in SUBSET (1..MaxNodes)
      BY <2>1 DEF Paged, Rows, Node
    <2>3. /\ IsFiniteSet(Rows(req[r])) /\ Cardinality(Rows(req[r])) \in Nat
          /\ Cardinality(req[r].found) \in Nat
      BY <2>2, RowsFinite, NodeAssumption
    <2>4. Cardinality(req[r].found) <= Cardinality(Rows(req[r]))
      BY <2>2, <2>3, FS_Subset
    <2> QED BY <2>1, <2>3, <2>4, NodeAssumption DEF Paged
  <1> QED BY <1>1, <1>2, <1>3, IInvHolds, PTL DEF Spec
=============================================================================
