---------------------------- MODULE Subscriptions ----------------------------
(***************************************************************************)
(* What a user is given to connect with: the subscription behind his link, *)
(* and the connection URI that an access key is shown with.                *)
(*                                                                         *)
(* Both are put together from several reads, each a statement of its own,  *)
(* while administrators block the user, create and revoke keys and nodes,  *)
(* and configure runtimes.  Nothing is locked and a runtime that cannot be *)
(* read is passed over, so the question is what an answer may still        *)
(* contain, and what it may not miss.                                      *)
(*                                                                         *)
(* One user of one tenant: the keys of another are not among those listed. *)
(* A URI stands for the key and the node it is made of; those of different *)
(* nodes differ (in host name, port or region).                            *)
(***************************************************************************)
EXTENDS Integers, FiniteSets

CONSTANTS
  MaxKeys,    \* bound of the model: access keys, numbered as they are created
  Kind,       \* of each key: "uuid" is a vless key with a UUID for secret_ref
  MaxNodes,   \* bound of the model: nodes, numbered as they are created
  PageLimit,  \* the limit normalizePaging replaces 10000 and 1000 with
  Request     \* handlers in flight at the same time

Key  == 1..MaxKeys
Node == 1..MaxNodes

ASSUME KeyAssumption == MaxKeys \in Nat /\ Kind \in [Key -> {"uuid", "other"}]
ASSUME NodeAssumption == MaxNodes \in Nat /\ PageLimit \in Nat

VARIABLES
  user,     \* users.status
  key,      \* access_keys.status; "gone": revoked, or deleted with the user
  node,     \* nodes.status, or "absent"
  ready,    \* the nodes with a public key in node_runtimes (not "pending")
  req,      \* the handlers in flight
  watch     \* history: what each of them might have read

vars == <<user, key, node, ready, req, watch>>

Status == {"pending", "active", "revoked"}

Handler == [pc    : {"idle", "user", "keys", "nodes", "runtime", "answer"},
            goal  : {"subscription", "link"},
            keys  : SUBSET Key,                    \* the keys listed
            rows  : [Node -> Status \cup {"absent"}],  \* the nodes listed, with their status
            todo  : SUBSET Node,                   \* those whose runtime is still to be read
            found : SUBSET Node,                   \* those with a runtime to connect to
            lost  : SUBSET Node]                   \* history: those whose read has failed

\* Since the handler began: that the user was not blocked at some time, keys and
\* nodes that were on offer all the time, keys and nodes that were at some time.
Watched == [free : BOOLEAN, keysKept : SUBSET Key, nodesKept : SUBSET Node,
            keysEver : SUBSET Key, nodesEver : SUBSET Node]

TypeOK ==
  /\ user \in {"active", "blocked", "deleted"}
  /\ key \in [Key -> {"absent", "active", "gone"}]
  /\ node \in [Node -> Status \cup {"absent"}]
  /\ ready \subseteq Node
  /\ req \in [Request -> Handler]
  /\ watch \in [Request -> Watched]

Idle == [pc |-> "idle", goal |-> "subscription", keys |-> {}, rows |-> [n \in Node |-> "absent"],
         todo |-> {}, found |-> {}, lost |-> {}]
Unwatched == [free |-> FALSE, keysKept |-> {}, nodesKept |-> {}, keysEver |-> {}, nodesEver |-> {}]

Init ==
  /\ user = "active"
  /\ key = [k \in Key |-> "absent"]
  /\ node = [n \in Node |-> "absent"]
  /\ ready = {}
  /\ req = [r \in Request |-> Idle]
  /\ watch = [r \in Request |-> Unwatched]
-----------------------------------------------------------------------------
\* The newest rows of a table, at most a page of them.
Newest(S) == {x \in S : Cardinality({y \in S : y > x}) < PageLimit}

ActiveKeys == {k \in Key : key[k] = "active"}
Nodes      == {n \in Node : node[n] # "absent"}

\* ListNodes: one page for a subscription; a link asks for 100 nodes, and there
\* are no more of them (bound of the model).
Listed(goal) == IF goal = "link" THEN Nodes ELSE Newest(Nodes)

Unrevoked == {n \in Nodes : node[n] # "revoked"}
Usable(goal) == Listed(goal) \cap Unrevoked \cap ready

\* No keys are listed for a link.
Offered(goal) == IF goal = "link" THEN {} ELSE Newest(ActiveKeys)
Current(goal) == IF goal = "link" THEN {} ELSE ActiveKeys

\* History: begin to watch, go on, or stop.
Watch ==
  watch' = [r \in Request |->
    IF req'[r].pc = "idle" THEN Unwatched
    ELSE IF req[r].pc = "idle" THEN
      [free      |-> user' = "active",
       keysKept  |-> Offered(req[r].goal)', keysEver  |-> Current(req[r].goal)',
       nodesKept |-> Usable(req[r].goal)',  nodesEver |-> Unrevoked']
    ELSE
      [free      |-> watch[r].free \/ user' = "active",
       keysKept  |-> watch[r].keysKept \cap Offered(req[r].goal)',
       keysEver  |-> watch[r].keysEver \cup Current(req[r].goal)',
       nodesKept |-> watch[r].nodesKept \cap Usable(req[r].goal)',
       nodesEver |-> watch[r].nodesEver \cup Unrevoked']]

servers == <<node, ready>>
tables  == <<user, key, servers>>
-----------------------------------------------------------------------------
(***************************************************************************)
(* Administrators, nodes and the server.                                   *)
(***************************************************************************)
\* BlockUser, UnblockUser.
SetUserStatus(s) ==
  /\ user # "deleted"
  /\ user' = s
  /\ UNCHANGED <<key, servers, req>> /\ Watch

\* DeleteUser, and his keys with him.
DeleteUser ==
  /\ user # "deleted"
  /\ user' = "deleted"
  /\ key' = [k \in Key |-> IF key[k] = "active" THEN "gone" ELSE key[k]]
  /\ UNCHANGED <<servers, req>> /\ Watch

\* A block may be overtaken by the insert.
CreateAccessKey(k) ==
  /\ user # "deleted"
  /\ key[k] = "absent" /\ \A j \in Key : j < k => key[j] # "absent"
  /\ key' = [key EXCEPT ![k] = "active"]
  /\ UNCHANGED <<user, servers, req>> /\ Watch

RevokeAccessKey(k) ==
  /\ key[k] = "active"
  /\ key' = [key EXCEPT ![k] = "gone"]
  /\ UNCHANGED <<user, servers, req>> /\ Watch

\* Fault: the status is left to the default of the column.
CreateNode_Default(n) ==
  /\ node[n] = "absent" /\ \A m \in Node : m < n => node[m] # "absent"
  /\ node' = [node EXCEPT ![n] = "offline"]
  /\ UNCHANGED <<user, key, ready, req>> /\ Watch

\* CreateNode, or the first registration: there is no runtime yet.
CreateNode(n) ==
  /\ node[n] = "absent" /\ \A m \in Node : m < n => node[m] # "absent"
  /\ node' = [node EXCEPT ![n] = "pending"]
  /\ UNCHANGED <<user, key, ready, req>> /\ Watch

\* RevokeNode, ReactivateNode and re-registration, a heartbeat or a bootstrap.
SetNodeStatus(n, s) ==
  /\ \/ s = "revoked" /\ node[n] # "absent"
     \/ s = "pending" /\ node[n] # "absent"
     \/ s = "active" /\ node[n] \in {"pending", "active"}
  /\ node' = [node EXCEPT ![n] = s]
  /\ UNCHANGED <<user, key, ready, req>> /\ Watch

\* ensureNodeRuntimeDefaults, for a new node and for each configuration, whatever
\* the node's status: the key is the one core-platform has been started with, or
\* "pending" if there was none.
EnsureDefaults(n) ==
  /\ node[n] # "absent"
  /\ ready' \in {ready \cup {n}, ready \ {n}}
  /\ UNCHANGED <<user, key, node, req>> /\ Watch
-----------------------------------------------------------------------------
(***************************************************************************)
(* GetUserSubscription, and enrichAccessKey with resolveRuntimeTarget.     *)
(***************************************************************************)
Move(r, pc) == req' = [req EXCEPT ![r].pc = pc]
Leave(r)    == req' = [req EXCEPT ![r] = Idle]

Begin(r, goal) ==
  /\ req[r].pc = "idle"
  /\ req' = [req EXCEPT ![r] = [Idle EXCEPT !.goal = goal,
                                 !.pc = IF goal = "link" THEN "nodes" ELSE "user"]]
  /\ UNCHANGED tables /\ Watch

\* Fault: the status is not looked at.
ReadUser_AnyStatus(r) ==
  /\ req[r].pc = "user"
  /\ IF user = "deleted" THEN Leave(r) ELSE Move(r, "keys")
  /\ UNCHANGED tables /\ Watch

\* 404, 403.
ReadUser(r) ==
  /\ req[r].pc = "user"
  /\ IF user = "active" THEN Move(r, "keys") ELSE Leave(r)
  /\ UNCHANGED tables /\ Watch

ListKeys(r) ==
  /\ req[r].pc = "keys"
  /\ req' = [req EXCEPT ![r].pc = "nodes", ![r].keys = Newest(ActiveKeys)]
  /\ UNCHANGED tables /\ Watch

\* Without nodes there is nothing to be read.
ListNodes(r) ==
  LET page == Listed(req[r].goal) IN
  /\ req[r].pc = "nodes"
  /\ req' = [req EXCEPT ![r].pc = IF page = {} THEN "answer" ELSE "runtime",
                        ![r].rows = [n \in Node |-> IF n \in page THEN node[n] ELSE "absent"],
                        ![r].todo = page]
  /\ UNCHANGED tables /\ Watch

\* statusPriority.
Priority == [active |-> 0, pending |-> 1, revoked |-> 10, absent |-> 10]

\* Fault: a link, too, looks at the newest nodes first.
Before_Newest(h, m, n) == m > n

\* Nodes are looked at newest first, by a link in the order of their status.
Before(h, m, n) ==
  LET p(x) == IF h.goal = "link" THEN Priority[h.rows[x]] ELSE 0
  IN  p(m) < p(n) \/ (p(m) = p(n) /\ m > n)
Turn(r, n) == n \in req[r].todo /\ \A m \in req[r].todo \ {n} : Before(req[r], n, m)

\* The next pc, when these nodes are left and a runtime was found or not.
Onward(r, left, hit) ==
  IF left = {} \/ (req[r].goal = "link" /\ hit) THEN "answer" ELSE "runtime"

\* GetNodeRuntime.  Runtimes that are to be filled in yet are passed over.
ReadRuntime(r, n) ==
  LET hit == n \in ready IN
  /\ req[r].pc = "runtime" /\ Turn(r, n)
  /\ req' = [req EXCEPT ![r].pc = Onward(r, req[r].todo \ {n}, hit),
                        ![r].todo = req[r].todo \ {n},
                        ![r].found = IF hit THEN req[r].found \cup {n} ELSE req[r].found]
  /\ UNCHANGED tables /\ Watch

\* Fault: an error ends the loop.
MissRuntime_Stops(r, n) ==
  /\ req[r].pc = "runtime" /\ Turn(r, n)
  /\ req' = [req EXCEPT ![r].pc = "answer", ![r].todo = {}, ![r].lost = req[r].lost \cup {n}]
  /\ UNCHANGED tables /\ Watch

\* An error is taken for a node that has no runtime.
MissRuntime(r, n) ==
  /\ req[r].pc = "runtime" /\ Turn(r, n)
  /\ req' = [req EXCEPT ![r].pc = Onward(r, req[r].todo \ {n}, FALSE),
                        ![r].todo = req[r].todo \ {n},
                        ![r].lost = req[r].lost \cup {n}]
  /\ UNCHANGED tables /\ Watch

\* The answer has been given; another statement has failed; the server restarts.
Return(r) ==
  /\ req[r].pc # "idle"
  /\ Leave(r)
  /\ UNCHANGED tables /\ Watch
-----------------------------------------------------------------------------
Step(r) ==
  \/ \E goal \in {"subscription", "link"} : Begin(r, goal)
  \/ ReadUser(r) \/ ListKeys(r) \/ ListNodes(r) \/ Return(r)
  \/ \E n \in Node : ReadRuntime(r, n) \/ MissRuntime(r, n)

Admin ==
  \/ \E s \in {"active", "blocked"} : SetUserStatus(s)
  \/ \E k \in Key : CreateAccessKey(k) \/ RevokeAccessKey(k)
  \/ \E n \in Node : CreateNode(n) \/ EnsureDefaults(n) \/ \E s \in Status : SetNodeStatus(n, s)
  \/ DeleteUser

Next == Admin \/ \E r \in Request : Step(r)

Spec == Init /\ [][Next]_vars
-----------------------------------------------------------------------------
(***************************************************************************)
(* What an answer contains.                                                *)
(***************************************************************************)
\* The configurations of a subscription: other keys than UUIDs have no URI here.
Served(h) == {k \in h.keys : Kind[k] = "uuid"} \X {n \in h.found : h.rows[n] # "revoked"}

Subscribing == {r \in Request : req[r].pc = "answer" /\ req[r].goal = "subscription"}
Linking     == {r \in Request : req[r].pc = "answer" /\ req[r].goal = "link"}

\* What was withdrawn before a subscription was asked for is not in it: a user
\* who was blocked all the time gets none, and the keys and nodes in it were not
\* revoked all the time.
ServedInTime ==
  \A r \in Subscribing :
    /\ watch[r].free
    /\ Served(req[r]) \subseteq watch[r].keysEver \X watch[r].nodesEver

\* What was there all the time is not missed, whatever else changes meanwhile:
\* keys and usable nodes that stayed on their page are served, unless the
\* node's own runtime could not be read.
KeptAreServed ==
  \A r \in Subscribing : \A k \in watch[r].keysKept, n \in watch[r].nodesKept :
    Kind[k] = "uuid" => <<k, n>> \in Served(req[r]) \/ n \in req[r].lost

\* A link leads to a node that was revoked all the time only for want of another:
\* every node that could be used all the time has been tried, and lost.
LinkPrefersUsable ==
  \A r \in Linking :
    req[r].found \subseteq watch[r].nodesEver \/ watch[r].nodesKept \subseteq req[r].lost
=============================================================================
