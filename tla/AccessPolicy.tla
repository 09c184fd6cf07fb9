---------------------------- MODULE AccessPolicy ----------------------------
(***************************************************************************)
(* The users of a tenant, their access keys and devices, and the policies  *)
(* that limit them: core-platform checks a limit in one statement and      *)
(* inserts the row in another, while administrators block and delete users *)
(* and change policies, and traffic is counted.                            *)
(*                                                                         *)
(* One tenant, for no statement here relates two.  Every statement of      *)
(* CreateAccessKey and RegisterDevice is an action; the other handlers     *)
(* change the state in one statement.  The lifetime of keys is left out:   *)
(* it is stored and never compared with anything.                          *)
(***************************************************************************)
EXTENDS Integers, FiniteSets

CONSTANTS
  User,         \* users by uuid, which is not used again
  NoUser,
  Fingerprint,  \* device_fingerprint
  NoDevice,
  AccessKey,    \* access keys by uuid
  None,         \* NULL: the policy sets no such limit
  Policy,       \* what administrators ask for
  Request,      \* handlers in flight at the same time
  MaxUsage      \* bound of the model: bytes counted

Wish == [quota : Nat \cup {None}, devices : Nat \cup {None}]

ASSUME NameAssumption ==
  /\ NoUser \notin User /\ NoDevice \notin Fingerprint /\ None \notin Nat
ASSUME FiniteAssumption == IsFiniteSet(Fingerprint) /\ IsFiniteSet(Request)
ASSUME InputAssumption == Policy \subseteq Wish /\ MaxUsage \in Nat

\* validatePolicyValues, and the CHECK constraints (negative numbers are no wishes here).
Valid(p) == p.devices # 0

VARIABLES
  user,      \* users: the status of each
  tenant,    \* the row of tenant_policies
  override,  \* user_policy_overrides; no row is like a row of NULLs
  device,    \* devices: the user each fingerprint is bound to
  key,       \* access_keys
  usage,     \* what traffic_usage_hourly adds up to
  req,       \* the handlers in flight
  highest    \* history: the highest device limit each user has had

vars == <<user, tenant, override, device, key, usage, req, highest>>

Unlimited == [quota |-> None, devices |-> None]
Row == {p \in Wish : Valid(p)}

\* late (history): the user was blocked after this handler had found him active;
\* under (history): the tenant was under its quota when the policy was read.
Handler == [pc : {"idle", "user", "policy", "usage", "lookup", "count", "find",
                  "update", "insert"},
            goal : {"key", "device"}, id : User \cup {NoUser},
            fp : Fingerprint \cup {NoDevice}, quota : Nat \cup {None},
            limit : Nat \cup {None}, late : BOOLEAN, under : BOOLEAN]

TypeOK ==
  /\ user \in [User -> {"unknown", "active", "blocked", "deleted"}]
  /\ tenant \in Row
  /\ override \in [User -> Row]
  /\ device \in [Fingerprint -> User \cup {NoUser}]
  /\ key \in [AccessKey -> [user : User \cup {NoUser}, status : {"none", "active", "revoked"}]]
  /\ usage \in Nat
  /\ req \in [Request -> Handler]
  /\ highest \in [User -> (Nat \ {0}) \cup {None}]

Idle == [pc |-> "idle", goal |-> "key", id |-> NoUser, fp |-> NoDevice, quota |-> None,
         limit |-> None, late |-> FALSE, under |-> FALSE]
NoKey == [user |-> NoUser, status |-> "none"]

Exists(u) == user[u] \in {"active", "blocked"}
Devices(u) == {f \in Fingerprint : device[f] = u}

Init ==
  /\ user = [u \in User |-> "unknown"]
  /\ tenant = Unlimited
  /\ override = [u \in User |-> Unlimited]
  /\ device = [f \in Fingerprint |-> NoUser]
  /\ key = [k \in AccessKey |-> NoKey]
  /\ usage = 0
  /\ req = [r \in Request |-> Idle]
  /\ highest = [u \in User |-> None]
-----------------------------------------------------------------------------
people   == <<user, highest>>
policies == <<tenant, override>>
granted  == <<device, key>>

Coalesce(x, y) == IF x = None THEN y ELSE x

\* The policy that GetEffectivePolicy joins from a tenant's row and a user's.
Joined(t, o) == [quota   |-> Coalesce(o.quota, t.quota),
                 devices |-> Coalesce(o.devices, t.devices)]

Effective(u) == Joined(tenant, override[u])

Under(quota, bytes) == quota = None \/ bytes < quota

HigherOf(x, y) ==
  IF x = None \/ y = None THEN None ELSE IF x < y THEN y ELSE x

\* CreateUser.
CreateUser(u) ==
  /\ user[u] = "unknown"
  /\ user' = [user EXCEPT ![u] = "active"]
  /\ highest' = [highest EXCEPT ![u] = Effective(u).devices]
  /\ UNCHANGED <<policies, granted, usage, req>>

\* The handlers that have found the user not blocked, and go on.
Past(u) == {r \in Request : /\ req[r].goal = "key" /\ req[r].id = u
                            /\ req[r].pc \in {"policy", "usage", "insert"}}

\* BlockUser.
BlockUser(u) ==
  /\ Exists(u)
  /\ user' = [user EXCEPT ![u] = "blocked"]
  /\ req' = [r \in Request |-> IF r \in Past(u) THEN [req[r] EXCEPT !.late = TRUE] ELSE req[r]]
  /\ UNCHANGED <<policies, granted, usage, highest>>

\* UnblockUser.
UnblockUser(u) ==
  /\ Exists(u)
  /\ user' = [user EXCEPT ![u] = "active"]
  /\ UNCHANGED <<policies, granted, usage, req, highest>>

\* Fault: devices outlive their user.
DeleteUser_KeepsDevices(u) ==
  /\ Exists(u)
  /\ user' = [user EXCEPT ![u] = "deleted"]
  /\ override' = [override EXCEPT ![u] = Unlimited]
  /\ key' = [k \in AccessKey |-> IF key[k].user = u THEN NoKey ELSE key[k]]
  /\ UNCHANGED <<tenant, device, usage, req, highest>>

\* DeleteUser: what refers to the user goes with him, but for his traffic.
DeleteUser(u) ==
  /\ Exists(u)
  /\ user' = [user EXCEPT ![u] = "deleted"]
  /\ override' = [override EXCEPT ![u] = Unlimited]
  /\ device' = [f \in Fingerprint |-> IF device[f] = u THEN NoUser ELSE device[f]]
  /\ key' = [k \in AccessKey |-> IF key[k].user = u THEN NoKey ELSE key[k]]
  /\ UNCHANGED <<tenant, usage, req, highest>>

\* highest, when the policies become t and o.
Raised(t, o) ==
  [u \in User |-> IF Exists(u) THEN HigherOf(highest[u], Joined(t, o[u]).devices) ELSE highest[u]]

\* Fault: the values are not looked at.
SetTenantPolicy_Unchecked(p) ==
  /\ tenant' = p
  /\ highest' = Raised(p, override)
  /\ UNCHANGED <<user, override, granted, usage, req>>

\* SetTenantPolicy.
SetTenantPolicy(p) ==
  /\ Valid(p)
  /\ tenant' = p
  /\ highest' = Raised(p, override)
  /\ UNCHANGED <<user, override, granted, usage, req>>

\* SetUserPolicyOverride; the foreign key asks for the user.
SetUserPolicyOverride(u, p) ==
  /\ Valid(p)
  /\ Exists(u)
  /\ override' = [override EXCEPT ![u] = p]
  /\ highest' = Raised(tenant, override')
  /\ UNCHANGED <<user, tenant, granted, usage, req>>

\* RevokeAccessKey.
RevokeAccessKey(k) ==
  /\ key[k].status # "none"
  /\ key' = [key EXCEPT ![k].status = "revoked"]
  /\ UNCHANGED <<people, policies, device, usage, req>>

\* The rows of traffic_usage_hourly are written elsewhere, and never deleted.
Traffic ==
  /\ usage < MaxUsage
  /\ usage' = usage + 1
  /\ UNCHANGED <<people, policies, granted, req>>
-----------------------------------------------------------------------------
tables == <<people, policies, granted, usage>>

Move(r, pc) == req' = [req EXCEPT ![r].pc = pc]
\* Move on without what has been compared and is not used again.
Admit(r, pc) == req' = [req EXCEPT ![r].pc = pc, ![r].quota = None]
Register(r)  == req' = [req EXCEPT ![r].pc = "find", ![r].limit = None]
Finish(r)   == req' = [req EXCEPT ![r] = Idle]

\* CreateAccessKey begins with the user ...
BeginKey(r, u) ==
  /\ req[r].pc = "idle"
  /\ req' = [req EXCEPT ![r] = [Idle EXCEPT !.pc = "user", !.id = u]]
  /\ UNCHANGED tables

\* ... RegisterDevice with the policy.
BeginDevice(r, u, f) ==
  /\ req[r].pc = "idle"
  /\ req' = [req EXCEPT ![r] =
       [Idle EXCEPT !.pc = "policy", !.goal = "device", !.id = u, !.fp = f]]
  /\ UNCHANGED tables

\* Fault: blocked users are not turned away.
ReadUser_Any(r) ==
  /\ req[r].pc = "user"
  /\ IF Exists(req[r].id) THEN Move(r, "policy") ELSE Finish(r)
  /\ UNCHANGED tables

\* GetUserByID.
ReadUser(r) ==
  /\ req[r].pc = "user"
  /\ IF user[req[r].id] = "active" THEN Move(r, "policy") ELSE Finish(r)
  /\ UNCHANGED tables

\* GetEffectivePolicy.
ReadPolicy(r) ==
  /\ req[r].pc = "policy"
  /\ IF Exists(req[r].id)
       THEN LET p == Effective(req[r].id)
            IN req' = [req EXCEPT ![r].pc = "usage", ![r].quota = p.quota, ![r].limit = p.devices,
                                  ![r].under = Under(p.quota, usage)]
       ELSE Finish(r)
  /\ UNCHANGED tables

\* Fault: the last byte of the quota is given twice.
ReadUsage_Inclusive(r) ==
  /\ req[r].pc = "usage"
  /\ IF req[r].quota = None \/ usage <= req[r].quota
       THEN Admit(r, IF req[r].goal = "key" THEN "insert" ELSE "lookup")
       ELSE Finish(r)
  /\ UNCHANGED tables

\* GetTenantUsageTotal, and enforceQuota.
ReadUsage(r) ==
  /\ req[r].pc = "usage"
  /\ IF Under(req[r].quota, usage)
       THEN Admit(r, IF req[r].goal = "key" THEN "insert" ELSE "lookup")
       ELSE Finish(r)
  /\ UNCHANGED tables

\* Fault: nothing ties a key to its user.
InsertKey_NoReference(r) ==
  /\ req[r].pc = "insert" /\ req[r].goal = "key"
  /\ \E k \in AccessKey :
       /\ key[k] = NoKey
       /\ key' = [key EXCEPT ![k] = [user |-> req[r].id, status |-> "active"]]
  /\ Finish(r)
  /\ UNCHANGED <<people, policies, device, usage>>

\* store.CreateAccessKey; the foreign key asks for the user.
InsertKey(r) ==
  /\ req[r].pc = "insert" /\ req[r].goal = "key"
  /\ IF Exists(req[r].id)
       THEN \E k \in AccessKey :
              /\ key[k] = NoKey
              /\ key' = [key EXCEPT ![k] = [user |-> req[r].id, status |-> "active"]]
       ELSE UNCHANGED key
  /\ Finish(r)
  /\ UNCHANGED <<people, policies, device, usage>>

\* RegisterDevice looks for the fingerprint: a device that is known is not counted.
Lookup(r) ==
  /\ req[r].pc = "lookup"
  /\ LET owner == device[req[r].fp]
     IN \/ owner = NoUser /\ req[r].limit # None /\ Move(r, "count")
        \/ owner = NoUser /\ req[r].limit = None /\ Register(r)
        \/ owner = req[r].id /\ Register(r)
        \/ owner \notin {NoUser, req[r].id} /\ Finish(r)
  /\ UNCHANGED tables

\* Fault: one device too many.
Count_Inclusive(r) ==
  /\ req[r].pc = "count"
  /\ IF Cardinality(Devices(req[r].id)) <= req[r].limit THEN Register(r) ELSE Finish(r)
  /\ UNCHANGED tables

\* CountActiveDevicesForUser; every device is active.
Count(r) ==
  /\ req[r].pc = "count"
  /\ IF Cardinality(Devices(req[r].id)) < req[r].limit THEN Register(r) ELSE Finish(r)
  /\ UNCHANGED tables

\* store.RegisterDevice looks again ...
Find(r) ==
  /\ req[r].pc = "find"
  /\ LET owner == device[req[r].fp]
     IN \/ owner = NoUser /\ Move(r, "insert")
        \/ owner = req[r].id /\ Move(r, "update")
        \/ owner \notin {NoUser, req[r].id} /\ Finish(r)
  /\ UNCHANGED tables

\* ... and writes the platform of the device it has found, if that is still there,
\* ...
Update(r) ==
  /\ req[r].pc = "update"
  /\ Finish(r)
  /\ UNCHANGED tables

\* Fault: an insert that meets another's device takes it over.
InsertDevice_Upsert(r) ==
  /\ req[r].pc = "insert" /\ req[r].goal = "device"
  /\ device' = IF Exists(req[r].id) THEN [device EXCEPT ![req[r].fp] = req[r].id] ELSE device
  /\ Finish(r)
  /\ UNCHANGED <<people, policies, key, usage>>

\* ... or inserts one, unless the user is gone or the fingerprint is taken by now.
InsertDevice(r) ==
  /\ req[r].pc = "insert" /\ req[r].goal = "device"
  /\ device' = IF Exists(req[r].id) /\ device[req[r].fp] = NoUser
                 THEN [device EXCEPT ![req[r].fp] = req[r].id] ELSE device
  /\ Finish(r)
  /\ UNCHANGED <<people, policies, key, usage>>

\* A statement fails, or the client goes away.
Fail(r) ==
  /\ req[r].pc # "idle"
  /\ Finish(r)
  /\ UNCHANGED tables

Administer == \/ \E u \in User : CreateUser(u) \/ BlockUser(u) \/ UnblockUser(u) \/ DeleteUser(u)
              \/ \E p \in Policy : SetTenantPolicy(p)
              \/ \E u \in User, p \in Policy : SetUserPolicyOverride(u, p)
              \/ \E k \in AccessKey : RevokeAccessKey(k)

Begin(r) == \/ \E u \in User : BeginKey(r, u)
            \/ \E u \in User, f \in Fingerprint : BeginDevice(r, u, f)

Step(r) == \/ ReadUser(r) \/ ReadPolicy(r) \/ ReadUsage(r) \/ InsertKey(r)
           \/ Lookup(r) \/ Count(r) \/ Find(r) \/ Update(r) \/ InsertDevice(r)

Next == \/ Administer \/ Traffic
        \/ \E r \in Request : Begin(r) \/ Step(r) \/ Fail(r)

Spec == Init /\ [][Next]_vars
-----------------------------------------------------------------------------
\* DeleteUser leaves nothing behind, and no handler that had read the user puts
\* something there after it.
NoOrphans ==
  /\ \A f \in Fingerprint : device[f] # NoUser => Exists(device[f])
  /\ \A k \in AccessKey : key[k] # NoKey => key[k].user \in User /\ Exists(key[k].user)
  /\ \A u \in User : override[u] # Unlimited => Exists(u)

\* A fingerprint changes hands only over the deletion of its owner, whatever
\* registrations for two users do at the same time (device_already_bound).
OneOwner ==
  [][\A f \in Fingerprint : device[f] # NoUser /\ device'[f] # device[f] =>
       device'[f] = NoUser /\ user'[device[f]] = "deleted"]_vars

\* What the two statements of RegisterDevice make of the device limit: handlers
\* that count at the same time can go over it, each by one.  A limit that was
\* lowered takes no device away, and a device that is known is not counted.
DevicesBounded ==
  \A u \in User : Exists(u) /\ highest[u] # None =>
    Cardinality(Devices(u)) <= highest[u] - 1 + Cardinality(Request)

\* Policy and usage are read one after the other, and either may change: who
\* passes enforceQuota was under the quota in force when the policy was read.
QuotaHeld ==
  \A r \in Request :
    req[r].pc \in {"lookup", "count", "find", "update", "insert"} => req[r].under

\* What is left of "cannot create key for blocked user" (service.go:404), as the
\* status is read some statements before the insert: once BlockUser is done, only
\* requests that had got past that check before it can still make a key.
BlockHolds ==
  \A r \in Request : \A u \in User :
    r \in Past(u) /\ user[u] = "blocked" => req[r].late

\* Devices and keys as grants (see AccessRegistry).
DeviceRegistry == INSTANCE AccessRegistry WITH
  Grant <- Fingerprint, holder <- device, revoked <- {}
KeyHolder   == [k \in AccessKey |-> key[k].user]
RevokedKeys == {k \in AccessKey : key[k].status = "revoked"}
KeyRegistry == INSTANCE AccessRegistry WITH
  Grant <- AccessKey, holder <- KeyHolder, revoked <- RevokedKeys

\* Whatever the statements of overlapping handlers read, what they write adds up
\* to giving free grants to users who exist, revoking them for good, and freeing
\* all that a deleted user held at once.
ImplementsRegistry == DeviceRegistry!Spec /\ KeyRegistry!Spec
=============================================================================
