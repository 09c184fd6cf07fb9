# OpenerNetDoor core-platform in TLA+

OpenerNetDoor manages VPN nodes. Its logic is in one Go service,
`services/core-platform`, over a PostgreSQL database; the rest of the repository
brings requests to it (gateway, user interfaces, node agent, scripts) or deploys
it. The specifications here model the handlers of that service the way they
really run: several at a time, each a sequence of SQL statements with other
handlers between them, and each able to stop half-way.

Paths below are relative to the repository; `service/` and `store/` stand for
`services/core-platform/internal/service/` and `.../store/`.

## Inventory

| component | state it keeps | operations |
|---|---|---|
| node certificates | `node_certificates` | issue, rotate, renew, revoke, issue on registration, renewal sweep |
| node identity | `nodes`, `node_request_nonces` | register, heartbeat, create, revoke, reactivate, mark online |
| runtime revisions | `node_runtimes`, `runtime_revisions` | generate a configuration, apply the latest |
| bootstrap script | `state/xray/config.json` | generate, write, check, apply |
| PKI issuers | `pki_issuers`, the CA in memory | create, activate, ensure on every signature |
| users, keys, devices, policies | `users`, `access_keys`, `devices`, policies | create, block, unblock, delete, revoke, register a device, set a policy |
| subscriptions and links | none of their own | put together a user's subscription, a key's link |
| snapshots, analytics | none of their own | count and sum |
| API gateway | none: sessions are signed cookies | log in, log out, check a token, forward |
| node agent | the node's id, a nonce counter, in memory | register, heartbeat |
| installer CLI, deploy scripts | files, containers | render, start, check |
| migrations | the schema | the unique indexes the handlers rely on |
| contracts, SDKs, user interfaces, deferred services | none | – |

How they interact: the gateway, the agent and the scripts send HTTP requests to
core-platform; each request is served by a goroutine of its own
(`http/router.go`) with the request's context, so it is abandoned when its
client goes away. The renewal scheduler (`cmd/core-platform/main.go:96`) runs
beside them. All of them share the database and nothing else but the CA, which
is loaded once. Nearly every handler is a sequence of autocommitted statements;
only activating an issuer and marking a revision are transactions.

What is hard here, and what would be correct:

* **Certificates.** Replacing a certificate is a revocation and an insert. Two
  handlers may replace the same one, work from a row they read long ago, or stop
  in between. A node should have one certificate at most, lose it only for a
  reason, and the table should stay a true history.
* **Identity.** A request is checked against the clock, then against the row of
  its node, then its nonce is consumed, then the row is written. The network
  may bring it late or twice, and an operator may revoke the node at any point.
  A request should take effect once, and no request should revive a node.
* **Runtime.** Generating and applying are separate requests, and what is
  deployed is a file the server never sees. Revisions should be numbered once,
  the applied one should be known, and a revoked key should leave the
  configuration.
* **Issuers.** The configured issuer is re-activated by every signature, against
  what an administrator may have done meanwhile, and a restart may bring a new CA.
* **Users, devices and keys.** Status, limit and quota are read in one statement and
  relied on in a later one, while administrators block and delete users and
  change limits. A race should cost little and be bounded, and a deleted user should leave nothing.
* **Nodes and the platform.** In strict mode a node presents the certificate it was given last, and
  has to be let in with it. The answer that brings it may be lost while the handler goes on, the next
  registration may overlap the one that was given up, and operators and the sweep
  replace certificates without telling the node. A switch of the issuer, which issuing a certificate to another node
  may bring about, ends the trust in those of the issuer before. Nothing but they and time should lock a node
  out, nothing a node without a certificate sends should have an effect, and when all is quiet a node should be heard.
* **Subscriptions.** A subscription is put together from four kinds of reads, without a
  transaction, by a loop that takes a failed read for a missing row. What is withdrawn should
  not be in an answer that was asked for later, and what stays should not be missing.

PROJECT.json lists these hazards with their lines and the properties that
cover them; a hazard without a property says why.

## Modules

| module | what it is |
|---|---|
| `NodeCertificates` | the certificate handlers, statement by statement |
| `CertificateSlot` | what they promise: one slot per node |
| `NodeIdentity` | register, heartbeat and the operators' writes of `nodes` |
| `NodeLifecycle` | what they promise: the states of a node |
| `RuntimeRevisions` | generate, number, apply; the bootstrap script |
| `PkiIssuers` | the certificate authorities: create, activate, choose one to sign with |
| `RevisionLog` | what the revisions promise: a log and a pointer into it |
| `AccessPolicy` | users, keys, devices, and the policies that limit them |
| `AccessRegistry` | what the tables promise: grants, and who holds them |
| `NodeFleet` | nodes, the network and the platform together, over `CertificateSlot` |
| `Subscriptions` | what a user is given to connect with, read by read |
| `MC…` | the small instances TLC checks |
| `…Proofs` | theorems about each of the seven, with their proofs |

In all of them a handler is a record in `req` (or `call`): a program counter and
the local variables that survive a statement. An action is one SQL statement
with the Go code up to the next one, its guard is the WHERE clause, the index or
the early return, and a handler that returns goes back to `Idle`. A history variable is
written by actions and read by no guard. Operators called `X_Something` in
front of `X` are faulty versions of it; they are no part of the specifications
and show that the properties notice such a fault.

### NodeCertificates

`cert` is the table by uuid, `now` the clock, `req` the handlers, `excused` (history) the
nodes an operator or a failure left without a certificate.

| action | code |
|---|---|
| `StartIssue`, `StartRotate`, `StartRenew`, `StartEnsure` | what each handler reads before `issueNodeCertificateInternal` |
| `StartSweep`, `SweepNext`, `SweepEnd` | `RunPKIRenewalSweep` and its loop over the rows it listed |
| `Sign` | the leaf is signed, with its expiry |
| `RevokeSeen` | `RevokeNodeCertificateByID`; zero rows are not an error |
| `Insert`, `InsertConflict` | the insert, and its failure on `uq_node_certificates_active_per_node` |
| `Audit` | the audit row; the request succeeds |
| `RevokeGiven`, `StartRevokeActive`, `RevokeActive` | `RevokeNodeCertificate`, by id or serial, or the active one |
| `Fail`, `Restart`, `Tick` | a statement or the client fails; the process restarts; time |

### NodeIdentity

`status`, `key` and `lastHb` are columns of `nodes`, `nonces` is
`node_request_nonces` (a nonce is recorded by the request that left it), `taken`
(history) the requests that passed. `Receive` is `validateSignedAt`, `Load` the
checks against the row, `Purge` and `Consume` the two statements of
`ConsumeNodeNonce`, `Register` and `Heartbeat` the writes. `CreateNode`,
`RevokeNode`, `ReactivateNode` and `MarkNodeRuntimeOnline` are the other writers
of the row.

`HeardByKey` relates the heartbeats that are taken to the registrations that were: the key of the row changes
by registrations only, also by one that is answered 403 because the node is revoked (after its nonce was consumed), and never by
a replay. It does not say when a node that is active was last heard of. A heartbeat that was checked before a
revocation and is applied after the reactivation makes the node active; this occurs in the instance and `NodeLifecycle` allows it,
as the code does.

### RuntimeRevisions

`key` is the status of each access key, `config` the revisions (a configuration
is its set of clients), `marked` the rows with `applied`, `pointed`
`applied_config_version`, `file` what the script wrote. `GenerateConfig`,
`NextVersion` and `InsertRevision` are GET `/nodes/runtime/config`; `GetLatest`,
`ClearApplied`, `MarkApplied` and `Answer` are POST `/nodes/runtime/apply`.
`ClearApplied` and `MarkApplied` are one transaction: PostgreSQL takes the
snapshot of its first UPDATE before it waits for the row locks of another apply,
so the rows it will clear are those there were then. `StartScript`, `WriteConfig`,
`CheckClients` are the script's own commands; its requests use the same handler actions.
`gone` and `active` in the script's record are history: the keys that were revoked, and those that were active, when it started.

`RevisionLog` is what a reader of the revisions may rely on: `config`, with the versions there are for its
domain, is the log, and `pointed` the entry in force. It does not promise that the pointer moves forwards, because of two
applies the slower one may move it back.

### PkiIssuers

`row` is `pki_issuers`, with (history) the start of the process in which `ensureSigningIssuer` made it or
`ByHand`; `conf`, `ca` and `boot` are the running process (its
configuration, its CA and the number of its start), `certs` (never read by a
handler) the issued certificates with the issuer on record and, as history, the CA, the configured issuer and the
start of the process that signed. A CA is its `ca_id`; `ca_cert_pem`, which `CreatePKIIssuer` fills in separately, is read only by the check of a
presented certificate and is not modelled. `NODE_CA_MODE=file` and `NODE_PKI_MODE=strict` are assumed, as deployed.

| action | code |
|---|---|
| `BeginIssue`, `Lookup`, `AdoptByCA`, `Insert`, `GetActive`, `Sign` | `ensureSigningIssuer` and the signature after it |
| `BeginCreate`, `Lookup`, `Insert` | `CreatePKIIssuer`, blank fields filled in from the process |
| `BeginActivate` | `ActivatePKIIssuer` |
| `BeginSwitch`, `Switch` | the transaction all three end in |
| `Restart` | another process with another configuration; a CA that was made at start is gone |

The transaction's `SELECT … FOR UPDATE` takes its snapshot before it waits. When
the row it waits for has been retired meanwhile it finds none, does not look for
another, and its own UPDATE then meets the index `uq_pki_issuers_single_active`.
So `BeginSwitch` remembers a row and `Switch` looks at that row again.

### AccessPolicy

`user`, `tenant`, `override`, `device` and `key` are the tables of one tenant,
`usage` is the sum of its traffic (counted by a collector that is not part of
the repository), `highest` (history) the highest device limit each user has had.
The lifetime of keys is left out: it is stored and compared with nothing.

| action | code |
|---|---|
| `BeginKey`, `ReadUser`, `ReadPolicy`, `ReadUsage`, `InsertKey` | `CreateAccessKey` |
| `BeginDevice`, `ReadPolicy`, `ReadUsage`, `Lookup`, `Count` | `RegisterDevice` of the service: policy, quota, fingerprint, limit |
| `Find`, `Update`, `InsertDevice` | `RegisterDevice` of the store, which looks for the fingerprint again |
| `CreateUser`, `BlockUser`, `UnblockUser`, `DeleteUser` | one statement each; deleting cascades to keys, devices and the override |
| `SetTenantPolicy`, `SetUserPolicyOverride`, `RevokeAccessKey` | one statement each |

Foreign keys and the unique fingerprint are the guards of the inserts.
`late` and `under` in the record of a handler are history.

`AccessRegistry` has users and grants and neither handlers nor limits. It is implemented twice: with devices for grants
(the holder is the owner of the fingerprint; nothing is revoked) and with keys (the holder is the user of the row).

### NodeFleet

The composition of a node, the network and the handlers it talks to, in
`NODE_PKI_MODE=strict` without the HMAC fallback (with it a node that presents nothing is let in).
`status` is `nodes.status`; `active` and `used` are the slots of
`CertificateSlot`, which `NodeCertificates` implements, so that each certificate is
one value here and its row is over there; `expired` are those whose `not_after` has passed, `distrusted` those
in use whose issuer `validateIssuerTrust` does not find among the configured, the previous and the active one.
`phase`, `known` and `waiting` are a node: what it sends next, the serial number it presents, the request it
waits for. `withdrawn` is history, as are `out` and `late` in a handler's record.

| action | code |
|---|---|
| `Send`, `GiveUp`, `Reboot` | the loop of the agent (`agent/agent.go`), the 10 s timeout of its client or a lost answer, its restart |
| `Load`, `Verify` | the row of the node, and `verifyNodeTLSIdentity` if there is one |
| `Upsert`, `Touch` | `UpsertNodeRegistration` and `TouchNodeHeartbeat`, each with its condition on the status |
| `Ensure`, `RevokeSeen`, `Insert`, `InsertConflict` | `ensureNodeCertificate` and the statements after it |
| `Answer`, `Fail` | the answer, to a node that may have given up; an error |
| `Retire`, `Fill`, `HandOver`, `Expire` | operators and the sweep revoke and issue; an operator configures the node; time |
| `SwitchIssuers` | another issuer is activated, or the server starts with others configured: whose certificates are trusted changes |
| `RevokeNode`, `ReactivateNode`, `MarkNodeRuntimeOnline` | the other writers of the status |

Which issuers there are, and which switch ends the trust in which, is in `PkiIssuers`; here any switch may distrust or trust
again any of the certificates in use. `Ensures` does so, too, because `ensureSigningIssuer` runs before a certificate is
replaced, and `Install` may bring a certificate that is distrusted already, because its issuer was settled on before.
`Good` is a certificate that is accepted, `Valid` one that is neither revoked nor expired. A node is `LockedOut` while what it has is not
good, and `ShutOut` when it is not valid, which no switch mends.

The agent of the repository is the loop and the timeout; it presents no certificate. What a node
presents here is taken from the handlers: they answer with a serial number and ask for it in the
next request, and the platform's integration tests send it back that way.

### Subscriptions

`user`, `key`, `node` and `ready` are the rows an answer is made of (`ready` are the nodes whose row in
`node_runtimes` has a public key), `watch` (history) is what was there all the time, or at some
time, since each handler began. A handler is GET of a subscription (`goal` is `"subscription"`) or the lookup that gives
an access key its link in the panel (`"link"`).

| action | code |
|---|---|
| `Begin`, `ReadUser`, `ListKeys`, `ListNodes` | `GetUserSubscription`; for a link only the nodes, in `resolveRuntimeTarget` |
| `ReadRuntime`, `MissRuntime` | one turn of the loop over the nodes; the second is a read that fails |
| `Return` | the answer is sent, or another statement fails |
| `SetUserStatus`, `DeleteUser`, `CreateAccessKey`, `RevokeAccessKey`, `CreateNode`, `SetNodeStatus` | the writers of the rows |
| `EnsureDefaults` | `ensureNodeRuntimeDefaults`: the public key of the process, or `pending` if it was started without one |

`Newest` is `normalizePaging` with the order of the lists: 10000 keys and 1000 nodes are asked for, and the 20 newest of each are read.

## Runs

| run | instance | shows |
|---|---|---|
| `certificates_safety` | 2 nodes, 3 certificates, 2 handlers, time to 2 (TTL 2, renew 1 before) | at most one certificate per node, gaps have a cause and close when handlers stop failing, predecessors are right, the table is a history, the sweep takes only what is due, and `CertificateSlot` is implemented |
| `identity_safety` | 1 node, 5 requests with 2 keys, 2 handlers, skew 1, time to 4 | no fresh request is taken twice, a heartbeat is taken only with a key from a registration taken before, `NodeLifecycle` is implemented |
| `identity_replay` | the same | **violated**: a request can be taken twice when its copy is validated at the deadline |
| `runtime_safety` | 2 keys (a UUID and a URI), pages of 1, 3 revisions, 2 panel requests and the script | `RevisionLog` is implemented, the applied one is marked, a revoked key leaves, a key in use that is not pushed off the page by newer ones stays, the script never applies an older revision |
| `runtime_deployed` | the same, 2 revisions | **violated**: the applied revision need not be the file that was written |
| `runtime_clients` | the same | **violated**: active keys without clients stop the script |
| `issuers_safety` | 3 issuers (2 configured, 1 made by hand for the CA of the process), of which one that is configured later may be made by hand with another CA before; 3 configurations (two with CA files, the default without), 2 handlers, 1 restart | one active issuer, issuers hand over without a gap, certificates name an activated issuer that has the CA that signed, but for the configured one when its row was made by hand or in an earlier start |
| `issuers_switch` | the same without a restart | **violated**: an activation ends the trust in certificates of an adopted issuer |
| `access_devices` | 2 users, 3 devices, a limit of 1, none, or an invalid one, 2 handlers | devices keep their owner, deleted users leave nothing, races exceed the limit by less than their number |
| `access_keys` | 2 users, 1 device, 1 key, a quota of 1 or none, traffic to 1, 2 handlers | the quota was held when the policy was read, a block is overtaken only by requests past the check, `AccessRegistry` is implemented for devices and keys |
| `node_fleet` | 1 node, 3 certificates, 2 requests | a node is refused only after a withdrawal, an expiry or the end of its issuer's trust; without a certificate it stays out until an operator acts; when revoked it gets none by registering, unless its check was past; and when all is quiet it is heard, unless one of these has come |
| `user_connections` | 3 keys (one without a link), 2 nodes, pages of 2, 1 handler | nothing withdrawn is served, nothing kept is missed, a link leads to a revoked node only for want of another |

Why these bounds are enough to be interesting. Two handlers are needed for every
race, and a third certificate lets both replace the first. Time 2 with a TTL
of 2 and a renewal window of 1 has certificates that are fresh, due and expired.
Time 4 with a skew of 1 lets a nonce expire, be purged, and its request
return. Three revisions allow one to be inserted on each side of an apply's
snapshot; one restart brings any change of configuration, with rows of the first
process left for the second; and a page of one key shows the key that falls off the page. Three
devices under a limit of 1 leave room for one overshoot by a race and for one more that would be wrong. One node with two
requests has the one it waits for and the one it has given up, and three certificates the one it was given, the one
that replaces it and one more for the loser of a race; two nodes meet only in the issuers, which `SwitchIssuers` changes at any time. Three keys on pages of two
have one that falls off. Two nodes give a link a choice and a loop something to go on with; they fit on
a page, so that the paging of nodes is in the theorems only. Handlers of `Subscriptions` only read, so that one
cannot tell whether there is another. A revoked key on a page of one would push an active one off it, if revoked keys were listed. The theorems below remove the bounds for all safety properties.
The largest instance is that of `issuers_safety`, with 7,900,967 distinct states (two minutes); `node_fleet` has 1,229,667
and its liveness takes as long, `identity_safety` 489,980.

Deadlock is checked, except for `NodeCertificates`: it stops when its clock and its uuids
are used up.

Fairness. `FairSpec` of `NodeCertificates` has weak fairness of each handler's own steps: a goroutine
that has been started is scheduled until it returns. Nothing is assumed
of arrivals, of failures or of the clock. `GapCloses` speaks of runs in which failures stop
after some time; without that every insert could fail for ever. `FairSpec` of `NodeFleet` adds that a node that
waits for nothing sends again, as the agent's ticker and the supervisor that restarts it do. `EndsHeard` speaks of runs
in which, after some time, nothing disturbs the node: no failures, lost answers, restarts, operators or expiries, and no
certificate in use that loses its issuer's trust.
In both, a failure that leaves the same state as the handler's own next step is not a disturbance, since no
state tells the two apart.

What is assumed. The database runs at READ COMMITTED, its default, and nothing in the
repository changes that; a statement that does not wait for a lock is atomic. In
`NodeIdentity` the server and the database share one clock; two clocks would
only widen the window `identity_replay` shows. One bootstrap script runs
at a time, as the deployment starts it.

## Where code and documents disagree

1. `TakenOnce`: a test says that a second delivery is always answered
   `replay_detected`. The row of a nonce is kept until `signed_at + skew`,
   inclusive; the clock is checked before the nonce is consumed. A copy that
   was validated at the deadline and comes to `ConsumeNodeNonce` after it deletes
   the row of the first copy and is taken. What does hold is `TakenOnceInTime`.
2. `ScriptAppliesFile`: the script logs that the configuration was applied, but
   POST `/nodes/runtime/apply` names no revision and marks the latest one.
   What does hold is `ScriptAppliesNewer`.
3. `KeysHaveClients`: the script takes a configuration without clients for an
   error when there are active vless keys; the generator passes over those whose
   secret is a `vless://` URI, which creating a key accepts. What does hold, of the keys whose
   secret is a UUID, is `KeysStay`.
4. `SwitchKeepsTrust`: the admin page promises a switch "with overlap trust from
   previous set". The previous issuers are those of
   `NODE_CA_PREVIOUS_ISSUER_IDS`; the rows an activation retires are not
   consulted. For the configured issuer this makes no difference, as it is trusted
   anyway. An issuer that was adopted because it has the CA of the process is
   trusted only while it is active. What does hold is `TrustEndsBySwitch` (theorem `TrustEndsWithItsIssuer`):
   an activation ends the trust in one issuer at most, never the configured one, and its successor names it.

The device limit ("device limit exceeded for user", `service.go:632`) is counted in one statement and relied on in
another, so that registrations that race all count before any inserts: `DevicesBounded` allows the limit to
be exceeded by less than their number, and a user with a limit of 1 does get two devices in `access_devices`.
In the same way a key can be made for a user whose block has just been answered, although
CreateAccessKey says "cannot create key for blocked user" (`service.go:404`): the status is
read three statements before the insert, and `BlockHolds` says what is left of it.

Also seen, without a text that says otherwise: every signature activates the
configured issuer again, whatever an administrator has activated; of two
activations that race for the row of the active issuer, one can leave
`rotate_from_issuer_id` empty; and without CA files (the default) a restarted
process signs with a new CA and records the certificates under the old one. The same happens when an issuer was
created by hand with another CA and is configured later, which `CreatePKIIssuer` permits (the stage 8 integration test
creates issuers that way). `SignedByIssuer` names these two as its exceptions and allows no other.
A switch of the issuer does not look at the certificates in use: by `ensureSigningIssuer` the registration of
one node may end the acceptance of the certificate of another, and `NodeFleet` counts it among the reasons for a lockout.

From `NodeFleet`: a node whose first answer is lost is locked out for good, because the row was committed
before the certificate was sent, and only an operator who hands it a certificate lets it in again (`StaysOut`);
issuing by hand, rotation and the sweep also serve nodes that are revoked. The agent of the repository
sends the constant signature `local-dev-signature`, which `verifyRegisterSignature` refuses, so that it never
registers; an agent that signs but counts its nonces from 1 at each start would have its heartbeats
refused as replays until the rows of the last run are purged (such requests are among those of `identity_safety`).

From `Subscriptions`: a `vless://` key is shown in the panel but never in a subscription, since
`ConnectionURI` is not filled in for the keys the store lists; the node status `offline` and the runtime status
`error`, which a subscription leaves out, are stored by nothing; and a link may lead to a revoked
node, which a subscription would leave out. No code uses the table `admin_sessions` (migration 0009).

## Proofs

Each proof module defines an inductive invariant `IInv`, proves that `Init`
establishes it and that every action preserves it, one step per action, and
derives the theorems from it, for any number of nodes, keys, requests,
certificates and revisions and for any clock.

* `NodeCertificatesProofs`. `OneActiveCert`, `GapExplained` and `Lineage` are not inductive:
  that an insert extends the lineage needs to know what the handler carries.
  `HandlersSound` says it (the row a handler saw exists, belongs to its node,
  and is revoked once the handler is about to insert) and `SignedBefore` that no
  row expires later than a leaf signed now would. Theorems: `TypeCorrect`,
  `OneActive`, `GapsAreExplained`, `LineageHolds`, `HistoryIsKept`,
  `SlotRefinement`. For `SweepsTakeOnlyDue` a second invariant, `SweepsDue`, follows the rows a sweep has listed: they are
  due, and stay so because time only goes on and expiries are not rewritten.
  `GapsWait` is the safety behind `GapCloses`: while nothing fails, a gap keeps every handler that is about to fill it,
  and the next statement of any of them closes it, since the index has nothing to refuse. What fairness adds is only that
  one of them takes that statement.
* `NodeIdentityProofs`. `TakenOnRecord` with the types is inductive. Theorems: `TypeCorrect`,
  `RecordKept`, `ReplayRejected`, `HeartbeatsKeyed`, `LifecycleRefinement`. For `HeartbeatsKeyed` the invariant
  `KeysRegistered` is added: the key of a row came in a registration that was taken, a heartbeat that passed its check of the
  key carries one that did, and a registration is taken before it is applied (`KeysStep`).
* `RuntimeRevisionsProofs`. `Dense` (revisions are numbered from 1 without
  gaps), `CallersSound` (an apply's version is among the rows it clears, and
  those are a prefix of the revisions) and `ScriptSound` (the script's file is a
  revision no newer than the one its apply has read; the configuration it has been sent has every key of `Served` and none of `gone`) are added.
  For `KeysStay` the page matters: `Served` bounds the position of a key by those in use (`InUse`), which include every
  active one, so that a key of `Served` is on the page when it is listed (`ServedListed`), and afterwards `InUse` only grows
  and `Served` only shrinks (`PageShrinks`, `ServedShrinks`). `LogRefinement`: an insert takes the number after the last one
  or fails, by `Dense` and the unique constraint, so it is `Append`; the commit of an apply is `Apply`; everything else stutters.
  Theorems: `TypeCorrect`, `AppliedRevision`, `RevocationTakesEffect`, `ActiveKeysStay`,
  `ScriptNeverOlder`, `LogRefinement`.

* `PkiIssuersProofs`. `HandlersSound` says that a handler which is to sign has found
  or made the row of its issuer, and has seen it activated before it signs;
  with the types it gives `TypeCorrect`, `OneActive`, `SignersAreActivated` and `Succession`.
  `SignedByIssuersCA` needs `SignInv` besides: a row was there before (by hand, or from an earlier start), or it was made in this
  start and has the CA of the process; and what a handler has settled on (`Bound`) has that CA or is the configured issuer with a row
  that was there before. It is an invariant for whatever deployments and creations there are.
  `TrustEndsWithItsIssuer` follows from the step that retires an issuer and from there being one active.
* `AccessPolicyProofs`. `DevicesBounded` needs `Room`: a user's devices and the
  handlers that may still insert one (`Pending`) are together at most limit - 1
  and the number of handlers. A handler becomes pending when it has found fewer devices than
  the limit, and from pending it goes into the devices. One that skipped the count because it
  found its device is not pending; it becomes so only when its user, and so the
  device, is deleted, and then the user has no devices. `HandlersSound` and
  `HighestHeld` say that the limit a handler carries is one the user has had, that usage
  only grows (for `QuotaHeld`), and which handlers a block found past the check. Theorems:
  `TypeCorrect`, `NothingLeft`, `DeviceBound`, `QuotaIsHeld`, `BlockIsHeld`, `OwnerKept`, and
  `RegistryRefinement`: the reads of handlers stutter (`StepShape`), an insert is a `Give` because its foreign key and the
  unique fingerprint are checked by the statement itself and not by what the handler read before, and the cascade of `DeleteUser` is `Remove`.
  Sets of devices and of handlers are assumed to be finite.
* `NodeFleetProofs`. What a node was given must stay good, so the invariant follows the serial number from the slot to the handler
  that will answer with it (`HandlersSound`), to the node (`KnownKept`), and says that all of them have been issued
  (`SlotsUsed`), because a certificate that was never issued could be installed again for
  another node. A handler is about to revoke only an expired certificate: that is why a node's own registrations take nothing away.
  For `StaysOut` a handler of a node that is shut out stays refused because a retired serial number never comes back into a slot,
  whatever issuers are trusted.
  `Steady` is what every step does to slots, and each handler that does not move is carried
  over it once. Theorems: `TypeCorrect`, `OutExplained`, `LockoutLasts`, `RevocationHolds`.
  `NodesStayInTouch` and `NodesStaySettled` are the safety behind `EndsHeard`. A node is `InTouch` when its row, its slot, what it presents and
  the request it waits for agree. No step but a disturbance ends that, and the request ends with an answer and a heartbeat
  next; the registrations it has given up are harmless, as all they find is the certificate the node has (`StepAtTouch`).
  Once the last of them is gone it is `Settled` and stays active, where one that was left could still write `pending`.
  `FleetUsesSlots` is the composition: what `NodeFleet` does to certificates is a behaviour of `CertificateSlot`, which
  `NodeCertificates` implements (`SlotRefinement`).
* `SubscriptionsProofs`. `Sound` relates a handler to what has been watched since it began: what it has read is within
  what there ever was, and what was kept is among what it has read, still has to read, or has lost. It speaks of one record and
  one history, so the lemma that watching on only shrinks or widens them (`Shrunk`) covers
  every other actor at once. For a link the order matters: what is first in the order of status was
  not revoked as long as anything that was kept is left. Theorems: `TypeCorrect`, `ServedNothingStale`, `ServedAllKept`,
  `LinksPreferUsable`, and `PagesHold`: in every state a handler that puts together a subscription has a page of keys and a page of nodes at
  most. What it has read is bounded when it reads it (`Newest`), and its loop over the nodes only adds nodes that it has read
  and passed (`PagedStep`).

Assumed are only the constants' assumptions, named in the modules. Only
model-checked: `GapCloses` and `EndsHeard`, since liveness under fairness is out of the prover's reach (what they rest on,
`GapsWait`, `NodesStayInTouch` and `NodesStaySettled`, is proved), and the four violations, which are counterexamples. Every other
property of a passing run is a theorem. That `NodeFleet` may use `CertificateSlot` for the certificate handlers rests on `SlotRefinement` and `FleetUsesSlots`;
that they are revoked and inserted one statement at a time is repeated there by `RevokeSeen` and `Insert`.

## Plan

All modules planned are there. What would come next:

1. The nonces of `NodeIdentity` in `NodeFleet`, for an agent that signs: whether a node that restarts
   within the skew is heard again in time.
2. An abstract specification of the order of issuers for `PkiIssuers` to refine, and of one answer for `Subscriptions`.
3. `NodeFleet` over the issuers of `PkiIssuers`, where it now leaves open which certificates a switch distrusts.

## Not modelled

Snapshots and analytics are counts and sums, each a statement of its own, that nothing acts on; taken together they
may describe no moment there ever was, but no code or text relates them. The API gateway
checks a token and forwards the request: it keeps no state, its sessions are cookies it signs, and roles and tenants are decided
within one request. The installer, the other scripts, SDKs, contracts and user interfaces keep no state that other parts rely on. The
deferred services answer health checks. Message formats, signatures, PEM and
JSON are abstracted to what the handlers distinguish. `tmp/`, `tmpcache/` and
vendored code are not part of the program.
