-------------------------- MODULE RuntimeRevisions --------------------------
(***************************************************************************)
(* How the configuration of Xray on one node is generated, recorded and    *)
(* deployed.                                                               *)
(*                                                                         *)
(* GET /nodes/runtime/config lists the active access keys and inserts the  *)
(* configuration made of them as the next revision; POST                   *)
(* /nodes/runtime/apply marks the latest revision as applied.  Both may    *)
(* come from the panel at any time, several at once.  bootstrap-runtime.sh *)
(* calls one after the other and writes what the first returned to the     *)
(* file Xray is started with; one bootstrap runs at a time.                *)
(*                                                                         *)
(* A configuration is the set of keys it makes clients of.  One action is  *)
(* one SQL statement or one command of the script; statements that take    *)
(* their snapshot before they wait for a lock are two.                     *)
(***************************************************************************)
EXTENDS Integers, FiniteSets

CONSTANTS
  MaxKeys,     \* bound of the model: access keys, numbered as they are created
  Kind,        \* of each key: "uuid" and "uri" are vless keys, by secret_ref
  PageLimit,   \* the limit normalizePaging replaces 10000 with
  MaxVersion,  \* bound of the model: revisions
  Request,     \* handlers of requests from the panel
  Script       \* bootstrap-runtime.sh, with the handlers of its requests

Key     == 1..MaxKeys
Version == 1..MaxVersion
Caller  == Request \cup {Script}

\* There is no such revision: 0 is no key.
NoConfig == {0}

ASSUME KeyAssumption == MaxKeys \in Nat /\ Kind \in [Key -> {"uuid", "uri", "other"}]
ASSUME VersionAssumption == MaxVersion \in Nat
ASSUME CallerAssumption == Script \notin Request
ASSUME LimitAssumption == PageLimit \in Nat

VARIABLES
  key,      \* status of each access key; "gone": revoked, or deleted with its user
  config,   \* runtime_revisions.config_json
  marked,   \* the revisions with runtime_revisions.applied
  pointed,  \* node_runtimes.applied_config_version, 0 at first
  file,     \* config.json on the node, and the revision it was taken from
  call      \* what each caller is doing

vars == <<key, config, marked, pointed, file, call>>

Doing == [pc      : {"idle", "generate", "number", "insert", "write", "check",
                     "latest", "clear", "mark", "online"},
          clients : SUBSET Key,      \* of the configuration generated
          version : 0..MaxVersion,   \* to be inserted, or the latest as read
          rows    : SUBSET Version,  \* the first UPDATE of the apply sees these
          vless   : SUBSET Key,      \* active vless keys the script has counted
          \* The keys that were active, and gone, when the script started (history).
          active  : SUBSET Key,
          gone    : SUBSET Key]

TypeOK ==
  /\ key \in [Key -> {"absent", "active", "gone"}]
  /\ config \in [Version -> (SUBSET Key) \cup {NoConfig}]
  /\ marked \subseteq Version
  /\ pointed \in 0..MaxVersion
  /\ file \in [version : 0..MaxVersion, clients : SUBSET Key]
  /\ call \in [Caller -> Doing]

Idle == [pc |-> "idle", clients |-> {}, version |-> 0, rows |-> {}, vless |-> {},
         active |-> {}, gone |-> {}]

Init ==
  /\ key = [k \in Key |-> "absent"]
  /\ config = [v \in Version |-> NoConfig]
  /\ marked = {}
  /\ pointed = 0
  /\ file = [version |-> 0, clients |-> {}]
  /\ call = [p \in Caller |-> Idle]
-----------------------------------------------------------------------------
Revisions == {v \in Version : config[v] # NoConfig}
Active    == {k \in Key : key[k] = "active"}
Gone      == {k \in Key : key[k] = "gone"}

\* ListAccessKeys: the newest keys of a status, at most a page of them.
Newest(S) == {k \in S : Cardinality({j \in S : j > k}) < PageLimit}

Move(p, pc) == call' = [call EXCEPT ![p].pc = pc]
Finish(p)   == call' = [call EXCEPT ![p] = Idle]

\* Where a caller that has had its answer goes on: the script, with pc.
Return(p, pc) == IF p = Script THEN Move(p, pc) ELSE Finish(p)

\* A request may arrive from the panel at any time, from the script at pc.
Calls(p, pc) == call[p].pc = IF p = Script THEN pc ELSE "idle"
-----------------------------------------------------------------------------
(***************************************************************************)
(* Access keys.                                                            *)
(***************************************************************************)
CreateAccessKey(k) ==
  /\ key[k] = "absent"
  /\ \A j \in Key : j < k => key[j] # "absent"
  /\ key' = [key EXCEPT ![k] = "active"]
  /\ UNCHANGED <<config, marked, pointed, file, call>>

\* RevokeAccessKey, DeleteUser.
Withdraw(k) ==
  /\ key[k] = "active"
  /\ key' = [key EXCEPT ![k] = "gone"]
  /\ UNCHANGED <<config, marked, pointed, file, call>>
-----------------------------------------------------------------------------
(***************************************************************************)
(* GetNodeRuntimeConfig.                                                   *)
(***************************************************************************)
\* A caller of each GET gets a number of its own (bound of the model).
Generating == {p \in Caller : call[p].pc \in {"number", "insert"}}

Generate(p, listed) ==
  /\ Calls(p, "generate")
  /\ Cardinality(Generating) < MaxVersion - Cardinality(Revisions)
  /\ call' = [call EXCEPT ![p].pc = "number",
                          ![p].clients = {k \in listed : Kind[k] = "uuid"}]
  /\ UNCHANGED <<key, config, marked, pointed, file>>

\* Fault: keys are listed whatever their status.
GenerateConfig_AnyStatus(p) == Generate(p, Newest(Active \cup Gone))

\* generateXrayConfig: vless keys whose secret_ref is no uuid are passed over.
GenerateConfig(p) == Generate(p, Newest(Active))

\* InsertRuntimeRevision: MAX(version) + 1 ...
NextVersion(p) ==
  /\ call[p].pc = "number"
  /\ \E v \in Version :
       /\ \A w \in Revisions : w < v
       /\ v = 1 \/ v - 1 \in Revisions
       /\ call' = [call EXCEPT ![p].pc = "insert", ![p].version = v]
  /\ UNCHANGED <<key, config, marked, pointed, file>>

\* Fault: no UNIQUE(node_id, version).
InsertRevision_Upsert(p) ==
  /\ call[p].pc = "insert"
  /\ config' = [config EXCEPT ![call[p].version] = call[p].clients]
  /\ Return(p, "write")
  /\ UNCHANGED <<key, marked, pointed, file>>

\* ... and the insert, which fails when the number has been taken meanwhile.
InsertRevision(p) ==
  /\ call[p].pc = "insert"
  /\ IF config[call[p].version] = NoConfig
       THEN /\ config' = [config EXCEPT ![call[p].version] = call[p].clients]
            /\ Return(p, "write")
       ELSE Finish(p) /\ UNCHANGED config
  /\ UNCHANGED <<key, marked, pointed, file>>
-----------------------------------------------------------------------------
(***************************************************************************)
(* ApplyNodeRuntimeConfig.                                                 *)
(***************************************************************************)
Greatest(v, S) == v \in S /\ \A w \in S : w <= v

Latest(p, v) ==
  /\ Calls(p, "latest")
  /\ call' = [call EXCEPT ![p].pc = "clear", ![p].version = v]
  /\ UNCHANGED <<key, config, marked, pointed, file>>

\* Faults: ORDER BY version without DESC; the missing row taken for version 0.
GetLatest_Oldest(p) == \E v \in Revisions : (\A w \in Revisions : v <= w) /\ Latest(p, v)
GetLatest_Zero(p) == \E v \in 0..MaxVersion : Greatest(v, Revisions \cup {0}) /\ Latest(p, v)

\* 404 when there is no revision.
GetLatest(p) == \E v \in Version : Greatest(v, Revisions) /\ Latest(p, v)

\* MarkRuntimeRevisionApplied: the UPDATE that clears the flag sees the rows
\* there are, then waits for their locks.
ClearApplied(p) ==
  /\ call[p].pc = "clear"
  /\ call' = [call EXCEPT ![p].pc = "mark", ![p].rows = Revisions]
  /\ UNCHANGED <<key, config, marked, pointed, file>>

\* Fault: the flag of the others is not cleared.
MarkApplied_KeepsOthers(p) ==
  /\ call[p].pc = "mark"
  /\ marked' = marked \cup {call[p].version}
  /\ pointed' = call[p].version
  /\ Move(p, "online")
  /\ UNCHANGED <<key, config, file>>

\* From the locks to the commit nothing comes between: every apply has version 1
\* among its rows.  A transaction that fails is rolled back (Fail).
MarkApplied(p) ==
  /\ call[p].pc = "mark"
  /\ marked' = (marked \ call[p].rows) \cup {call[p].version}
  /\ pointed' = call[p].version
  /\ Move(p, "online")
  /\ UNCHANGED <<key, config, file>>

\* The node is marked online (NodeIdentity), or not; the request is answered.
Answer(p) ==
  /\ call[p].pc = "online"
  /\ Finish(p)
  /\ UNCHANGED <<key, config, marked, pointed, file>>
-----------------------------------------------------------------------------
(***************************************************************************)
(* bootstrap-runtime.sh, and what may go wrong.                            *)
(***************************************************************************)
\* It asks for the active keys; it counts none if the request fails.
StartScript ==
  /\ call[Script].pc = "idle"
  /\ \E counted \in {{}, {k \in Newest(Active) : Kind[k] # "other"}} :
       call' = [call EXCEPT ![Script] = [Idle EXCEPT !.pc = "generate", !.vless = counted,
                                                     !.active = Active, !.gone = Gone]]
  /\ UNCHANGED <<key, config, marked, pointed, file>>

WriteConfig ==
  /\ call[Script].pc = "write"
  /\ file' = [version |-> call[Script].version, clients |-> call[Script].clients]
  /\ Move(Script, "check")
  /\ UNCHANGED <<key, config, marked, pointed>>

\* "zero clients while active vless keys exist" ends the script.
CheckClients ==
  /\ call[Script].pc = "check"
  /\ IF call[Script].vless # {} /\ file.clients = {}
       THEN Finish(Script)
       ELSE call' = [call EXCEPT ![Script] = [Idle EXCEPT !.pc = "latest",
                                                          !.active = call[Script].active,
                                                          !.gone = call[Script].gone]]
  /\ UNCHANGED <<key, config, marked, pointed, file>>

\* A statement fails, the caller goes away, a process is stopped.
Fail(p) ==
  /\ call[p].pc # "idle"
  /\ Finish(p)
  /\ UNCHANGED <<key, config, marked, pointed, file>>
-----------------------------------------------------------------------------
Step(p) ==
  \/ GenerateConfig(p) \/ NextVersion(p) \/ InsertRevision(p)
  \/ GetLatest(p) \/ ClearApplied(p) \/ MarkApplied(p) \/ Answer(p)
  \/ Fail(p)

Next ==
  \/ \E p \in Caller : Step(p)
  \/ \E k \in Key : CreateAccessKey(k) \/ Withdraw(k)
  \/ StartScript \/ WriteConfig \/ CheckClients

Spec == Init /\ [][Next]_vars
-----------------------------------------------------------------------------
(***************************************************************************)
(* What the handlers and the script promise together.                      *)
(***************************************************************************)
\* However applies overlap, the revision node_runtimes points at is marked as
\* applied; a revision that stays marked beside it is a newer one, inserted
\* after the apply that won took its snapshot.
PointedIsMarked ==
  /\ pointed # 0 => pointed \in marked
  /\ \A v \in marked : pointed # 0 /\ pointed <= v /\ v \in Revisions

\* Revisions are numbered without gaps and never rewritten, whatever overlaps,
\* and the one in force is always one of them (see RevisionLog).
Log == INSTANCE RevisionLog WITH Config  <- SUBSET Key, Number <- Version,
                                 log     <- [v \in Revisions |-> config[v]],
                                 applied <- pointed
ImplementsLog == Log!Spec

\* The script's apply never marks a revision older than the file it has written.
ScriptAppliesNewer ==
  [][call[Script].pc = "mark" /\ call'[Script].pc = "online"
       => pointed' >= file.version]_vars

\* A key that was revoked before the bootstrap started is not a client of the
\* configuration the bootstrap leaves behind.
RevokedLeaves ==
  call[Script].pc \in {"check", "latest", "clear", "mark", "online"} =>
    file.clients \cap call[Script].gone = {}

\* A key that was active before the bootstrap started, and still is, is a client
\* of that configuration, unless the keys in use that are newer fill the page:
\* keys revoked earlier never push it out.
InUse  == {j \in Key : key[j] # "absent"} \ call[Script].gone
Served == {k \in Active \cap call[Script].active :
             Kind[k] = "uuid" /\ Cardinality({j \in InUse : j > k}) < PageLimit}
KeysStay ==
  call[Script].pc \in {"check", "latest", "clear", "mark", "online"} =>
    Served \subseteq file.clients

\* "runtime config applied": the revision the script has marked as applied is
\* the configuration it has written.
ScriptAppliesFile ==
  [][call[Script].pc = "mark" /\ call'[Script].pc = "online"
       => config[pointed'] = file.clients]_vars

\* The generated configuration has clients when there are active vless keys.
KeysHaveClients ==
  call[Script].pc = "check" /\ call[Script].vless # {} => file.clients # {}
=============================================================================
