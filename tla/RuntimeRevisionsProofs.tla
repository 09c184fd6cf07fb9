----------------------- MODULE RuntimeRevisionsProofs -----------------------
(***************************************************************************)
(* Proofs about RuntimeRevisions, for any number of keys, revisions and    *)
(* requests.                                                               *)
(*                                                                         *)
(* PointedIsMarked and ScriptAppliesNewer speak of a step that uses what   *)
(* was read some statements earlier; CallersSound and ScriptSound say what *)
(* is still true of it by then.                                            *)
(***************************************************************************)
EXTENDS RuntimeRevisions, FiniteSetTheorems, TLAPS

\* The numbers in use have no gap.
Dense == \A v, w \in Version : config[v] # NoConfig /\ w < v => config[w] # NoConfig

\* The version a caller holds has all versions before it inserted, and the rows
\* an apply has seen are all those up to the version it marks.
CallerSound(p) ==
  /\ call[p].pc = "insert" =>
       call[p].version \in Version /\ \A w \in Version : w < call[p].version => config[w] # NoConfig
  /\ call[p].pc \in {"write", "clear", "mark"} =>
       call[p].version \in Version /\ config[call[p].version] # NoConfig
  /\ call[p].pc = "mark" => \A v \in Version : v <= call[p].version => v \in call[p].rows
CallersSound == \A p \in Caller : CallerSound(p)

\* The script's file: no client of it was gone when the script started, every key
\* it has to serve is one, and it was taken from a revision.
ScriptSound ==
  /\ call[Script].gone \subseteq Gone
  /\ call[Script].active \subseteq Active \cup Gone
  /\ call[Script].pc \in {"number", "insert", "write"} =>
       /\ call[Script].clients \cap call[Script].gone = {}
       /\ Served \subseteq call[Script].clients
  /\ call[Script].pc \in {"check", "latest"} =>
       file.version \in Version /\ config[file.version] # NoConfig
  /\ call[Script].pc \in {"clear", "mark"} => file.version <= call[Script].version

IInv == /\ TypeOK /\ Dense /\ CallersSound /\ ScriptSound
        /\ PointedIsMarked /\ RevokedLeaves /\ KeysStay
-----------------------------------------------------------------------------
LEMMA NoClients == ASSUME NEW S \in SUBSET Key PROVE S # NoConfig
  BY KeyAssumption DEF Key, NoConfig

LEMMA ListedActive == Newest(Active) \in SUBSET Active /\ Active \subseteq Key
  BY DEF Newest, Active

LEMMA VersionType == \A v \in Version : v \in 0..MaxVersion /\ v \in Nat \ {0}
  BY VersionAssumption DEF Version

LEMMA IdleType == Idle \in Doing /\ Script \in Caller
  BY VersionAssumption DEF Idle, Doing, Caller

\* A caller that goes on, or stops, stays well typed.
LEMMA MoveType ==
  ASSUME TypeOK, NEW p \in Caller,
         NEW pc \in {"idle", "generate", "number", "insert", "write", "check",
                     "latest", "clear", "mark", "online"}
  PROVE  /\ call[p] \in Doing
         /\ Move(p, pc) \/ Finish(p) \/ Return(p, pc) => call' \in [Caller -> Doing]
  <1>1. call[p] \in Doing
    BY DEF TypeOK
  <1>2. [call[p] EXCEPT !.pc = pc] \in Doing
    BY <1>1 DEF Doing
  <1> QED BY IdleType, <1>1, <1>2 DEF TypeOK, Move, Finish, Return

\* Every reachable state is well typed.
LEMMA TypeStep ==
  ASSUME TypeOK, CallersSound, [Next]_vars
  PROVE  TypeOK'
  <1>1. ASSUME NEW p \in Caller, GenerateConfig(p) PROVE TypeOK'
    <2> DEFINE S == {k \in Newest(Active) : Kind[k] = "uuid"}
    <2>1. S \in SUBSET Key
      BY ListedActive
    <2>2. \A T \in SUBSET Key : [call[p] EXCEPT !.pc = "number", !.clients = T] \in Doing
      BY <1>1, MoveType DEF Doing
    <2>3. call' = [call EXCEPT ![p] = [call[p] EXCEPT !.pc = "number", !.clients = S]]
      BY <1>1 DEF GenerateConfig, Generate, TypeOK
    <2> HIDE DEF S
    <2>4. call' \in [Caller -> Doing]
      BY <2>1, <2>2, <2>3 DEF TypeOK
    <2> QED BY <1>1, <2>4 DEF TypeOK, GenerateConfig, Generate
  <1>2. ASSUME NEW p \in Caller, NextVersion(p) PROVE TypeOK'
    <2>1. PICK v \in Version : call' = [call EXCEPT ![p].pc = "insert", ![p].version = v]
      BY <1>2 DEF NextVersion
    <2>2. [call[p] EXCEPT !.pc = "insert", !.version = v] \in Doing
      BY <1>2, MoveType, VersionType DEF Doing
    <2>3. call' \in [Caller -> Doing]
      BY <2>1, <2>2 DEF TypeOK
    <2> QED BY <1>2, <2>3 DEF TypeOK, NextVersion
  <1>3. ASSUME NEW p \in Caller, InsertRevision(p) PROVE TypeOK'
    <2>1. call' \in [Caller -> Doing]
      BY <1>3, MoveType DEF InsertRevision
    <2>2. call[p].clients \in SUBSET Key
      BY MoveType DEF Doing
    <2> QED BY <1>3, <2>1, <2>2 DEF TypeOK, InsertRevision
  <1>4. ASSUME NEW p \in Caller, GetLatest(p) PROVE TypeOK'
    <2>1. PICK v \in Version : Latest(p, v)
      BY <1>4 DEF GetLatest
    <2>2. [call[p] EXCEPT !.pc = "clear", !.version = v] \in Doing
      BY MoveType, VersionType DEF Doing
    <2>3. call' \in [Caller -> Doing]
      BY <2>1, <2>2 DEF TypeOK, Latest
    <2> QED BY <2>1, <2>3 DEF TypeOK, Latest
  <1>5. ASSUME NEW p \in Caller, ClearApplied(p) PROVE TypeOK'
    <2>1. [call[p] EXCEPT !.pc = "mark", !.rows = Revisions] \in Doing
      BY MoveType DEF Doing, Revisions
    <2>2. call' \in [Caller -> Doing]
      BY <1>5, <2>1 DEF TypeOK, ClearApplied
    <2> QED BY <1>5, <2>2 DEF TypeOK, ClearApplied
  <1>6. ASSUME NEW p \in Caller, MarkApplied(p) PROVE TypeOK'
    <2>1. call' \in [Caller -> Doing]
      BY <1>6, MoveType DEF MarkApplied
    <2>2. call[p].version \in Version
      BY <1>6 DEF MarkApplied, CallersSound, CallerSound
    <2>3. pointed' \in 0..MaxVersion /\ marked' \subseteq Version
      BY <1>6, <2>2, VersionType DEF TypeOK, MarkApplied
    <2> QED BY <1>6, <2>1, <2>3 DEF TypeOK, MarkApplied
  <1>7. ASSUME NEW p \in Caller, Answer(p) \/ Fail(p) PROVE TypeOK'
    <2>1. call' \in [Caller -> Doing]
      BY <1>7, MoveType DEF Answer, Fail
    <2> QED BY <1>7, <2>1 DEF TypeOK, Answer, Fail
  <1>8. ASSUME NEW k \in Key, CreateAccessKey(k) \/ Withdraw(k) PROVE TypeOK'
    BY <1>8 DEF TypeOK, CreateAccessKey, Withdraw
  <1>9. CASE StartScript
    <2>1. PICK S : /\ S \in {{}, {k \in Newest(Active) : Kind[k] # "other"}}
                   /\ call' = [call EXCEPT ![Script] = [Idle EXCEPT !.pc = "generate",
                                                        !.vless = S, !.active = Active,
                                                        !.gone = Gone]]
      BY <1>9 DEF StartScript
    <2>2. S \in SUBSET Key /\ Active \in SUBSET Key /\ Gone \in SUBSET Key
      BY <2>1, ListedActive DEF Gone
    <2>3. [Idle EXCEPT !.pc = "generate", !.vless = S, !.active = Active, !.gone = Gone] \in Doing
      BY <2>2, IdleType DEF Doing
    <2>4. call' \in [Caller -> Doing]
      BY <2>1, <2>3 DEF TypeOK
    <2> QED BY <1>9, <2>4 DEF TypeOK, StartScript
  <1>10. CASE WriteConfig
    <2>1. call' \in [Caller -> Doing]
      BY <1>10, MoveType, IdleType DEF WriteConfig
    <2>2. file' \in [version : 0..MaxVersion, clients : SUBSET Key]
      BY <1>10, MoveType, IdleType DEF WriteConfig, Doing
    <2> QED BY <1>10, <2>1, <2>2 DEF TypeOK, WriteConfig
  <1>11. CASE CheckClients
    <2>1. call[Script].gone \in SUBSET Key /\ call[Script].active \in SUBSET Key
      BY MoveType, IdleType DEF Doing
    <2>2. [Idle EXCEPT !.pc = "latest", !.active = call[Script].active,
                       !.gone = call[Script].gone] \in Doing
      BY <2>1, IdleType DEF Doing
    <2>3. call' \in [Caller -> Doing]
      BY <1>11, <2>2, MoveType, IdleType DEF TypeOK, CheckClients, Finish
    <2> QED BY <1>11, <2>3 DEF TypeOK, CheckClients
  <1>12. CASE UNCHANGED vars
    BY <1>12 DEF vars, TypeOK
  <1> QED BY <1>1, <1>2, <1>3, <1>4, <1>5, <1>6, <1>7, <1>8, <1>9, <1>10, <1>11, <1>12
          DEF Next, Step
-----------------------------------------------------------------------------
(***************************************************************************)
(* What a step leaves alone.                                               *)
(***************************************************************************)
\* Revisions stay as they are, keys that are gone stay gone, and a key that has
\* been created has been.
Keeps == /\ \A v \in Version : config[v] # NoConfig => config'[v] = config[v]
         /\ Gone \subseteq Gone'
         /\ \A k \in Key : key[k] # "absent" => key'[k] # "absent"

\* Only InsertRevision inserts, and only a number that follows those in use.
LEMMA InsertEffect ==
  ASSUME TypeOK, CallersSound, NEW p \in Caller, InsertRevision(p)
  PROVE  \/ config' = config /\ call' = [call EXCEPT ![p] = Idle]
         \/ /\ call[p].version \in Version /\ config[call[p].version] = NoConfig
            /\ \A w \in Version : w < call[p].version => config[w] # NoConfig
            /\ config' = [config EXCEPT ![call[p].version] = call[p].clients]
            /\ call[p].clients # NoConfig
            /\ Return(p, "write")
  <1>1. call[p].pc = "insert" /\ CallerSound(p)
    BY DEF InsertRevision, CallersSound
  <1>2. call[p].clients # NoConfig
    BY NoClients DEF TypeOK, Doing
  <1> QED BY <1>1, <1>2 DEF InsertRevision, CallerSound, Finish

LEMMA StepKeeps ==
  ASSUME TypeOK, CallersSound, [Next]_vars
  PROVE  Keeps
  <1> USE DEF Keeps, Gone
  <1>1. ASSUME NEW p \in Caller, InsertRevision(p) PROVE Keeps
    BY <1>1, InsertEffect DEF InsertRevision, TypeOK
  <1>2. ASSUME NEW p \in Caller, Step(p), ~InsertRevision(p) PROVE Keeps
    BY <1>2 DEF Step, GenerateConfig, Generate, NextVersion, GetLatest, Latest,
                ClearApplied, MarkApplied, Answer, Fail
  <1>3. ASSUME NEW k \in Key, CreateAccessKey(k) \/ Withdraw(k) PROVE Keeps
    BY <1>3 DEF CreateAccessKey, Withdraw, TypeOK
  <1>4. CASE StartScript \/ WriteConfig \/ CheckClients \/ UNCHANGED vars
    BY <1>4 DEF StartScript, WriteConfig, CheckClients, vars
  <1> QED BY <1>1, <1>2, <1>3, <1>4 DEF Next

\* What a caller relies on does not depend on the other callers.
LEMMA CallerKept ==
  ASSUME Keeps, NEW q \in Caller, CallerSound(q),
         call'[q] = call[q] \/ call'[q].pc \in {"idle", "generate", "number", "check", "latest", "online"}
  PROVE  CallerSound(q)'
  BY DEF Keeps, CallerSound

LEMMA DenseStep ==
  ASSUME TypeOK, Dense, CallersSound, [Next]_vars
  PROVE  Dense'
  <1>1. ASSUME NEW p \in Caller, InsertRevision(p) PROVE Dense'
    <2>1. CASE config' = config
      BY <2>1 DEF Dense
    <2>2. CASE config' # config
      <3>1. \A v \in Version : config'[v] # NoConfig =>
              v = call[p].version \/ config[v] # NoConfig
        BY <1>1, <2>2, InsertEffect DEF TypeOK
      <3>2. \A v \in Version : config[v] # NoConfig => config'[v] # NoConfig
        BY StepKeeps DEF Keeps
      <3>3. \A w \in Version : w < call[p].version => config[w] # NoConfig
        BY <1>1, <2>2, InsertEffect
      <3> QED BY <3>1, <3>2, <3>3 DEF Dense
    <2> QED BY <2>1, <2>2
  <1>2. CASE config' = config
    BY <1>2 DEF Dense
  <1>3. config' = config \/ \E p \in Caller : InsertRevision(p)
    BY DEF Next, Step, GenerateConfig, Generate, NextVersion, GetLatest, Latest, ClearApplied,
           MarkApplied, Answer, Fail, CreateAccessKey, Withdraw, StartScript, WriteConfig,
           CheckClients, vars
  <1> QED BY <1>1, <1>2, <1>3
-----------------------------------------------------------------------------
\* An apply sees a prefix of the revisions, and it is still one when it commits.
LEMMA CallersStep ==
  ASSUME TypeOK, Dense, CallersSound, [Next]_vars
  PROVE  CallersSound'
  <1> USE DEF CallersSound
  <1>1. ASSUME NEW p \in Caller, \A q \in Caller : q # p => call'[q] = call[q], CallerSound(p)'
        PROVE  CallersSound'
    <2>1. \A q \in Caller : q # p => CallerSound(q)'
      BY <1>1, StepKeeps, CallerKept
    <2> QED BY <1>1, <2>1
  <1>2. ASSUME NEW p \in Caller,
               call'[p].pc \in {"idle", "generate", "number", "check", "latest", "online"}
        PROVE  CallerSound(p)'
    BY <1>2, StepKeeps, CallerKept
  <1>3. ASSUME NEW p \in Caller, GenerateConfig(p) \/ MarkApplied(p) \/ Answer(p) \/ Fail(p)
        PROVE  CallersSound'
    <2>1. call'[p].pc \in {"idle", "number", "online"} /\ \A q \in Caller : q # p => call'[q] = call[q]
      BY <1>3 DEF GenerateConfig, Generate, MarkApplied, Answer, Fail, Move, Finish, Idle, TypeOK, Doing
    <2> QED BY <1>1, <1>2, <2>1
  <1>4. ASSUME NEW p \in Caller, NextVersion(p) PROVE CallersSound'
    <2>1. PICK v \in Version :
             /\ v = 1 \/ v - 1 \in Revisions
             /\ call' = [call EXCEPT ![p].pc = "insert", ![p].version = v]
      BY <1>4 DEF NextVersion
    <2>2. \A w \in Version : w < v => config[w] # NoConfig
      <3>1. CASE v = 1
        BY <3>1, VersionType
      <3>2. CASE v - 1 \in Revisions
        <4>1. \A w \in Version : w < v => w = v - 1 \/ w < v - 1
          BY VersionType
        <4> QED BY <3>2, <4>1 DEF Revisions, Dense
      <3> QED BY <2>1, <3>1, <3>2
    <2>3. config' = config /\ call'[p].pc = "insert" /\ call'[p].version = v
      BY <1>4, <2>1 DEF NextVersion, TypeOK, Doing
    <2>4. CallerSound(p)'
      BY <2>2, <2>3 DEF CallerSound
    <2> QED BY <1>1, <2>1, <2>4 DEF TypeOK
  <1>5. ASSUME NEW p \in Caller, InsertRevision(p) PROVE CallersSound'
    <2>1. CASE config' = config /\ call' = [call EXCEPT ![p] = Idle]
      BY <1>1, <1>2, <2>1 DEF TypeOK, Idle
    <2>2. CASE ~(config' = config /\ call' = [call EXCEPT ![p] = Idle])
      <3>1. CASE p = Script
        <4>1. /\ call[p].version \in Version /\ call[p].clients # NoConfig
              /\ config' = [config EXCEPT ![call[p].version] = call[p].clients]
              /\ call' = [call EXCEPT ![p].pc = "write"]
          BY <1>5, <2>2, <3>1, InsertEffect DEF Return, Move
        <4>2. call'[p].pc = "write" /\ call'[p].version = call[p].version
              /\ \A q \in Caller : q # p => call'[q] = call[q]
          BY <4>1 DEF TypeOK, Doing
        <4>3. config'[call[p].version] # NoConfig
          BY <4>1 DEF TypeOK
        <4>4. CallerSound(p)'
          BY <4>1, <4>2, <4>3 DEF CallerSound
        <4> QED BY <1>1, <4>2, <4>4
      <3>2. CASE p # Script
        BY <1>1, <1>2, <1>5, <2>2, <3>2, InsertEffect DEF Return, Finish, Idle, TypeOK
      <3> QED BY <3>1, <3>2
    <2> QED BY <2>1, <2>2
  <1>6. ASSUME NEW p \in Caller, GetLatest(p) PROVE CallersSound'
    <2>1. PICK v \in Version : v \in Revisions /\ Latest(p, v)
      BY <1>6 DEF GetLatest, Greatest
    <2>2. /\ config' = config /\ call'[p].pc = "clear" /\ call'[p].version = v
          /\ \A q \in Caller : q # p => call'[q] = call[q]
      BY <2>1 DEF Latest, TypeOK, Doing
    <2>3. CallerSound(p)'
      BY <2>1, <2>2 DEF CallerSound, Revisions
    <2> QED BY <1>1, <2>2, <2>3
  <1>7. ASSUME NEW p \in Caller, ClearApplied(p) PROVE CallersSound'
    <2>1. /\ config' = config /\ call'[p].pc = "mark" /\ call'[p].version = call[p].version
          /\ call'[p].rows = Revisions
          /\ \A q \in Caller : q # p => call'[q] = call[q]
      BY <1>7 DEF ClearApplied, TypeOK, Doing
    <2>2. call[p].version \in Version /\ config[call[p].version] # NoConfig
      BY <1>7 DEF ClearApplied, CallerSound
    <2>3. \A v \in Version : v <= call[p].version => v \in Revisions
      BY <2>2, VersionType DEF Dense, Revisions
    <2>4. CallerSound(p)'
      BY <2>1, <2>2, <2>3 DEF CallerSound
    <2> QED BY <1>1, <2>1, <2>4
  <1>8. ASSUME NEW k \in Key, CreateAccessKey(k) \/ Withdraw(k) PROVE CallersSound'
    BY <1>8 DEF CreateAccessKey, Withdraw, CallerSound
  <1>9. CASE StartScript \/ WriteConfig \/ CheckClients
    <2>1. /\ call'[Script].pc \in {"idle", "generate", "check", "latest"}
          /\ \A q \in Caller : q # Script => call'[q] = call[q]
      <3>1. CASE StartScript
        BY <3>1, IdleType DEF StartScript, Idle, TypeOK
      <3>2. CASE WriteConfig
        BY <3>2, IdleType DEF WriteConfig, Move, TypeOK, Doing
      <3>3. CASE CheckClients
        <4>1. \/ call' = [call EXCEPT ![Script] = Idle]
              \/ call' = [call EXCEPT ![Script] = [Idle EXCEPT !.pc = "latest",
                                                               !.active = call[Script].active,
                                                               !.gone = call[Script].gone]]
          BY <3>3 DEF CheckClients, Finish
        <4>2. [Idle EXCEPT !.pc = "latest", !.active = call[Script].active,
                           !.gone = call[Script].gone].pc = "latest"
          BY DEF Idle
        <4>3. \A d : call' = [call EXCEPT ![Script] = d] =>
                /\ call'[Script] = d
                /\ \A q \in Caller : q # Script => call'[q] = call[q]
          BY IdleType DEF TypeOK
        <4>4. Idle.pc = "idle"
          BY DEF Idle
        <4> QED BY <4>1, <4>2, <4>3, <4>4
      <3> QED BY <1>9, <3>1, <3>2, <3>3
    <2> QED BY <1>1, <1>2, <2>1, IdleType
  <1>10. CASE UNCHANGED vars
    BY <1>10 DEF vars, CallerSound
  <1> QED BY <1>3, <1>4, <1>5, <1>6, <1>7, <1>8, <1>9, <1>10 DEF Next, Step
-----------------------------------------------------------------------------
\* What the apply of MarkApplied leaves marked beside its own version is newer.
LEMMA PointedStep ==
  ASSUME TypeOK, CallersSound, PointedIsMarked, [Next]_vars
  PROVE  PointedIsMarked'
  <1>1. ASSUME NEW p \in Caller, MarkApplied(p) PROVE PointedIsMarked'
    <2> DEFINE v == call[p].version
    <2>1. /\ v \in Version /\ v \in Revisions
          /\ \A w \in Version : w <= v => w \in call[p].rows
      BY <1>1 DEF MarkApplied, CallersSound, CallerSound, Revisions
    <2>2. marked' = (marked \ call[p].rows) \cup {v} /\ pointed' = v /\ Revisions' = Revisions
      BY <1>1 DEF MarkApplied, Revisions
    <2>3. \A w \in marked \ call[p].rows : w \in Version /\ w \in Revisions /\ v <= w
      BY <2>1, VersionType DEF PointedIsMarked, Revisions
    <2> QED BY <2>1, <2>2, <2>3, VersionType DEF PointedIsMarked
  <1>2. CASE UNCHANGED <<marked, pointed>>
    <2>1. Revisions \subseteq Revisions'
      BY StepKeeps DEF Keeps, Revisions
    <2> QED BY <1>2, <2>1 DEF PointedIsMarked
  <1>3. UNCHANGED <<marked, pointed>> \/ \E p \in Caller : MarkApplied(p)
    BY DEF Next, Step, GenerateConfig, Generate, NextVersion, InsertRevision, GetLatest, Latest,
           ClearApplied, Answer, Fail, CreateAccessKey, Withdraw, StartScript, WriteConfig,
           CheckClients, vars
  <1> QED BY <1>1, <1>2, <1>3

-----------------------------------------------------------------------------
(***************************************************************************)
(* What the script has to serve.                                           *)
(***************************************************************************)
LEMMA KeysFinite == \A S \in SUBSET Key : IsFiniteSet(S) /\ Cardinality(S) \in Nat
  <1>1. IsFiniteSet(Key)
    BY KeyAssumption, FS_Interval DEF Key
  <1> QED BY <1>1, FS_Subset, FS_CardinalityType

\* A key pushed out of the page by some keys is pushed out by more of them.
LEMMA PageShrinks ==
  ASSUME NEW S \in SUBSET Key, NEW T \in SUBSET S, NEW k \in Key,
         Cardinality({j \in S : j > k}) < PageLimit
  PROVE  Cardinality({j \in T : j > k}) < PageLimit
  <1> DEFINE more == {j \in S : j > k}
             less == {j \in T : j > k}
  <1>1. more \in SUBSET Key /\ less \in SUBSET Key /\ less \in SUBSET more
    OBVIOUS
  <1> HIDE DEF more, less
  <1>2. IsFiniteSet(more) /\ Cardinality(more) \in Nat /\ Cardinality(less) \in Nat
    BY <1>1, KeysFinite
  <1>3. Cardinality(less) <= Cardinality(more)
    BY <1>1, <1>2, FS_Subset
  <1>4. Cardinality(more) < PageLimit
    BY DEF more
  <1>5. \A a, b, c \in Nat : a <= b /\ b < c => a < c
    OBVIOUS
  <1>6. Cardinality(less) < PageLimit
    BY <1>2, <1>3, <1>4, <1>5, LimitAssumption
  <1> QED BY <1>6 DEF less

\* The page that is listed holds every key the script has to serve.
LEMMA ServedListed ==
  ASSUME TypeOK, ScriptSound
  PROVE  Served \subseteq {k \in Newest(Active) : Kind[k] = "uuid"}
  <1> SUFFICES ASSUME NEW k \in Served PROVE k \in Newest(Active) /\ Kind[k] = "uuid"
    OBVIOUS
  <1>1. k \in Active /\ k \in Key /\ Kind[k] = "uuid"
        /\ Cardinality({j \in InUse : j > k}) < PageLimit
    BY DEF Served, Active
  <1>2. InUse \in SUBSET Key /\ Active \in SUBSET InUse
    BY DEF InUse, Active, Gone, ScriptSound
  <1>3. Cardinality({j \in Active : j > k}) < PageLimit
    BY <1>1, <1>2, PageShrinks
  <1> QED BY <1>1, <1>3 DEF Newest

\* While the script runs, what it has to serve only becomes less.
LEMMA ServedShrinks ==
  ASSUME TypeOK, TypeOK', Keeps, ScriptSound,
         call'[Script].active = call[Script].active, call'[Script].gone = call[Script].gone
  PROVE  /\ Served' \subseteq Served
         /\ call'[Script].gone \subseteq Gone'
         /\ call'[Script].active \subseteq (Active \cup Gone)'
  <1>1. call'[Script].gone \subseteq Gone'
    BY DEF Keeps, ScriptSound
  <1>2. \A k \in Key : key'[k] # "absent" => k \in Active' \/ k \in Gone'
    BY DEF TypeOK, Active, Gone
  <1>3. call'[Script].active \subseteq (Active \cup Gone)'
    BY <1>2 DEF ScriptSound, Keeps, Active, Gone
  <1>4. ASSUME NEW k \in Served' PROVE k \in Served
    <2>1. /\ k \in Active' /\ k \in Key /\ k \in call[Script].active /\ Kind[k] = "uuid"
          /\ Cardinality({j \in InUse' : j > k}) < PageLimit
      BY DEF Served, Active
    <2>2. k \in Active
      BY <2>1 DEF ScriptSound, Keeps, Active, Gone
    <2>3. InUse' \in SUBSET Key /\ InUse \in SUBSET InUse'
      BY DEF InUse, Keeps
    <2>4. Cardinality({j \in InUse : j > k}) < PageLimit
      BY <2>1, <2>3, PageShrinks
    <2> QED BY <2>1, <2>2, <2>4 DEF Served
  <1> QED BY <1>1, <1>3, <1>4
-----------------------------------------------------------------------------
\* The script's own steps, and that no other step touches its file or its call.
LEMMA ScriptStep ==
  ASSUME TypeOK, TypeOK', CallersSound, ScriptSound, RevokedLeaves, KeysStay, [Next]_vars
  PROVE  ScriptSound' /\ RevokedLeaves' /\ KeysStay'
  <1> DEFINE Goal == ScriptSound' /\ RevokedLeaves' /\ KeysStay'
             Same == /\ call'[Script].active = call[Script].active
                     /\ call'[Script].gone = call[Script].gone
  <1>0. Keeps
    BY StepKeeps
  <1>a. Same => /\ Served' \subseteq Served
                /\ call'[Script].gone \subseteq Gone'
                /\ call'[Script].active \subseteq (Active \cup Gone)'
    BY <1>0, ServedShrinks
  <1>1. CASE file' = file /\ call'[Script] = call[Script]
    BY <1>0, <1>1, <1>a DEF Keeps, ScriptSound, RevokedLeaves, KeysStay
  <1>2. CASE call'[Script] = Idle
    BY <1>2 DEF Idle, ScriptSound, RevokedLeaves, KeysStay
  <1>3. ASSUME NEW p \in Caller, p # Script, Step(p) PROVE Goal
    <2>1. file' = file /\ call'[Script] = call[Script]
      BY <1>3, IdleType DEF Step, GenerateConfig, Generate, NextVersion, InsertRevision, GetLatest,
         Latest, ClearApplied, MarkApplied, Answer, Fail, Return, Move, Finish, TypeOK
    <2> QED BY <1>1, <2>1
  <1>4. CASE GenerateConfig(Script)
    <2> DEFINE listed == {k \in Newest(Active) : Kind[k] = "uuid"}
    <2>1. call'[Script].pc = "number" /\ Same /\ call'[Script].clients = listed
      <3>1. call' = [call EXCEPT ![Script] = [@ EXCEPT !.pc = "number", !.clients = listed]]
        BY <1>4, IdleType DEF GenerateConfig, Generate, TypeOK
      <3> HIDE DEF listed
      <3> QED BY <3>1, IdleType DEF TypeOK, Doing
    <2>2. Active \cap Gone = {}
      BY DEF Active, Gone
    <2>3. call'[Script].clients \cap call'[Script].gone = {}
      BY <2>1, <2>2, ListedActive DEF ScriptSound
    <2>4. Served \subseteq listed
      BY ServedListed
    <2> HIDE DEF listed
    <2>5. Served' \subseteq call'[Script].clients
      BY <1>a, <2>1, <2>4
    <2> QED BY <1>a, <2>1, <2>3, <2>5 DEF ScriptSound, RevokedLeaves, KeysStay
  <1>5. CASE NextVersion(Script)
    <2>1. call[Script].pc = "number"
      BY <1>5 DEF NextVersion
    <2>2. call'[Script].pc = "insert" /\ Same /\ call'[Script].clients = call[Script].clients
      BY <1>5, IdleType DEF NextVersion, TypeOK, Doing
    <2> QED BY <1>a, <2>1, <2>2 DEF ScriptSound, RevokedLeaves, KeysStay
  <1>6. CASE InsertRevision(Script)
    <2>1. CASE call' = [call EXCEPT ![Script] = Idle]
      BY <1>2, <2>1, IdleType DEF TypeOK
    <2>2. CASE call' = [call EXCEPT ![Script].pc = "write"]
      <3>1. call[Script].pc = "insert"
        BY <1>6 DEF InsertRevision
      <3>2. call'[Script].pc = "write" /\ Same /\ call'[Script].clients = call[Script].clients
        BY <2>2, IdleType DEF TypeOK, Doing
      <3> QED BY <1>a, <3>1, <3>2 DEF ScriptSound, RevokedLeaves, KeysStay
    <2> QED BY <1>6, <2>1, <2>2 DEF InsertRevision, Return, Move, Finish
  <1>7. CASE GetLatest(Script)
    <2>1. PICK v \in Version : Greatest(v, Revisions) /\ Latest(Script, v)
      BY <1>7 DEF GetLatest
    <2>2. /\ call[Script].pc = "latest" /\ file' = file
          /\ call'[Script].pc = "clear" /\ Same /\ call'[Script].version = v
      BY <2>1, IdleType DEF Latest, Calls, TypeOK, Doing
    <2>3. file.version <= v
      BY <2>1, <2>2 DEF Greatest, ScriptSound, Revisions
    <2> QED BY <1>a, <2>2, <2>3 DEF ScriptSound, RevokedLeaves, KeysStay
  <1>8. CASE ClearApplied(Script) \/ MarkApplied(Script)
    <2>1. /\ call[Script].pc \in {"clear", "mark"} /\ file' = file
          /\ call'[Script].pc \in {"mark", "online"} /\ Same
          /\ call'[Script].version = call[Script].version
      BY <1>8, IdleType DEF ClearApplied, MarkApplied, Move, TypeOK, Doing
    <2> QED BY <1>a, <2>1 DEF ScriptSound, RevokedLeaves, KeysStay
  <1>9. CASE Answer(Script) \/ Fail(Script)
    BY <1>2, <1>9, IdleType DEF Answer, Fail, Finish, TypeOK
  <1>10. CASE StartScript
    <2>1. call'[Script].pc = "generate" /\ call'[Script].active = Active
          /\ call'[Script].gone = Gone /\ key' = key
      BY <1>10, IdleType DEF StartScript, Idle, TypeOK
    <2>2. Active' = Active /\ Gone' = Gone
      BY <2>1 DEF Active, Gone
    <2> QED BY <2>1, <2>2 DEF ScriptSound, RevokedLeaves, KeysStay
  <1>11. CASE WriteConfig
    <2>1. /\ call[Script].pc = "write" /\ call'[Script].pc = "check" /\ Same
          /\ file'.version = call[Script].version /\ file'.clients = call[Script].clients
          /\ config' = config
      BY <1>11, IdleType DEF WriteConfig, Move, TypeOK, Doing
    <2>2. call[Script].version \in Version /\ config[call[Script].version] # NoConfig
      BY <2>1, IdleType DEF CallersSound, CallerSound
    <2> QED BY <1>a, <2>1, <2>2 DEF ScriptSound, RevokedLeaves, KeysStay
  <1>12. CASE CheckClients
    <2>1. CASE call' = [call EXCEPT ![Script] = Idle]
      BY <1>2, <2>1, IdleType DEF TypeOK
    <2>2. CASE call' # [call EXCEPT ![Script] = Idle]
      <3>1. /\ call[Script].pc = "check" /\ file' = file /\ config' = config
            /\ call' = [call EXCEPT ![Script] = [Idle EXCEPT !.pc = "latest",
                                                             !.active = call[Script].active,
                                                             !.gone = call[Script].gone]]
        BY <1>12, <2>2 DEF CheckClients, Finish
      <3>2. call'[Script] = [Idle EXCEPT !.pc = "latest", !.active = call[Script].active,
                                         !.gone = call[Script].gone]
        BY <3>1, IdleType DEF TypeOK
      <3>3. call'[Script].pc = "latest" /\ Same
        BY <3>2 DEF Idle
      <3> QED BY <1>a, <3>1, <3>3 DEF ScriptSound, RevokedLeaves, KeysStay
    <2> QED BY <2>1, <2>2
  <1>13. ASSUME NEW k \in Key, CreateAccessKey(k) \/ Withdraw(k) PROVE Goal
    BY <1>1, <1>13 DEF CreateAccessKey, Withdraw
  <1>14. CASE UNCHANGED vars
    BY <1>1, <1>14 DEF vars
  <1> QED BY <1>3, <1>4, <1>5, <1>6, <1>7, <1>8, <1>9, <1>10, <1>11, <1>12, <1>13, <1>14
          DEF Next, Step
-----------------------------------------------------------------------------
(***************************************************************************)
(* The theorems.                                                           *)
(***************************************************************************)
\* IInv is an inductive invariant of the specification.
THEOREM Invariance == Spec => []IInv
  <1>1. Init => IInv
    <2> SUFFICES ASSUME Init PROVE IInv
      OBVIOUS
    <2>1. TypeOK
      <3>1. 0 \in 0..MaxVersion
        BY VersionAssumption
      <3>2. file \in [version : 0..MaxVersion, clients : SUBSET Key]
        BY <3>1 DEF Init
      <3>3. config \in [Version -> (SUBSET Key) \cup {NoConfig}] /\ call \in [Caller -> Doing]
        BY IdleType DEF Init
      <3>4. key \in [Key -> {"absent", "active", "gone"}]
        BY DEF Init
      <3> QED BY <3>1, <3>2, <3>3, <3>4 DEF Init, TypeOK
    <2>2. Dense /\ PointedIsMarked
      BY DEF Init, Dense, PointedIsMarked
    <2>3. CallersSound
      BY DEF Init, CallersSound, CallerSound, Idle
    <2>4. ScriptSound /\ RevokedLeaves /\ KeysStay
      BY IdleType DEF Init, ScriptSound, RevokedLeaves, KeysStay, Idle
    <2> QED BY <2>1, <2>2, <2>3, <2>4 DEF IInv
  <1>2. IInv /\ [Next]_vars => IInv'
    BY TypeStep, DenseStep, CallersStep, ScriptStep, PointedStep DEF IInv
  <1> QED BY <1>1, <1>2, PTL DEF Spec

\* Every reachable state is well typed; in particular the revision node_runtimes
\* points at is a number a revision can have.
THEOREM TypeCorrect == Spec => []TypeOK
  BY Invariance, PTL DEF IInv

\* However applies overlap, node_runtimes points at a revision that exists and
\* is marked, and no older revision is marked beside it.
THEOREM AppliedRevision == Spec => []PointedIsMarked
  BY Invariance, PTL DEF IInv

\* A bootstrap never leaves behind a client whose key was revoked before it began.
THEOREM RevocationTakesEffect == Spec => []RevokedLeaves
  BY Invariance, PTL DEF IInv

\* The apply of a bootstrap marks the revision it has deployed or a newer one.
THEOREM ScriptNeverOlder == Spec => ScriptAppliesNewer
  <1> DEFINE A == call[Script].pc = "mark" /\ call'[Script].pc = "online" => pointed' >= file.version
  <1>1. IInv /\ [Next]_vars => A \/ UNCHANGED vars
    <2> SUFFICES ASSUME IInv, [Next]_vars, call[Script].pc = "mark", call'[Script].pc = "online"
                 PROVE  pointed' >= file.version
      OBVIOUS
    <2>1. ASSUME NEW p \in Caller, Step(p), p # Script PROVE call'[Script] = call[Script]
      BY <2>1, IdleType DEF Step, GenerateConfig, Generate, NextVersion, InsertRevision, GetLatest,
         Latest, ClearApplied, MarkApplied, Answer, Fail, Return, Move, Finish, IInv, TypeOK
    <2>2. ~(StartScript \/ WriteConfig \/ CheckClients)
      BY DEF StartScript, WriteConfig, CheckClients
    <2>3. ~(\E k \in Key : CreateAccessKey(k) \/ Withdraw(k)) /\ ~UNCHANGED vars
      BY DEF CreateAccessKey, Withdraw, vars
    <2>4. Step(Script)
      BY <2>1, <2>2, <2>3 DEF Next
    <2>5. MarkApplied(Script)
      BY <2>4, IdleType DEF Step, GenerateConfig, Generate, NextVersion, InsertRevision, GetLatest,
         Latest, ClearApplied, Answer, Fail, Finish, Calls, Idle, IInv, TypeOK
    <2>6. call[Script].version \in Nat /\ file.version \in Nat
      BY IdleType, VersionAssumption DEF IInv, TypeOK, Doing
    <2> QED BY <2>5, <2>6 DEF MarkApplied, IInv, ScriptSound
  <1>2. ScriptAppliesNewer <=> [][A]_vars
    BY DEF ScriptAppliesNewer
  <1> QED BY <1>1, <1>2, Invariance, PTL DEF Spec

\* A key that is active throughout a bootstrap is a client of what it leaves
\* behind, unless newer keys in use fill the page.
THEOREM ActiveKeysStay == Spec => []KeysStay
  BY Invariance, PTL DEF IInv
-----------------------------------------------------------------------------
(***************************************************************************)
(* The refinement of RevisionLog.                                          *)
(***************************************************************************)
\* The revision an InsertRevision adds is the next one of the log.
LEMMA InsertAppends ==
  ASSUME IInv, NEW p \in Caller, InsertRevision(p)
  PROVE  [Log!Next]_(Log!logVars)
  <1> USE DEF IInv, TypeOK
  <1>1. CASE config' = config
    BY <1>1 DEF InsertRevision, Log!logVars, Revisions
  <1>2. CASE config' # config
    <2>1. PICK v \in Version, c \in SUBSET Key :
            /\ config[v] = NoConfig /\ c # NoConfig
            /\ \A w \in Version : w < v => config[w] # NoConfig
            /\ config' = [config EXCEPT ![v] = c]
      BY <1>2, InsertEffect DEF Doing
    <2>2. pointed' = pointed
      BY DEF InsertRevision
    <2>3. Revisions = 1 .. (v - 1)
      <3>1. \A w \in Version : config[w] # NoConfig => w < v
        BY <2>1, VersionType DEF Dense
      <3>2. \A w \in 1 .. (v - 1) : w \in Version /\ w < v
        BY <2>1, VersionAssumption DEF Version
      <3> QED BY <2>1, <3>1, <3>2, VersionType DEF Revisions, Version
    <2>4. Revisions' = 1..v
      <3>1. Revisions' = Revisions \cup {v}
        BY <2>1 DEF Revisions
      <3> QED BY <2>1, <2>3, <3>1, VersionType
    <2>5. [w \in Revisions |-> config[w]]' =
            [w \in 1..v |-> IF w = v THEN c ELSE [u \in Revisions |-> config[u]][w]]
      <3>1. \A w \in 1..v : w # v => w \in Revisions
        BY <2>1, <2>3, VersionType
      <3>2. \A w \in 1..v : w \in Version
        BY <2>1, VersionAssumption DEF Version
      <3>3. \A w \in 1..v : config'[w] = IF w = v THEN c ELSE [u \in Revisions |-> config[u]][w]
        BY <2>1, <3>1, <3>2
      <3> QED BY <2>4, <3>3
    <2>6. Log!Append(v, c)
      BY <2>2, <2>3, <2>5 DEF Log!Append
    <2> QED BY <2>6 DEF Log!Next
  <1> QED BY <1>1, <1>2

LEMMA LogStep ==
  ASSUME IInv, [Next]_vars
  PROVE  [Log!Next]_(Log!logVars)
  <1>1. ASSUME NEW p \in Caller, MarkApplied(p) PROVE [Log!Next]_(Log!logVars)
    <2> DEFINE v == call[p].version
    <2>1. v \in Version /\ v \in Revisions /\ pointed' = v
      BY <1>1 DEF IInv, MarkApplied, CallersSound, CallerSound, Revisions
    <2>2. config' = config /\ Revisions' = Revisions
      BY <1>1 DEF MarkApplied, Revisions
    <2>3. [w \in Revisions |-> config[w]]' = [w \in Revisions |-> config[w]]
      BY <2>2
    <2>4. Log!Apply(v)
      BY <2>1, <2>3 DEF Log!Apply
    <2> QED BY <2>1, <2>4 DEF Log!Next
  <1>2. CASE UNCHANGED <<config, pointed>>
    BY <1>2 DEF Log!logVars, Revisions
  <1>3. \/ UNCHANGED <<config, pointed>>
        \/ \E p \in Caller : MarkApplied(p) \/ InsertRevision(p)
    BY DEF Next, Step, GenerateConfig, Generate, NextVersion, GetLatest, Latest, ClearApplied,
           Answer, Fail, CreateAccessKey, Withdraw, StartScript, WriteConfig, CheckClients, vars
  <1> QED BY <1>1, <1>2, <1>3, InsertAppends

\* The statements of overlapping GETs and applies add up to a log that is only
\* appended to, and to pointing at its entries.
THEOREM LogRefinement == Spec => ImplementsLog
  <1>1. Init => Log!Init
    <2> SUFFICES ASSUME Init PROVE Log!Init
      OBVIOUS
    <2>1. Revisions = {} /\ pointed = 0
      BY DEF Init, Revisions
    <2> QED BY <2>1 DEF Log!Init
  <1>2. IInv /\ [Next]_vars => [Log!Next]_(Log!logVars)
    BY LogStep
  <1> QED BY <1>1, <1>2, Invariance, PTL DEF Spec, ImplementsLog, Log!Spec
=============================================================================
