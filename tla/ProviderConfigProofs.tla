------------------------ MODULE ProviderConfigProofs ------------------------
(***************************************************************************)
(* Proofs about ProviderConfigSystem.  The inductive invariant is Safe:    *)
(* typing and ResolvedExists carry each other, the properties of usages    *)
(* and of Secrets rest on both, and the action property on ListCoversUse.  *)
(* The second part proves that it implements UsageProtection: its initial  *)
(* states are initial states of the promise, and each of its steps is a    *)
(* step of the promise or leaves what the promise speaks of alone.  Every  *)
(* write to a ProviderConfig is Becomes (WriteBecomes); the steps that     *)
(* only touch memory, references, Secrets or managed resources are         *)
(* stutters.                                                               *)
(***************************************************************************)
EXTENDS ProviderConfigSystem, TLAPS

(* The usage of nothing is not the usage of a ProviderConfig.              *)
LEMMA NoneIsNoConfig == None \notin Configs
BY ConfigsAssumption DEF None, NoRef, AllConfigs, LegacyKind, ClusterKind, LocalKind

(* The Secret a managed resource reads is a Secret or none at all.         *)
LEMMA SecretOfType ==
    ASSUME NEW m \in MRs, NEW ref \in Refs, NEW loc \in Locations
    PROVE  SecretOf(m, ConfigOf(m, ref), loc) \in Locations
<1>1. CASE ConfigOf(m, ref).kind = LocalKind /\ loc # NoSecretRef
  <2>1. m \in MRs \ LegacyMRs
    BY <1>1 DEF ConfigOf, LegacyKind, LocalKind
  <2>2. NamespaceOf[m] \in Namespaces
    BY <2>1, ScopeAssumption
  <2>3. loc \in Secrets
    BY <1>1 DEF Locations
  <2> QED
    BY <1>1, <2>2, <2>3 DEF SecretOf, Secrets, Locations
<1>2. CASE ~(ConfigOf(m, ref).kind = LocalKind /\ loc # NoSecretRef)
  BY <1>2 DEF SecretOf
<1> QED
  BY <1>1, <1>2

(* In a namespaced ProviderConfig's namespace, that is.                    *)
LEMMA SecretOfNamespace ==
    ASSUME NEW m \in MRs, NEW ref \in Refs, NEW loc \in Locations,
           ConfigOf(m, ref).kind = LocalKind,
           loc # NoSecretRef
    PROVE  SecretOf(m, ConfigOf(m, ref), loc).ns = ConfigOf(m, ref).ns
<1>1. m \notin LegacyMRs
  BY DEF ConfigOf, LegacyKind, LocalKind
<1>2. loc \in Secrets
  BY DEF Locations
<1> QED
  BY <1>1, <1>2 DEF SecretOf, ConfigOf, Secrets

-----------------------------------------------------------------------------
(* The empty records are of their types.                                   *)
LEMMA IdleTypes ==
    /\ IdleConn \in ConnType
    /\ AbsentConfig \in ConfigType
    /\ IdleRec \in RecType
BY DEF IdleConn, AbsentConfig, IdleRec, ConnType, ConfigType, RecType, Setups,
       Lives, Refs, Locations

-----------------------------------------------------------------------------
LEMMA InitSafe == Init => Safe
<1> SUFFICES ASSUME Init PROVE Safe
  OBVIOUS
<1>1. TypeOK
  <2>1. /\ mr \in [MRs -> [life : Lives, ref : Refs]]
        /\ store \in [Secrets -> Contents]
        /\ edits \in 0..MaxEdits
        /\ faults \in 0..MaxFaults
    BY BoundsAssumption DEF Init, Lives, Contents
  <2>2. pc \in [Configs -> ConfigType]
    BY IdleTypes DEF Init, ConfigType
  <2>3. /\ usage \in [MRs -> Usages]
        /\ cache \in [MRs -> Usages]
    BY DEF Init, Usages
  <2>4. /\ conn \in [MRs -> ConnType]
        /\ rec \in [Configs -> RecType]
    BY IdleTypes DEF Init
  <2> QED
    BY <2>1, <2>2, <2>3, <2>4 DEF TypeOK
<1>2. ResolvedExists /\ UsedIsTracked /\ SecretConfined
  BY DEF Init, IdleConn, ResolvedExists, UsedIsTracked, SecretConfined
<1>3. ManagedIsCounted
  BY DEF Init, ManagedIsCounted
<1>4. ListCoversUse
  BY DEF Init, IdleRec, ListCoversUse
<1> QED
  BY <1>1, <1>2, <1>3, <1>4 DEF Safe

-----------------------------------------------------------------------------
(* Typing is kept by every step of a connect call.                         *)
LEMMA ConnectTyped ==
    ASSUME TypeOK, ResolvedExists, NEW m \in MRs, Connect(m) \/ ConnectFails(m)
    PROVE  TypeOK' /\ ResolvedExists'
<1>1. CASE StartConnect(m)
  <2>1. conn'[m] \in ConnType
    BY <1>1, IdleTypes DEF TypeOK, StartConnect, ConnType, IdleConn, Setups
  <2>2. conn' \in [MRs -> ConnType]
    BY <1>1, <2>1 DEF StartConnect, TypeOK
  <2>3. ResolvedExists'
    BY <1>1 DEF StartConnect, ResolvedExists, Resolved, IdleConn, TypeOK
  <2> QED
    BY <1>1, <2>2, <2>3 DEF StartConnect, TypeOK
<1>2. CASE GetConfig(m)
  <2>1. CASE Found(m)
    <3>1. SecretOf(m, Resolved(m), pc[Resolved(m)].loc) \in Locations
      BY <2>1, SecretOfType DEF Found, Resolved, TypeOK, ConnType, ConfigType
    <3>2. conn' \in [MRs -> ConnType]
      BY <1>2, <2>1, <3>1 DEF GetConfig, TypeOK, ConnType
    <3>3. ResolvedExists'
      BY <1>2, <2>1 DEF GetConfig, Found, ResolvedExists, Resolved, TypeOK, ConnType
    <3> QED
      BY <1>2, <3>2, <3>3 DEF GetConfig, TypeOK
  <2>2. CASE ~Found(m)
    <3>1. conn' \in [MRs -> ConnType]
      BY <1>2, <2>2, IdleTypes DEF GetConfig, TypeOK
    <3>2. ResolvedExists'
      BY <1>2, <2>2 DEF GetConfig, ResolvedExists, Resolved, IdleConn, TypeOK
    <3> QED
      BY <1>2, <3>1, <3>2 DEF GetConfig, TypeOK
  <2> QED
    BY <2>1, <2>2
<1>3. CASE Track(m)
  <2>1. Resolved(m) \in Configs
    BY <1>3 DEF Track, ResolvedExists
  <2>2. usage' \in [MRs -> Usages]
    BY <1>3, <2>1 DEF Track, TrackedUsage, TypeOK, Usages
  <2>3. rec' \in [Configs -> RecType]
    <3> SUFFICES ASSUME NEW c \in Configs PROVE rec'[c] \in RecType
      BY <1>3 DEF Track
    <3> QED
      BY <1>3 DEF Track, TypeOK, RecType
  <2>4. conn' \in [MRs -> ConnType]
    BY <1>3 DEF Track, TypeOK, ConnType
  <2>5. ResolvedExists'
    BY <1>3 DEF Track, ResolvedExists, Resolved, TypeOK, ConnType
  <2> QED
    BY <1>3, <2>2, <2>3, <2>4, <2>5 DEF Track, TypeOK
<1>4. CASE ExtractCredentials(m)
  <2>1. CASE Extractable(conn[m].loc)
    <3>1. Forwarded(Document[store[conn[m].loc]]) \in Setups
      BY <2>1 DEF Extractable, Setups
    <3>2. conn' \in [MRs -> ConnType]
      BY <1>4, <2>1, <3>1 DEF ExtractCredentials, TypeOK, ConnType
    <3>3. ResolvedExists'
      BY <1>4, <2>1 DEF ExtractCredentials, ResolvedExists, Resolved, TypeOK, ConnType
    <3> QED
      BY <1>4, <3>2, <3>3 DEF ExtractCredentials, TypeOK
  <2>2. CASE ~Extractable(conn[m].loc)
    <3>1. conn' \in [MRs -> ConnType]
      BY <1>4, <2>2, IdleTypes DEF ExtractCredentials, TypeOK
    <3>2. ResolvedExists'
      BY <1>4, <2>2 DEF ExtractCredentials, ResolvedExists, Resolved, IdleConn, TypeOK
    <3> QED
      BY <1>4, <3>1, <3>2 DEF ExtractCredentials, TypeOK
  <2> QED
    BY <2>1, <2>2
<1>5. CASE Operate(m)
  <2>1. mr' \in [MRs -> [life : Lives, ref : Refs]]
    BY <1>5 DEF Operate, TypeOK, Lives
  <2>2. conn' \in [MRs -> ConnType]
    BY <1>5, IdleTypes DEF Operate, TypeOK
  <2>3. ResolvedExists'
    BY <1>5 DEF Operate, ResolvedExists, Resolved, IdleConn, TypeOK
  <2> QED
    BY <1>5, <2>1, <2>2, <2>3 DEF Operate, TypeOK
<1>6. CASE ConnectFails(m)
  <2>1. conn' \in [MRs -> ConnType]
    BY <1>6, IdleTypes DEF ConnectFails, TypeOK
  <2>2. ResolvedExists'
    BY <1>6 DEF ConnectFails, ResolvedExists, Resolved, IdleConn, TypeOK
  <2>3. faults' \in 0..MaxFaults
    BY <1>6, BoundsAssumption DEF ConnectFails, TypeOK
  <2> QED
    BY <1>6, <2>1, <2>2, <2>3 DEF ConnectFails, TypeOK
<1> QED
  BY <1>1, <1>2, <1>3, <1>4, <1>5, <1>6 DEF Connect

(* And by every other step: those of the reconcilers, of users and of      *)
(* Kubernetes leave what a connect call has resolved alone.                *)
LEMMA ReconcileTyped ==
    ASSUME TypeOK, ResolvedExists, NEW c \in Configs, Reconcile(c)
    PROVE  TypeOK' /\ ResolvedExists'
<1>1. CASE ListUsages(c)
  <2>1. rec' \in [Configs -> RecType]
    BY <1>1 DEF ListUsages, Listed, UsersOf, TypeOK, RecType
  <2> QED
    BY <1>1, <2>1 DEF ListUsages, TypeOK, ResolvedExists, Resolved
<1>2. CASE SettleConfig(c)
  <2>1. Settled(c) \in ConfigType
    BY IdleTypes DEF Settled, TypeOK, ConfigType, RecType
  <2>2. pc' \in [Configs -> ConfigType]
    BY <1>2, <2>1 DEF SettleConfig, TypeOK
  <2>3. rec' \in [Configs -> RecType]
    BY <1>2, IdleTypes DEF SettleConfig, TypeOK
  <2> QED
    BY <1>2, <2>2, <2>3 DEF SettleConfig, TypeOK, ResolvedExists, Resolved
<1> QED
  BY <1>1, <1>2 DEF Reconcile

LEMMA WriteTyped ==
    ASSUME TypeOK, NEW c \in Configs, NEW object \in ConfigType, WriteConfig(c, object)
    PROVE  pc' \in [Configs -> ConfigType] /\ rec' \in [Configs -> RecType]
BY DEF WriteConfig, TypeOK, RecType

LEMMA UsersTyped ==
    ASSUME TypeOK, ResolvedExists, Users
    PROVE  TypeOK' /\ ResolvedExists'
<1>1. CASE \E c \in Configs, loc \in Locations : CreateConfig(c, loc)
  <2>1. PICK c \in Configs, loc \in Locations : CreateConfig(c, loc)
    BY <1>1
  <2>2. [AbsentConfig EXCEPT !.life = "live", !.loc = loc] \in ConfigType
    BY DEF AbsentConfig, ConfigType
  <2>3. pc' \in [Configs -> ConfigType] /\ rec' \in [Configs -> RecType]
    BY <2>1, <2>2, WriteTyped DEF CreateConfig
  <2>4. edits' \in 0..MaxEdits
    BY <2>1, BoundsAssumption DEF CreateConfig, Edit, TypeOK
  <2> QED
    BY <2>1, <2>3, <2>4 DEF CreateConfig, TypeOK, ResolvedExists, Resolved
<1>2. CASE \E c \in Configs, loc \in Locations : EditConfig(c, loc)
  <2>1. PICK c \in Configs, loc \in Locations : EditConfig(c, loc)
    BY <1>2
  <2>2. [pc[c] EXCEPT !.loc = loc] \in ConfigType
    BY DEF TypeOK, ConfigType
  <2>3. pc' \in [Configs -> ConfigType] /\ rec' \in [Configs -> RecType]
    BY <2>1, <2>2, WriteTyped DEF EditConfig
  <2>4. edits' \in 0..MaxEdits
    BY <2>1, BoundsAssumption DEF EditConfig, Edit, TypeOK
  <2> QED
    BY <2>1, <2>3, <2>4 DEF EditConfig, TypeOK, ResolvedExists, Resolved
<1>3. CASE \E c \in Configs : DeleteConfig(c)
  <2>1. PICK c \in Configs : DeleteConfig(c)
    BY <1>3
  <2>2. (IF pc[c].finalizer THEN [pc[c] EXCEPT !.life = "terminating"]
                            ELSE AbsentConfig) \in ConfigType
    BY IdleTypes DEF TypeOK, ConfigType
  <2>3. pc' \in [Configs -> ConfigType] /\ rec' \in [Configs -> RecType]
    BY <2>1, <2>2, WriteTyped DEF DeleteConfig
  <2>4. edits' \in 0..MaxEdits
    BY <2>1, BoundsAssumption DEF DeleteConfig, Edit, TypeOK
  <2> QED
    BY <2>1, <2>3, <2>4 DEF DeleteConfig, TypeOK, ResolvedExists, Resolved
<1>4. CASE \E m \in MRs : DeleteMR(m) \/ \E ref \in RefsOf(m) : EditRef(m, ref)
  <2>1. mr' \in [MRs -> [life : Lives, ref : Refs]]
    BY <1>4 DEF DeleteMR, EditRef, RefsOf, TypeOK, Lives
  <2>2. edits' \in 0..MaxEdits
    BY <1>4, BoundsAssumption DEF DeleteMR, EditRef, Edit, TypeOK
  <2> QED
    BY <1>4, <2>1, <2>2 DEF DeleteMR, EditRef, TypeOK, ResolvedExists, Resolved
<1>5. CASE \E s \in Secrets, content \in Contents : RotateSecret(s, content)
  BY <1>5, BoundsAssumption DEF RotateSecret, Edit, TypeOK, ResolvedExists, Resolved
<1> QED
  BY <1>1, <1>2, <1>3, <1>4, <1>5 DEF Users

LEMMA ClusterTyped ==
    ASSUME TypeOK, ResolvedExists,
           (\E m \in MRs : CollectUsage(m) \/ DeliverUsage(m)) \/ Crash
    PROVE  TypeOK' /\ ResolvedExists'
<1>1. CASE \E m \in MRs : CollectUsage(m)
  BY <1>1 DEF CollectUsage, TypeOK, Usages, ResolvedExists, Resolved
<1>2. CASE \E m \in MRs : DeliverUsage(m)
  BY <1>2 DEF DeliverUsage, TypeOK, ResolvedExists, Resolved
<1>3. CASE Crash
  <2>1. conn' \in [MRs -> ConnType] /\ rec' \in [Configs -> RecType]
    BY <1>3, IdleTypes DEF Crash
  <2>2. faults' \in 0..MaxFaults
    BY <1>3, BoundsAssumption DEF Crash, TypeOK
  <2>3. ResolvedExists'
    BY <1>3 DEF Crash, ResolvedExists, IdleConn
  <2> QED
    BY <1>3, <2>1, <2>2, <2>3 DEF Crash, TypeOK
<1> QED
  BY <1>1, <1>2, <1>3

LEMMA StepTyped ==
    ASSUME TypeOK, ResolvedExists, [Next]_vars
    PROVE  TypeOK' /\ ResolvedExists'
<1>1. CASE UNCHANGED vars
  BY <1>1 DEF vars, TypeOK, ResolvedExists, Resolved
<1>2. CASE Next
  BY <1>2, ConnectTyped, ReconcileTyped, UsersTyped, ClusterTyped DEF Next
<1> QED
  BY <1>1, <1>2

(* Every reachable state is well typed, for any set of managed resources,  *)
(* ProviderConfigs, Secrets and any bounds.                                *)
THEOREM TypeCorrect == Spec => []TypeOK
<1>1. Init => TypeOK /\ ResolvedExists
  BY InitSafe DEF Safe
<1>2. TypeOK /\ ResolvedExists /\ [Next]_vars => TypeOK' /\ ResolvedExists'
  BY StepTyped
<1> QED
  BY <1>1, <1>2, PTL DEF Spec

-----------------------------------------------------------------------------
(* Usages.  A step changes what UsedIsTracked and ManagedIsCounted speak   *)
(* of only by a connect call, an edit or deletion of a managed resource,   *)
(* the collection of a usage or a restart.                                 *)
LEMMA ConnectCounted ==
    ASSUME Safe, NEW m \in MRs, Connect(m) \/ ConnectFails(m)
    PROVE  UsedIsTracked' /\ ManagedIsCounted'
<1> USE DEF Safe
<1>1. CASE StartConnect(m)
  <2>1. conn'[m].phase = "started" /\ \A n \in MRs : n # m => conn'[n] = conn[n]
    BY <1>1 DEF StartConnect, IdleConn, TypeOK
  <2> QED
    BY <1>1, <2>1 DEF StartConnect, UsedIsTracked, ManagedIsCounted, Resolved
<1>6. CASE ConnectFails(m)
  <2>1. conn'[m].phase = "idle" /\ \A n \in MRs : n # m => conn'[n] = conn[n]
    BY <1>6 DEF ConnectFails, IdleConn, TypeOK
  <2> QED
    BY <1>6, <2>1 DEF ConnectFails, UsedIsTracked, ManagedIsCounted, Resolved
<1>2. CASE GetConfig(m)
  BY <1>2 DEF GetConfig, IdleConn, TypeOK, ConnType, UsedIsTracked,
              ManagedIsCounted, Resolved
<1>3. CASE Track(m)
  <2>1. Resolved(m) \in Configs
    BY <1>3 DEF Track, ResolvedExists
  <2>2. UsedIsTracked'
    BY <1>3 DEF Track, TrackedUsage, TypeOK, ConnType, UsedIsTracked, Resolved
  <2>3. ManagedIsCounted'
    BY <1>3, <2>1, NoneIsNoConfig DEF Track, TrackedUsage, TypeOK, ManagedIsCounted
  <2> QED
    BY <2>2, <2>3
<1>4. CASE ExtractCredentials(m)
  BY <1>4 DEF ExtractCredentials, IdleConn, TypeOK, ConnType, UsedIsTracked,
              ManagedIsCounted, Resolved
<1>5. CASE Operate(m)
  <2>1. UsedIsTracked'
    BY <1>5 DEF Operate, IdleConn, TypeOK, UsedIsTracked, Resolved
  <2>2. mr[m].life # "gone" => usage[m] # None
    BY <1>5, NoneIsNoConfig DEF Operate, UsedIsTracked, ResolvedExists
  <2>3. ManagedIsCounted'
    BY <1>5, <2>2 DEF Operate, TypeOK, Lives, ManagedIsCounted
  <2> QED
    BY <2>1, <2>3
<1> QED
  BY <1>1, <1>2, <1>3, <1>4, <1>5, <1>6 DEF Connect

LEMMA StepCounted ==
    ASSUME Safe, [Next]_vars
    PROVE  UsedIsTracked' /\ ManagedIsCounted'
<1>1. CASE UNCHANGED <<mr, usage, conn>>
  BY <1>1 DEF Safe, UsedIsTracked, ManagedIsCounted, Resolved
<1>2. CASE \E m \in MRs : Connect(m) \/ ConnectFails(m)
  BY <1>2, ConnectCounted
<1>3. CASE \E m \in MRs : CollectUsage(m)
  BY <1>3 DEF CollectUsage, Safe, TypeOK, UsedIsTracked, ManagedIsCounted, Resolved
<1>4. CASE \E m \in MRs : DeleteMR(m) \/ \E ref \in RefsOf(m) : EditRef(m, ref)
  BY <1>4 DEF DeleteMR, EditRef, Safe, TypeOK, Lives, UsedIsTracked,
              ManagedIsCounted, Resolved
<1>5. CASE Crash
  BY <1>5 DEF Crash, IdleConn, Safe, UsedIsTracked, ManagedIsCounted
<1>6. CASE \E m \in MRs : DeliverUsage(m)
  BY <1>1, <1>6 DEF DeliverUsage
<1>7. CASE \E c \in Configs : Reconcile(c)
  BY <1>1, <1>7 DEF Reconcile, ListUsages, SettleConfig
<1>8. CASE Users
  BY <1>1, <1>4, <1>8 DEF Users, CreateConfig, EditConfig, DeleteConfig, RotateSecret
<1> QED
  BY <1>1, <1>2, <1>3, <1>5, <1>6, <1>7, <1>8 DEF Next, vars

-----------------------------------------------------------------------------
(* Secrets: only GetConfig chooses one.                                    *)
LEMMA StepConfined ==
    ASSUME Safe, [Next]_vars
    PROVE  SecretConfined'
<1>1. CASE UNCHANGED conn
  BY <1>1 DEF Safe, SecretConfined, Resolved
<1>2. CASE \E m \in MRs : StartConnect(m) \/ ConnectFails(m)
  <2>1. PICK m \in MRs : StartConnect(m) \/ ConnectFails(m)
    BY <1>2
  <2>2. conn'[m].loc = NoSecretRef
    BY <2>1 DEF StartConnect, ConnectFails, IdleConn, Safe, TypeOK
  <2>3. \A n \in MRs : n # m => conn'[n] = conn[n]
    BY <2>1 DEF StartConnect, ConnectFails, Safe, TypeOK
  <2> QED
    BY <2>2, <2>3 DEF Safe, SecretConfined, Resolved
<1>3. CASE \E m \in MRs : GetConfig(m)
  <2>1. PICK m \in MRs : GetConfig(m)
    BY <1>3
  <2>2. CASE Found(m)
    <3> DEFINE loc == pc[Resolved(m)].loc
    <3>1. loc \in Locations /\ conn[m].ref \in Refs
      BY <2>2 DEF Found, Safe, TypeOK, ConfigType, ConnType
    <3>2. Resolved(m).kind = LocalKind
             => \/ SecretOf(m, Resolved(m), loc) = NoSecretRef
                \/ SecretOf(m, Resolved(m), loc).ns = Resolved(m).ns
      <4>1. CASE loc = NoSecretRef
        BY <4>1 DEF SecretOf
      <4>2. CASE loc # NoSecretRef
        BY <3>1, <4>2, SecretOfNamespace DEF Resolved
      <4> QED
        BY <4>1, <4>2
    <3>3. conn'[m].loc = SecretOf(m, Resolved(m), loc) /\ conn'[m].ref = conn[m].ref
      BY <2>1, <2>2 DEF GetConfig, Safe, TypeOK, ConnType
    <3>4. \A n \in MRs : n # m => conn'[n] = conn[n]
      BY <2>1 DEF GetConfig, Safe, TypeOK
    <3> QED
      BY <3>2, <3>3, <3>4 DEF Safe, SecretConfined, Resolved
  <2>3. CASE ~Found(m)
    BY <2>1, <2>3 DEF GetConfig, IdleConn, Safe, TypeOK, SecretConfined, Resolved
  <2> QED
    BY <2>2, <2>3
<1>4. CASE \E m \in MRs : Track(m) \/ ExtractCredentials(m)
  <2>1. PICK m \in MRs : Track(m) \/ ExtractCredentials(m)
    BY <1>4
  <2>2. /\ conn[m].phase # "idle"
        /\ \/ conn'[m] = IdleConn
           \/ conn'[m].loc = conn[m].loc /\ conn'[m].ref = conn[m].ref
        /\ \A n \in MRs : n # m => conn'[n] = conn[n]
    <3>1. CASE Track(m)
      BY <3>1 DEF Track, Safe, TypeOK, ConnType
    <3>2. CASE ExtractCredentials(m) /\ Extractable(conn[m].loc)
      BY <3>2 DEF ExtractCredentials, Safe, TypeOK, ConnType
    <3>3. CASE ExtractCredentials(m) /\ ~Extractable(conn[m].loc)
      BY <3>3 DEF ExtractCredentials, Safe, TypeOK
    <3> QED
      BY <2>1, <3>1, <3>2, <3>3
  <2>3. SUFFICES ASSUME NEW n \in MRs, conn'[n].phase # "idle", Resolved(n)'.kind = LocalKind
                 PROVE  conn'[n].loc = NoSecretRef \/ conn'[n].loc.ns = Resolved(n)'.ns
    BY DEF SecretConfined
  <2>4. conn[n].phase # "idle" /\ conn'[n].loc = conn[n].loc /\ conn'[n].ref = conn[n].ref
    <3>1. CASE n = m
      BY <2>2, <2>3, <3>1 DEF IdleConn
    <3>2. CASE n # m
      BY <2>2, <2>3, <3>2
    <3> QED
      BY <3>1, <3>2
  <2> QED
    BY <2>3, <2>4 DEF Safe, SecretConfined, Resolved
<1>5. CASE \E m \in MRs : Operate(m)
  BY <1>5 DEF Operate, IdleConn, Safe, TypeOK, SecretConfined, Resolved
<1>6. CASE Crash
  BY <1>6 DEF Crash, IdleConn, SecretConfined
<1>7. CASE \E m \in MRs : CollectUsage(m) \/ DeliverUsage(m)
  BY <1>1, <1>7 DEF CollectUsage, DeliverUsage
<1>8. CASE \E c \in Configs : Reconcile(c)
  BY <1>1, <1>8 DEF Reconcile, ListUsages, SettleConfig
<1>9. CASE Users
  BY <1>1, <1>9 DEF Users, CreateConfig, EditConfig, DeleteConfig, DeleteMR,
                    EditRef, RotateSecret
<1> QED
  BY <1>1, <1>2, <1>3, <1>4, <1>5, <1>6, <1>7, <1>8, <1>9 DEF Next, Connect, vars

-----------------------------------------------------------------------------
(* The list of a reconcile in flight.                                      *)
LEMMA StepCovered ==
    ASSUME Safe, [Next]_vars
    PROVE  ListCoversUse'
<1> USE DEF Safe, ListCoversUse, UsersOf
<1>1. CASE UNCHANGED <<usage, rec>>
  BY <1>1
<1>2. CASE \E m \in MRs : Track(m)
  <2>1. PICK m \in MRs : Track(m)
    BY <1>2
  <2>2. SUFFICES ASSUME NEW c \in Configs, rec'[c].phase = "listed",
                        NEW n \in MRs, usage'[n] = c
                 PROVE  n \in rec'[c].users \cup rec'[c].missed
    OBVIOUS
  <2>3. rec[c].phase = "listed" /\ rec'[c].users = rec[c].users
           /\ rec[c].missed \subseteq rec'[c].missed
    BY <2>1, <2>2 DEF Track, TypeOK, RecType
  <2>4. CASE usage[n] = c
    BY <2>2, <2>3, <2>4
  <2>5. CASE usage[n] # c
    <3>1. n = m /\ c = Resolved(m)
      BY <2>1, <2>2, <2>5 DEF Track, TrackedUsage, TypeOK
    <3> QED
      BY <2>1, <2>3, <2>5, <3>1 DEF Track, TypeOK, RecType
  <2> QED
    BY <2>4, <2>5
<1>3. CASE \E m \in MRs : CollectUsage(m)
  BY <1>3, NoneIsNoConfig DEF CollectUsage, TypeOK
<1>4. CASE \E c \in Configs : ListUsages(c)
  BY <1>4 DEF ListUsages, Listed, TypeOK
<1>5. CASE \E c \in Configs : SettleConfig(c)
  BY <1>5 DEF SettleConfig, IdleRec, TypeOK
<1>6. CASE Crash
  BY <1>6 DEF Crash, IdleRec
<1>8. CASE \E m \in MRs : \/ StartConnect(m) \/ GetConfig(m) \/ ExtractCredentials(m)
                         \/ Operate(m) \/ ConnectFails(m) \/ DeliverUsage(m)
  BY <1>1, <1>8 DEF StartConnect, GetConfig, ExtractCredentials, Operate,
                    ConnectFails, DeliverUsage
<1>9. CASE Users
  <2>1. CASE \E c \in Configs, loc \in Locations : CreateConfig(c, loc)
    BY <2>1 DEF CreateConfig, WriteConfig, TypeOK, RecType
  <2>2. CASE \E c \in Configs, loc \in Locations : EditConfig(c, loc)
    BY <2>2 DEF EditConfig, WriteConfig, TypeOK, RecType
  <2>3. CASE \E c \in Configs : DeleteConfig(c)
    BY <2>3 DEF DeleteConfig, WriteConfig, TypeOK, RecType
  <2>4. CASE \/ \E m \in MRs : DeleteMR(m) \/ \E ref \in RefsOf(m) : EditRef(m, ref)
             \/ \E s \in Secrets, content \in Contents : RotateSecret(s, content)
    BY <1>1, <2>4 DEF DeleteMR, EditRef, RotateSecret
  <2> QED
    BY <1>9, <2>1, <2>2, <2>3, <2>4 DEF Users
<1> QED
  BY <1>1, <1>2, <1>3, <1>4, <1>5, <1>6, <1>8, <1>9 DEF Next, Connect, Reconcile, vars

-----------------------------------------------------------------------------
LEMMA StepSafe == Safe /\ [Next]_vars => Safe'
<1> SUFFICES ASSUME Safe, [Next]_vars PROVE Safe'
  OBVIOUS
<1>1. TypeOK' /\ ResolvedExists'
  BY StepTyped DEF Safe
<1> QED
  BY <1>1, StepCounted, StepConfined, StepCovered DEF Safe

(* Every invariant of the runs, for every value of the constants.          *)
THEOREM SafeAlways == Spec => []Safe
BY InitSafe, StepSafe, PTL DEF Spec

(* No operation of a managed resource runs with the credentials of a       *)
(* ProviderConfig that does not count it.                                  *)
THEOREM UsedIsTrackedAlways == Spec => []UsedIsTracked
<1>1. Safe => UsedIsTracked
  BY DEF Safe
<1> QED
  BY <1>1, SafeAlways, PTL

(* Nor does it ever read a Secret outside the namespace of the namespaced  *)
(* ProviderConfig it resolved.                                             *)
THEOREM SecretConfinedAlways == Spec => []SecretConfined
<1>1. Safe => SecretConfined
  BY DEF Safe
<1> QED
  BY <1>1, SafeAlways, PTL

(* A managed resource with an external object always has a usage.          *)
THEOREM ManagedIsCountedAlways == Spec => []ManagedIsCounted
<1>1. Safe => ManagedIsCounted
  BY DEF Safe
<1> QED
  BY <1>1, SafeAlways, PTL

(* What a reconcile has counted covers every use it could have seen.       *)
THEOREM ListCoversUseAlways == Spec => []ListCoversUse
<1>1. Safe => ListCoversUse
  BY DEF Safe
<1> QED
  BY <1>1, SafeAlways, PTL

-----------------------------------------------------------------------------
(* The step that makes a finalized ProviderConfig disappear.               *)
DisappearsSafely ==
    \A c \in Configs :
        pc[c].life # "absent" /\ pc'[c].life = "absent" /\ pc[c].finalizer
            => UsersOf(c, usage) \subseteq rec[c].missed

LEMMA StepRemoval == Safe /\ [Next]_vars => DisappearsSafely
<1> SUFFICES ASSUME Safe, [Next]_vars, NEW c \in Configs,
                    pc[c].life # "absent", pc'[c].life = "absent", pc[c].finalizer
             PROVE  UsersOf(c, usage) \subseteq rec[c].missed
  BY DEF DisappearsSafely
<1>1. CASE SettleConfig(c)
  <2>1. rec[c].phase = "listed" /\ rec[c].users = {}
    BY <1>1 DEF SettleConfig, Settled, Safe, TypeOK, ConfigType
  <2> QED
    BY <2>1 DEF Safe, ListCoversUse
<1>2. \A d \in Configs : SettleConfig(d) => d = c
  BY DEF SettleConfig, Safe, TypeOK
<1>3. \A d \in Configs, loc \in Locations : ~CreateConfig(d, loc) /\ ~EditConfig(d, loc)
  <2> SUFFICES ASSUME NEW d \in Configs, NEW loc \in Locations,
                      CreateConfig(d, loc) \/ EditConfig(d, loc)
               PROVE  FALSE
    OBVIOUS
  <2>1. CASE d # c
    BY <2>1 DEF CreateConfig, EditConfig, WriteConfig, Safe, TypeOK
  <2>2. CASE d = c /\ CreateConfig(d, loc)
    BY <2>2 DEF CreateConfig
  <2>3. CASE d = c /\ EditConfig(d, loc)
    BY <2>3 DEF EditConfig, WriteConfig, Safe, TypeOK, ConfigType
  <2> QED
    BY <2>1, <2>2, <2>3
<1>4. \A d \in Configs : ~DeleteConfig(d)
  BY DEF DeleteConfig, WriteConfig, AbsentConfig, Safe, TypeOK, ConfigType
<1>5. pc' # pc
  OBVIOUS
<1>6. Next
  BY <1>5 DEF vars
<1>7. \A m \in MRs : ~(Connect(m) \/ ConnectFails(m) \/ CollectUsage(m) \/ DeliverUsage(m))
  BY <1>5 DEF Connect, StartConnect, GetConfig, Track, ExtractCredentials, Operate,
              ConnectFails, CollectUsage, DeliverUsage
<1>8. \A d \in Configs : ~ListUsages(d)
  BY <1>5 DEF ListUsages
<1>9. ~Users
  BY <1>3, <1>4, <1>5 DEF Users, DeleteMR, EditRef, RotateSecret
<1>10. ~Crash
  BY <1>5 DEF Crash
<1> QED
  BY <1>1, <1>2, <1>6, <1>7, <1>8, <1>9, <1>10 DEF Next, Reconcile

(* A ProviderConfig with the finalizer never disappears under a managed    *)
(* resource whose usage its reconciler could have seen.                    *)
THEOREM NoRemovalUnderUseAlways == Spec => NoRemovalUnderUse
<1>1. Safe /\ [Next]_vars => [DisappearsSafely]_vars
  BY StepRemoval
<1> QED
  BY <1>1, SafeAlways, PTL DEF Spec, NoRemovalUnderUse, DisappearsSafely

-----------------------------------------------------------------------------
(* What the promise sees of the initial states.                            *)
LEMMA InitPromised == Init => Promise!Init
<1> SUFFICES ASSUME Init PROVE Promise!Init
  OBVIOUS
<1>1. States \in [Configs -> {"absent", "unprotected"}]
  <2>1. ASSUME NEW c \in Configs
        PROVE  pc[c].life = "absent" \/ (pc[c].life = "live" /\ pc[c].finalizer = FALSE)
    <3>1. \/ pc[c] \in [life : {"live"}, finalizer : {FALSE}, loc : Locations, users : {{}}]
          \/ pc[c] = AbsentConfig
      BY DEF Init
    <3>2. CASE pc[c] = AbsentConfig
      BY <3>2 DEF AbsentConfig
    <3>3. CASE pc[c] \in [life : {"live"}, finalizer : {FALSE}, loc : Locations, users : {{}}]
      BY <3>3
    <3> QED
      BY <3>1, <3>2, <3>3
  <2> QED
    BY <2>1 DEF States
<1>2. FoundVacant = {}
  BY DEF Init, FoundVacant, IdleRec
<1>3. usage = [m \in MRs |-> None] /\ cache = usage
  BY DEF Init
<1> QED
  BY <1>1, <1>2, <1>3 DEF Promise!Init

-----------------------------------------------------------------------------
(* A step that writes one ProviderConfig, drops what its reconcile had     *)
(* found and leaves the others and the usages alone.                       *)
LEMMA WriteBecomes ==
    ASSUME NEW c \in Configs,
           \A d \in Configs : d # c => pc'[d] = pc[d] /\ rec'[d] = rec[d],
           c \notin FoundVacant',
           usage' = usage, cache' = cache
    PROVE  Promise!Becomes(c, States'[c])
<1>1. \A d \in Configs : d # c => States'[d] = States[d]
  BY DEF States
<1>2. \A d \in Configs : d # c => (d \in FoundVacant' <=> d \in FoundVacant)
  BY DEF FoundVacant
<1>3. FoundVacant' = FoundVacant \ {c}
  BY <1>2 DEF FoundVacant
<1>4. States' = [States EXCEPT ![c] = States'[c]]
  <2>1. /\ States = [d \in Configs |-> States[d]]
        /\ States' = [d \in Configs |-> States'[d]]
    BY DEF States
  <2> QED
    BY <1>1, <2>1
<1> QED
  BY <1>3, <1>4 DEF Promise!Becomes

(* A step that leaves ProviderConfigs and findings alone.                  *)
LEMMA SameFindings ==
    ASSUME pc' = pc,
           \A c \in Configs : /\ rec'[c].phase = rec[c].phase
                              /\ rec'[c].current = rec[c].current
                              /\ rec'[c].users = rec[c].users
    PROVE  /\ States' = States
           /\ FoundVacant' = FoundVacant
BY DEF States, FoundVacant

-----------------------------------------------------------------------------
LEMMA UserSteps ==
    ASSUME TypeOK, Users
    PROVE  Promise!Next \/ UNCHANGED Promise!vars
<1>1. ASSUME NEW c \in Configs, NEW loc \in Locations, CreateConfig(c, loc)
      PROVE  Promise!Appear(c)
  <2>1. States[c] = "absent" /\ States'[c] = "unprotected"
    BY <1>1 DEF CreateConfig, WriteConfig, States, AbsentConfig, TypeOK, ConfigType
  <2>2. Promise!Becomes(c, States'[c])
    BY <1>1, WriteBecomes DEF CreateConfig, WriteConfig, FoundVacant, TypeOK, RecType
  <2> QED
    BY <2>1, <2>2 DEF Promise!Appear
<1>2. ASSUME NEW c \in Configs, NEW loc \in Locations, EditConfig(c, loc)
      PROVE  Promise!Change(c)
  <2>1. States'[c] = States[c]
    BY <1>2 DEF EditConfig, WriteConfig, States, TypeOK, ConfigType
  <2>2. Promise!Becomes(c, States'[c])
    BY <1>2, WriteBecomes DEF EditConfig, WriteConfig, FoundVacant, TypeOK, RecType
  <2> QED
    BY <2>1, <2>2 DEF Promise!Change
<1>3. ASSUME NEW c \in Configs, DeleteConfig(c)
      PROVE  Promise!AskToGo(c)
  <2>1. \/ States[c] = "unprotected" /\ States'[c] = "absent"
        \/ States[c] = "protected" /\ States'[c] = "closing"
    BY <1>3 DEF DeleteConfig, WriteConfig, States, AbsentConfig, TypeOK, ConfigType
  <2>2. Promise!Becomes(c, States'[c])
    BY <1>3, WriteBecomes DEF DeleteConfig, WriteConfig, FoundVacant, TypeOK, RecType
  <2> QED
    BY <2>1, <2>2 DEF Promise!AskToGo
<1>4. CASE \/ \E m \in MRs : DeleteMR(m) \/ \E ref \in RefsOf(m) : EditRef(m, ref)
           \/ \E s \in Secrets, content \in Contents : RotateSecret(s, content)
  BY <1>4, SameFindings DEF DeleteMR, EditRef, RotateSecret, Promise!vars
<1> QED
  BY <1>1, <1>2, <1>3, <1>4 DEF Users, Promise!Next

LEMMA ReconcileSteps ==
    ASSUME TypeOK, NEW c \in Configs, Reconcile(c)
    PROVE  Promise!Next \/ UNCHANGED Promise!vars
<1>1. ASSUME ListUsages(c), Listed(c) = {}
      PROVE  Promise!FindVacant(c)
  <2>1. States[c] # "absent" /\ \A m \in MRs : cache[m] # c
    BY <1>1 DEF ListUsages, Listed, UsersOf, States
  <2>2. FoundVacant' = FoundVacant \cup {c}
    BY <1>1 DEF ListUsages, FoundVacant, TypeOK
  <2>3. States' = States
    BY <1>1 DEF ListUsages, States
  <2> QED
    BY <1>1, <2>1, <2>2, <2>3 DEF ListUsages, Promise!FindVacant
<1>2. ASSUME ListUsages(c), Listed(c) # {}
      PROVE  UNCHANGED Promise!vars
  <2>1. FoundVacant' = FoundVacant
    BY <1>2 DEF ListUsages, FoundVacant, TypeOK
  <2>2. States' = States
    BY <1>2 DEF ListUsages, States
  <2> QED
    BY <1>2, <2>1, <2>2 DEF ListUsages, Promise!vars
<1>3. ASSUME SettleConfig(c), rec[c].current
      PROVE  Promise!Next
  <2>1. Promise!Becomes(c, States'[c])
    BY <1>3, WriteBecomes DEF SettleConfig, FoundVacant, IdleRec, TypeOK
  <2>2. CASE pc[c].life = "terminating" /\ rec[c].users = {}
    <3>1. States[c] = "closing" /\ States'[c] = "absent" /\ c \in FoundVacant
      BY <1>3, <2>2 DEF SettleConfig, Settled, States, FoundVacant, AbsentConfig, TypeOK
    <3> QED
      BY <2>1, <3>1 DEF Promise!Go, Promise!Next
  <2>3. CASE ~(pc[c].life = "terminating" /\ rec[c].users = {})
    <3>1. \/ States'[c] = States[c]
          \/ States[c] = "unprotected" /\ States'[c] = "protected"
      BY <1>3, <2>3 DEF SettleConfig, Settled, States, TypeOK, ConfigType
    <3> QED
      BY <2>1, <3>1 DEF Promise!Change, Promise!Protect, Promise!Next
  <2> QED
    BY <2>2, <2>3
<1>4. ASSUME SettleConfig(c), ~rec[c].current
      PROVE  UNCHANGED Promise!vars
  <2>1. FoundVacant' = FoundVacant
    BY <1>4 DEF SettleConfig, FoundVacant, IdleRec, TypeOK
  <2>2. States' = States
    BY <1>4 DEF SettleConfig, States
  <2> QED
    BY <1>4, <2>1, <2>2 DEF SettleConfig, Promise!vars
<1> QED
  BY <1>1, <1>2, <1>3, <1>4 DEF Reconcile, Promise!Next

LEMMA ConnectSteps ==
    ASSUME TypeOK, ResolvedExists, NEW m \in MRs,
           Connect(m) \/ ConnectFails(m) \/ CollectUsage(m) \/ DeliverUsage(m)
    PROVE  Promise!Next \/ UNCHANGED Promise!vars
<1>1. ASSUME Track(m), TrackedUsage(m) \in Configs
      PROVE  Promise!TakeUp(m, TrackedUsage(m))
  <2>1. \A c \in Configs : /\ rec'[c].phase = rec[c].phase
                           /\ rec'[c].current = rec[c].current
                           /\ rec'[c].users = rec[c].users
    BY <1>1 DEF Track, TypeOK, RecType
  <2> QED
    BY <1>1, <2>1, SameFindings DEF Track, Promise!TakeUp
<1>2. Track(m) => TrackedUsage(m) \in Configs
  BY DEF Track, TrackedUsage, ResolvedExists
<1>3. ASSUME CollectUsage(m) PROVE Promise!Leave(m)
  BY <1>3, SameFindings DEF CollectUsage, Promise!Leave
<1>4. ASSUME DeliverUsage(m) PROVE Promise!BecomeVisible(m)
  BY <1>4, SameFindings DEF DeliverUsage, Promise!BecomeVisible
<1>5. CASE StartConnect(m) \/ GetConfig(m) \/ ExtractCredentials(m) \/ Operate(m) \/ ConnectFails(m)
  BY <1>5, SameFindings DEF StartConnect, GetConfig, ExtractCredentials, Operate,
                            ConnectFails, Promise!vars
<1> QED
  BY <1>1, <1>2, <1>3, <1>4, <1>5 DEF Connect, Promise!Next

LEMMA CrashStep ==
    ASSUME Crash
    PROVE  Promise!Restart
<1>1. FoundVacant' = {}
  BY DEF Crash, FoundVacant, IdleRec
<1>2. States' = States
  BY DEF Crash, States
<1> QED
  BY <1>1, <1>2 DEF Crash, Promise!Restart

LEMMA StepPromised == Safe /\ [Next]_vars => [Promise!Next]_(Promise!vars)
<1> SUFFICES ASSUME Safe, [Next]_vars
             PROVE  Promise!Next \/ UNCHANGED Promise!vars
  OBVIOUS
<1>1. TypeOK /\ ResolvedExists
  BY DEF Safe
<1>2. CASE UNCHANGED vars
  BY <1>2, SameFindings DEF vars, Promise!vars
<1>3. CASE Crash
  BY <1>3, CrashStep DEF Promise!Next
<1> QED
  BY <1>1, <1>2, <1>3, UserSteps, ReconcileSteps, ConnectSteps DEF Next

(* The provider-config subsystem keeps the promise of UsageProtection, for *)
(* any number of managed resources, ProviderConfigs and Secrets and any    *)
(* edits, failures and restarts: no interleaving of Track (unifi.go) with  *)
(* a reconcile (providerconfig/config.go) lets a finalized ProviderConfig  *)
(* go unless it was found vacant and has not changed since.                *)
THEOREM KeepsPromiseAlways == Spec => KeepsPromise
BY InitPromised, StepPromised, SafeAlways, PTL DEF Spec, KeepsPromise, Promise!Spec

=============================================================================
