-------------------------- MODULE SafeStartProofs --------------------------
(***************************************************************************)
(* Proofs about SafeStart.  The inductive invariant is StartUp; the        *)
(* lemmas say what it needs of the tables: what a setup function adds is a *)
(* controller, everything such a controller watches is registered with the *)
(* function, every controller is added by some function, and no two        *)
(* controllers take one name.                                              *)
(***************************************************************************)
EXTENDS SafeStart, FiniteSetTheorems, TLAPS

(* A managed resource kind is a controller of its own, under its own name. *)
LEMMA PCUIsNoMR ==
    ASSUME NEW s \in Scopes, NEW k \in MRKinds
    PROVE  /\ MR(s, k) \in Controllers
           /\ k # "providerconfig"
<1>1. k # "ProviderConfigUsage" /\ k # "providerconfig"
  BY KindsAssumption
<1>2. MR(s, k) \in Kinds
  BY DEF MR, Kinds
<1>3. \A t \in Scopes : MR(s, k) # PCU(t)
  BY <1>1 DEF MR, PCU
<1> QED
  BY <1>1, <1>2, <1>3 DEF Controllers

(* So is each kind of provider config.                                     *)
LEMMA ConfigsAreControllers ==
    /\ CPC \in Controllers
    /\ \A s \in Scopes : PC(s) \in Controllers
<1>1. CPC \in Kinds /\ \A s \in Scopes : PC(s) \in Kinds
  BY DEF Kinds
<1>2. \A s \in Scopes : CPC # PCU(s)
  BY DEF CPC, PCU
<1>3. \A s, t \in Scopes : PC(s) # PCU(t)
  BY DEF PC, PCU
<1> QED
  BY <1>1, <1>2, <1>3 DEF Controllers

(* Setup functions are for a managed resource or for provider configs.     *)
LEMMA SetupCases ==
    ASSUME NEW f \in Setups
    PROVE  /\ f.scope \in Scopes
           /\ \/ f.kind \in MRKinds /\ f.kind # "providerconfig"
              \/ f.kind = "providerconfig"
BY KindsAssumption DEF Setups

(* What a setup function adds are controllers.                             *)
LEMMA AddsControllers ==
    ASSUME NEW f \in Setups
    PROVE  /\ Len(Adds(f)) \in Nat \ {0}
           /\ \A i \in 1..Len(Adds(f)) : Adds(f)[i] \in Controllers
<1>1. CASE f.kind # "providerconfig"
  <2>1. Adds(f) = <<MR(f.scope, f.kind)>>
    BY <1>1 DEF Adds
  <2>2. MR(f.scope, f.kind) \in Controllers
    BY <1>1, SetupCases, PCUIsNoMR
  <2> QED
    BY <2>1, <2>2
<1>2. CASE f.kind = "providerconfig" /\ f.scope = "cluster"
  <2>1. Adds(f) = <<PC("cluster")>>
    BY <1>2 DEF Adds
  <2>2. PC("cluster") \in Controllers
    BY ConfigsAreControllers DEF Scopes
  <2> QED
    BY <2>1, <2>2
<1>3. CASE f.kind = "providerconfig" /\ f.scope # "cluster"
  <2>1. Adds(f) = <<CPC, PC("namespaced")>>
    BY <1>3 DEF Adds
  <2>2. CPC \in Controllers /\ PC("namespaced") \in Controllers
    BY ConfigsAreControllers DEF Scopes
  <2> QED
    BY <2>1, <2>2
<1> QED
  BY <1>1, <1>2, <1>3

(* Its dependencies cover what the controllers it adds watch.              *)
LEMMA DependenciesCover ==
    ASSUME NEW f \in Setups, NEW i \in 1..Len(Adds(f))
    PROVE  Watched(Adds(f)[i]) \subseteq Dependencies(f)
<1>1. CASE f.kind # "providerconfig"
  <2>1. f.kind \in MRKinds /\ f.kind \notin {"ProviderConfig", "ClusterProviderConfig"}
    BY <1>1, KindsAssumption, SetupCases
  <2>2. Adds(f)[i] = MR(f.scope, f.kind)
    BY <1>1 DEF Adds
  <2>3. MR(f.scope, f.kind) # CPC /\ MR(f.scope, f.kind) \notin {PC(s) : s \in Scopes}
    BY <2>1 DEF MR, CPC, PC
  <2> QED
    BY <1>1, <2>2, <2>3 DEF Watched, Dependencies
<1>2. CASE f.kind = "providerconfig" /\ f.scope = "cluster"
  <2>1. Adds(f)[i] = PC("cluster")
    BY <1>2 DEF Adds
  <2>2. PC("cluster").scope = "cluster"
    BY DEF PC
  <2>3. Watched(PC("cluster")) \subseteq {PC("cluster"), PCU("cluster")}
    BY <2>2 DEF Watched
  <2>4. {PC("cluster"), PCU("cluster")} \subseteq Dependencies(f)
    BY <1>2 DEF Dependencies
  <2> QED
    BY <2>1, <2>3, <2>4
<1>3. CASE f.kind = "providerconfig" /\ f.scope = "namespaced"
  <2>1. Adds(f)[i] \in {CPC, PC("namespaced")}
    BY <1>3 DEF Adds
  <2>2. PC("namespaced").scope = "namespaced" /\ CPC.scope = "namespaced"
    BY DEF PC, CPC
  <2>3. Watched(Adds(f)[i]) \subseteq {CPC, PC("namespaced"), PCU("namespaced")}
    BY <2>1, <2>2 DEF Watched
  <2>4. {CPC, PC("namespaced"), PCU("namespaced")} \subseteq Dependencies(f)
    BY <1>3 DEF Dependencies
  <2> QED
    BY <2>3, <2>4
<1> QED
  BY <1>1, <1>2, <1>3, SetupCases DEF Scopes

(* No controller is forgotten by the setup functions.                      *)
LEMMA EveryControllerIsAdded ==
    ASSUME NEW c \in Controllers
    PROVE  \E f \in Setups : \E i \in 1..Len(Adds(f)) : Adds(f)[i] = c
<1>1. CASE c \in [scope : Scopes, kind : MRKinds]
  <2> DEFINE f == [scope |-> c.scope, kind |-> c.kind]
  <2>1. c.scope \in Scopes /\ c.kind \in MRKinds /\ c = MR(c.scope, c.kind)
    BY <1>1 DEF MR
  <2>2. f \in Setups /\ f.kind # "providerconfig"
    BY <2>1, KindsAssumption DEF Setups
  <2>3. Adds(f) = <<c>>
    BY <2>1, <2>2 DEF Adds
  <2> QED
    BY <2>2, <2>3
<1>2. CASE c = PC("cluster")
  <2> DEFINE f == [scope |-> "cluster", kind |-> "providerconfig"]
  <2>1. f \in Setups /\ Adds(f) = <<c>>
    BY <1>2 DEF Setups, Scopes, Adds
  <2> QED
    BY <2>1
<1>3. CASE c \in {CPC, PC("namespaced")}
  <2> DEFINE f == [scope |-> "namespaced", kind |-> "providerconfig"]
  <2>1. f \in Setups /\ Adds(f) = <<CPC, PC("namespaced")>>
    BY DEF Setups, Scopes, Adds
  <2>2. Len(Adds(f)) = 2 /\ Adds(f)[1] = CPC /\ Adds(f)[2] = PC("namespaced")
    BY <2>1
  <2> QED
    BY <1>3, <2>1, <2>2
<1> QED
  BY <1>1, <1>2, <1>3 DEF Controllers, Kinds, Scopes

(* Two controllers never take one name in the manager.                     *)
LEMMA NamesDiffer ==
    ASSUME NEW c \in Controllers, NEW d \in Controllers,
           ControllerName(c) = ControllerName(d)
    PROVE  c = d
<1>1. \A x \in Kinds : x = [scope |-> x.scope, kind |-> x.kind]
  BY DEF Kinds, PC, PCU, CPC
<1>2. c.scope = d.scope /\ c.kind = d.kind
  BY DEF ControllerName
<1>3. c \in Kinds /\ d \in Kinds
  BY DEF Controllers
<1> QED
  BY <1>1, <1>2, <1>3

-----------------------------------------------------------------------------
(* The controller a setup function comes to takes a free name.             *)
LEMMA NameIsFree ==
    ASSUME NEW f \in Setups, NEW i \in 1..Len(Adds(f)), ComesTo(f, i)
    PROVE  NameFree(Adds(f)[i])
<1>1. Adds(f)[i] \in Controllers
  BY AddsControllers
<1>2. ctl[Adds(f)[i]] = "none"
  BY DEF ComesTo
<1> QED
  BY <1>1, <1>2, NamesDiffer DEF NameFree

(* The precheck asks for three verbs.                                      *)
LEMMA ThreeVerbs == Len(Verbs) = 3
BY DEF Verbs

(* The invariant holds when a first process starts.                        *)
LEMMA InitStartUp == Init => StartUp
<1> SUFFICES ASSUME Init PROVE StartUp
  OBVIOUS
<1>1. TypeOK
  <2>1. crds \subseteq Kinds
    BY DEF Init
  <2>2. /\ rbac \subseteq {Verbs[i] : i \in 1..3}
        /\ phase = "precheck" /\ asked = 0 /\ gated \in BOOLEAN
    BY DEF Init
  <2>3. /\ fn \in [Setups -> {"todo", "waiting", "released", "done", "failed"}]
        /\ ctl \in [Controllers -> {"none", "starting", "running"}]
        /\ gate \subseteq Kinds /\ synced \in BOOLEAN
    BY DEF Init
  <2>4. changes \in 0..MaxChanges /\ faults \in 0..MaxFaults
    BY BoundsAssumption DEF Init
  <2> QED
    BY <2>1, <2>2, <2>3, <2>4, ThreeVerbs DEF TypeOK
<1>2. AsksFirst /\ UngatedDirect /\ DoneAdded /\ StartedAll /\ GateServed /\ ReleasedServed
  BY DEF Init, AsksFirst, UngatedDirect, DoneAdded, StartedAll, GateServed, ReleasedServed
<1>3. AddedOnlyWhenServed /\ GateCanWatch
  BY DEF Init, AddedOnlyWhenServed, GateCanWatch
<1>4. NoSilentLoss
  <2>1. Lost = {}
    BY DEF Init, Lost
  <2>2. faults \in Nat
    BY <1>1 DEF TypeOK
  <2> QED
    BY <2>1, <2>2, FS_EmptySet DEF Init, NoSilentLoss
<1> QED
  BY <1>1, <1>2, <1>3, <1>4 DEF StartUp

(* A step that loses no setup function keeps the bound on the lost ones.   *)
LEMMA NoneLost ==
    ASSUME StartUp, faults' \in Nat, faults' >= faults, Lost' = Lost
    PROVE  NoSilentLoss'
<1>1. IsFiniteSet(Lost) /\ Cardinality(Lost) <= faults /\ faults \in Nat
  BY DEF StartUp, NoSilentLoss, TypeOK
<1>2. Cardinality(Lost) \in Nat
  BY <1>1, FS_CardinalityType
<1> QED
  BY <1>1, <1>2 DEF NoSilentLoss

(* What a setup function that adds a controller changes.                   *)
LEMMA AddChanges ==
    ASSUME StartUp, NEW f \in Setups, AddController(f)
    PROVE  /\ fn' \in [Setups -> {"todo", "waiting", "released", "done", "failed"}]
           /\ ctl' \in [Controllers -> {"none", "starting", "running"}]
           /\ \A g \in Setups : fn'[g] # fn[g] => g = f /\ fn'[g] = "done"
           /\ \A c \in Controllers : ctl[c] # "none" => ctl'[c] = ctl[c]
           /\ \A c \in Controllers :
                 ctl'[c] # "none" => ctl[c] # "none" \/ Watched(c) \subseteq Dependencies(f)
           /\ fn'[f] = "done" /\ fn[f] # "done" =>
                 \A i \in 1..Len(Adds(f)) : ctl'[Adds(f)[i]] # "none"
<1>1. PICK i \in 1..Len(Adds(f)) :
        /\ ComesTo(f, i)
        /\ ctl' = [ctl EXCEPT ![Adds(f)[i]] = "starting"]
        /\ fn' = [fn EXCEPT ![f] = IF i = Len(Adds(f)) THEN "done" ELSE @]
  BY DEF AddController
<1>2. /\ fn \in [Setups -> {"todo", "waiting", "released", "done", "failed"}]
      /\ ctl \in [Controllers -> {"none", "starting", "running"}]
  BY DEF StartUp, TypeOK
<1>3. Adds(f)[i] \in Controllers /\ ctl[Adds(f)[i]] = "none"
  BY <1>1, AddsControllers DEF ComesTo
<1>4. fn' \in [Setups -> {"todo", "waiting", "released", "done", "failed"}]
  BY <1>1, <1>2
<1>5. ctl' \in [Controllers -> {"none", "starting", "running"}]
  BY <1>1, <1>2, <1>3
<1>6. \A g \in Setups : fn'[g] # fn[g] => g = f /\ fn'[g] = "done"
  BY <1>1, <1>2
<1>7. \A c \in Controllers : ctl'[c] = IF c = Adds(f)[i] THEN "starting" ELSE ctl[c]
  BY <1>1, <1>2
<1>8. \A c \in Controllers :
        ctl'[c] # "none" => ctl[c] # "none" \/ Watched(c) \subseteq Dependencies(f)
  BY <1>7, DependenciesCover
<1>9. ASSUME fn'[f] = "done", fn[f] # "done", NEW j \in 1..Len(Adds(f))
      PROVE  ctl'[Adds(f)[j]] # "none"
  <2>1. i = Len(Adds(f))
    BY <1>1, <1>2, <1>9
  <2>2. Adds(f)[j] \in Controllers
    BY AddsControllers
  <2>3. j = i \/ ctl[Adds(f)[j]] # "none"
    BY <1>1, <2>1, AddsControllers DEF ComesTo
  <2> QED
    BY <1>7, <2>2, <2>3
<1> QED
  BY <1>3, <1>4, <1>5, <1>6, <1>7, <1>8, <1>9

(* Only a released function that fails is lost, one for each failed call.  *)
LEMMA StepNoSilentLoss == StartUp /\ [Next]_vars => NoSilentLoss'
<1> SUFFICES ASSUME StartUp, [Next]_vars PROVE NoSilentLoss'
  OBVIOUS
<1>1. /\ fn \in [Setups -> {"todo", "waiting", "released", "done", "failed"}]
      /\ faults \in Nat
  BY DEF StartUp, TypeOK
<1>2. ASSUME NEW f \in Setups, ReleasedFails(f) PROVE NoSilentLoss'
  <2>1. faults' = faults + 1
    BY <1>2, NameIsFree DEF ReleasedFails, AddFails, Fault
  <2>2. Lost' = Lost \cup {f} /\ f \notin Lost
    BY <1>1, <1>2 DEF ReleasedFails, Lost
  <2>3. IsFiniteSet(Lost) /\ Cardinality(Lost) \in Nat /\ Cardinality(Lost) <= faults
    BY FS_CardinalityType DEF StartUp, NoSilentLoss
  <2>4. IsFiniteSet(Lost') /\ Cardinality(Lost') = Cardinality(Lost) + 1
    BY <2>2, <2>3, FS_AddElement
  <2> QED
    BY <1>1, <2>1, <2>3, <2>4 DEF NoSilentLoss
<1>3. CASE Restart
  <2>1. Lost' = {} /\ faults' = faults
    BY <1>3 DEF Restart, Boot, Lost
  <2> QED
    BY <1>1, <2>1, FS_EmptySet DEF NoSilentLoss
<1>4. ASSUME NEW f \in Setups,
             SetupGated(f) \/ Setup(f) \/ SetupFails(f) \/ RunReleased(f)
      PROVE  NoSilentLoss'
  <2>1. Lost' = Lost
    <3>1. CASE SetupGated(f)
      BY <1>1, <3>1 DEF SetupGated, Turn, Lost
    <3>2. CASE Setup(f)
      BY <1>1, <3>2, AddChanges DEF Setup, Turn, Lost
    <3>3. CASE SetupFails(f)
      BY <3>3 DEF SetupFails, Lost
    <3>4. CASE RunReleased(f)
      BY <1>1, <3>4, AddChanges DEF RunReleased, Lost
    <3> QED
      BY <1>4, <3>1, <3>2, <3>3, <3>4
  <2>2. faults' \in Nat /\ faults' >= faults
    BY <1>1, <1>4 DEF SetupGated, Setup, SetupFails, RunReleased, AddFails, Fault
  <2> QED
    BY <2>1, <2>2, NoneLost
<1>5. ASSUME NEW k \in Kinds, SetGate(k) PROVE NoSilentLoss'
  <2>1. Lost' = Lost
    BY <1>1, <1>5 DEF SetGate, Released, Lost
  <2> QED
    BY <1>1, <1>5, <2>1, NoneLost DEF SetGate
<1>6. ASSUME UNCHANGED <<fn, faults>> PROVE NoSilentLoss'
  BY <1>1, <1>6, NoneLost DEF Lost
<1>7. CASE PrecheckFails \/ GateSetupFails
  <2>1. Lost' = Lost
    BY <1>7 DEF PrecheckFails, GateSetupFails, Lost
  <2>2. faults' = faults + 1
    BY <1>7 DEF PrecheckFails, GateSetupFails, Fault
  <2> QED
    BY <1>1, <2>1, <2>2, NoneLost
<1>8. CASE CanWatchCRD \/ StartManager \/ GateSyncs \/ GateSyncFails
  BY <1>6, <1>8 DEF CanWatchCRD, StartManager, GateSyncs, GateSyncFails
<1>9. ASSUME NEW c \in Controllers, CacheSyncs(c) \/ CacheSyncFails(c) PROVE NoSilentLoss'
  BY <1>6, <1>9 DEF CacheSyncs, CacheSyncFails
<1>10. ASSUME NEW k \in Kinds, ServeKind(k) \/ RemoveKind(k) PROVE NoSilentLoss'
  BY <1>6, <1>10 DEF ServeKind, RemoveKind
<1>11. ASSUME NEW v \in {Verbs[i] : i \in 1..Len(Verbs)}, ChangeAccess(v) PROVE NoSilentLoss'
  BY <1>6, <1>11 DEF ChangeAccess
<1>12. CASE UNCHANGED vars
  BY <1>6, <1>12 DEF vars
<1> QED
  BY <1>2, <1>3, <1>4, <1>5, <1>7, <1>8, <1>9, <1>10, <1>11, <1>12 DEF Next, Process

(* Every verb of the precheck is granted, those to list and watch too.     *)
LEMMA VerbsGranted ==
    ASSUME \A i \in 1..Len(Verbs) : Verbs[i] \in rbac
    PROVE  CanWatch
<1>1. Verbs[2] = "list" /\ Verbs[3] = "watch"
  BY DEF Verbs
<1> QED
  BY <1>1, ThreeVerbs DEF CanWatch

(* Every step keeps the invariant; under each action one step per part it  *)
(* may disturb, and one for the parts it does not touch.                   *)
LEMMA StepStartUp == StartUp /\ [Next]_vars => StartUp'
<1> SUFFICES ASSUME StartUp, [Next]_vars PROVE StartUp'
  OBVIOUS
<1> USE BoundsAssumption, ThreeVerbs DEF StartUp, Fault, Change
<1>0. NoSilentLoss'
  BY StepNoSilentLoss
<1>1. CASE CanWatchCRD
  <2>1. TypeOK'
    <3>1. /\ phase' \in {"precheck", "setup", "started", "exited"}
          /\ asked' \in 0..3 /\ (phase' = "precheck" => asked' < Len(Verbs))
      BY <1>1 DEF CanWatchCRD, LastVerb, TypeOK
    <3>2. gated' \in BOOLEAN
      BY <1>1 DEF CanWatchCRD, LastVerb
    <3> QED
      BY <1>1, <3>1, <3>2 DEF CanWatchCRD, TypeOK
  <2>2. AsksFirst'
    BY <1>1 DEF CanWatchCRD, TypeOK, AsksFirst
  <2>3. UngatedDirect'
    BY <1>1 DEF CanWatchCRD, AsksFirst, UngatedDirect
  <2>4. StartedAll'
    BY <1>1 DEF CanWatchCRD, TypeOK, StartedAll
  <2>5. AddedOnlyWhenServed'
    BY <1>1 DEF CanWatchCRD, LastVerb, AsksFirst, AddedOnlyWhenServed
  <2>6. GateCanWatch'
    <3>1. ASSUME gated', changes' = 0 PROVE \A i \in 1..asked + 1 : Verbs[i] \in rbac
      <4>1. phase = "precheck" /\ changes = 0 /\ asked \in Nat
        BY <1>1, <3>1 DEF CanWatchCRD, TypeOK
      <4>2. Verbs[asked + 1] \in rbac
        BY <1>1, <3>1 DEF CanWatchCRD
      <4>3. \A i \in 1..asked : Verbs[i] \in rbac
        BY <4>1 DEF AsksFirst
      <4>4. \A i \in 1..asked + 1 : i \in 1..asked \/ i = asked + 1
        BY <4>1
      <4> QED
        BY <4>2, <4>3, <4>4
    <3>2. gated' => asked + 1 = Len(Verbs)
      BY <1>1 DEF CanWatchCRD, LastVerb
    <3> QED
      BY <1>1, <3>1, <3>2 DEF CanWatchCRD, GateCanWatch
  <2>7. DoneAdded' /\ GateServed' /\ ReleasedServed'
    BY <1>1 DEF CanWatchCRD, DoneAdded, GateServed, ReleasedServed
  <2> QED
    BY <1>0, <2>1, <2>2, <2>3, <2>4, <2>5, <2>6, <2>7
<1>2. CASE PrecheckFails
  <2>1. TypeOK'
    BY <1>2 DEF PrecheckFails, TypeOK
  <2>2. AsksFirst'
    BY <1>2 DEF PrecheckFails, TypeOK, AsksFirst
  <2>3. StartedAll'
    BY <1>2 DEF PrecheckFails, TypeOK, StartedAll
  <2>4. AddedOnlyWhenServed'
    BY <1>2 DEF PrecheckFails, TypeOK, AddedOnlyWhenServed
  <2>5. UngatedDirect' /\ DoneAdded' /\ GateServed' /\ ReleasedServed' /\ GateCanWatch'
    BY <1>2 DEF PrecheckFails, UngatedDirect, DoneAdded, GateServed, ReleasedServed, GateCanWatch
  <2> QED
    BY <1>0, <2>1, <2>2, <2>3, <2>4, <2>5
<1>3. CASE StartManager
  <2>1. TypeOK'
    BY <1>3 DEF StartManager, TypeOK
  <2>2. AsksFirst'
    BY <1>3 DEF StartManager, TypeOK, AsksFirst
  <2>3. StartedAll'
    BY <1>3 DEF StartManager, TypeOK, StartedAll
  <2>4. AddedOnlyWhenServed'
    BY <1>3 DEF StartManager, TypeOK, AddedOnlyWhenServed
  <2>5. UngatedDirect' /\ DoneAdded' /\ GateServed' /\ ReleasedServed' /\ GateCanWatch'
    BY <1>3 DEF StartManager, UngatedDirect, DoneAdded, GateServed, ReleasedServed, GateCanWatch
  <2> QED
    BY <1>0, <2>1, <2>2, <2>3, <2>4, <2>5
<1>4. ASSUME NEW f \in Setups, SetupGated(f) PROVE StartUp'
  <2>1. TypeOK'
    BY <1>4 DEF SetupGated, TypeOK
  <2>2. AsksFirst'
    BY <1>4 DEF SetupGated, TypeOK, AsksFirst
  <2>3. UngatedDirect'
    BY <1>4 DEF SetupGated, TypeOK, UngatedDirect
  <2>4. DoneAdded'
    BY <1>4 DEF SetupGated, TypeOK, DoneAdded
  <2>5. StartedAll'
    BY <1>4 DEF SetupGated, TypeOK, StartedAll
  <2>6. ReleasedServed'
    BY <1>4 DEF SetupGated, TypeOK, ReleasedServed
  <2>7. GateServed' /\ AddedOnlyWhenServed' /\ GateCanWatch'
    BY <1>4 DEF SetupGated, GateServed, AddedOnlyWhenServed, GateCanWatch
  <2> QED
    BY <1>0, <2>1, <2>2, <2>3, <2>4, <2>5, <2>6, <2>7
<1>5. ASSUME NEW f \in Setups, Setup(f) PROVE StartUp'
  <2>1. TypeOK'
    BY <1>5, AddChanges DEF Setup, TypeOK
  <2>2. AsksFirst'
    BY <1>5, AddChanges DEF Setup, TypeOK, AsksFirst
  <2>3. UngatedDirect'
    BY <1>5, AddChanges DEF Setup, TypeOK, UngatedDirect
  <2>4. DoneAdded'
    <3> SUFFICES ASSUME NEW g \in Setups, fn'[g] = "done", NEW i \in 1..Len(Adds(g))
                 PROVE  ctl'[Adds(g)[i]] # "none"
      BY DEF DoneAdded
    <3>1. Adds(g)[i] \in Controllers
      BY AddsControllers
    <3>2. CASE fn[g] = "done"
      BY <1>5, <3>1, <3>2, AddChanges DEF Setup, DoneAdded
    <3>3. CASE fn[g] # "done"
      BY <1>5, <3>3, AddChanges DEF Setup
    <3> QED
      BY <3>2, <3>3
  <2>5. StartedAll'
    BY <1>5, AddChanges DEF Setup, TypeOK, StartedAll
  <2>6. ReleasedServed'
    BY <1>5, AddChanges DEF Setup, TypeOK, ReleasedServed
  <2>7. AddedOnlyWhenServed'
    BY <1>5, AddChanges DEF Setup, TypeOK, AddedOnlyWhenServed
  <2>8. GateServed' /\ GateCanWatch'
    BY <1>5 DEF Setup, GateServed, GateCanWatch
  <2> QED
    BY <1>0, <2>1, <2>2, <2>3, <2>4, <2>5, <2>6, <2>7, <2>8
<1>6. ASSUME NEW f \in Setups, SetupFails(f) PROVE StartUp'
  <2>1. TypeOK'
    BY <1>6 DEF SetupFails, AddFails, TypeOK
  <2>2. AsksFirst'
    BY <1>6 DEF SetupFails, AddFails, TypeOK, AsksFirst
  <2>3. StartedAll'
    BY <1>6 DEF SetupFails, AddFails, TypeOK, StartedAll
  <2>4. AddedOnlyWhenServed'
    BY <1>6 DEF SetupFails, AddFails, TypeOK, AddedOnlyWhenServed
  <2>5. UngatedDirect' /\ DoneAdded' /\ GateServed' /\ ReleasedServed' /\ GateCanWatch'
    BY <1>6 DEF SetupFails, UngatedDirect, DoneAdded, GateServed, ReleasedServed, GateCanWatch
  <2> QED
    BY <1>0, <2>1, <2>2, <2>3, <2>4, <2>5
<1>7. ASSUME NEW f \in Setups, RunReleased(f) PROVE StartUp'
  <2>1. TypeOK'
    BY <1>7, AddChanges DEF RunReleased, TypeOK
  <2>2. AsksFirst'
    BY <1>7, AddChanges DEF RunReleased, TypeOK, AsksFirst
  <2>3. UngatedDirect'
    BY <1>7, AddChanges DEF RunReleased, TypeOK, UngatedDirect
  <2>4. DoneAdded'
    <3> SUFFICES ASSUME NEW g \in Setups, fn'[g] = "done", NEW i \in 1..Len(Adds(g))
                 PROVE  ctl'[Adds(g)[i]] # "none"
      BY DEF DoneAdded
    <3>1. Adds(g)[i] \in Controllers
      BY AddsControllers
    <3>2. CASE fn[g] = "done"
      BY <1>7, <3>1, <3>2, AddChanges DEF RunReleased, DoneAdded
    <3>3. CASE fn[g] # "done"
      BY <1>7, <3>3, AddChanges DEF RunReleased
    <3> QED
      BY <3>2, <3>3
  <2>5. StartedAll'
    BY <1>7, AddChanges DEF RunReleased, TypeOK, StartedAll
  <2>6. ReleasedServed'
    BY <1>7, AddChanges DEF RunReleased, TypeOK, ReleasedServed
  <2>7. AddedOnlyWhenServed'
    <3>1. changes = 0 => Dependencies(f) \subseteq crds
      BY <1>7 DEF RunReleased, ReleasedServed
    <3> QED
      BY <1>7, <3>1, AddChanges DEF RunReleased, AddedOnlyWhenServed
  <2>8. GateServed' /\ GateCanWatch'
    BY <1>7 DEF RunReleased, GateServed, GateCanWatch
  <2> QED
    BY <1>0, <2>1, <2>2, <2>3, <2>4, <2>5, <2>6, <2>7, <2>8
<1>8. ASSUME NEW f \in Setups, ReleasedFails(f) PROVE StartUp'
  <2>1. TypeOK'
    BY <1>8 DEF ReleasedFails, AddFails, TypeOK
  <2>2. AsksFirst'
    BY <1>8 DEF ReleasedFails, AddFails, TypeOK, AsksFirst
  <2>3. UngatedDirect'
    BY <1>8 DEF ReleasedFails, AddFails, TypeOK, UngatedDirect
  <2>4. DoneAdded'
    BY <1>8 DEF ReleasedFails, AddFails, TypeOK, DoneAdded
  <2>5. StartedAll'
    BY <1>8 DEF ReleasedFails, AddFails, TypeOK, StartedAll
  <2>6. ReleasedServed'
    BY <1>8 DEF ReleasedFails, AddFails, TypeOK, ReleasedServed
  <2>7. AddedOnlyWhenServed'
    BY <1>8 DEF ReleasedFails, AddFails, TypeOK, AddedOnlyWhenServed
  <2>8. GateServed' /\ GateCanWatch'
    BY <1>8 DEF ReleasedFails, GateServed, GateCanWatch
  <2> QED
    BY <1>0, <2>1, <2>2, <2>3, <2>4, <2>5, <2>6, <2>7, <2>8
<1>9. ASSUME NEW k \in Kinds, SetGate(k) PROVE StartUp'
  <2>1. TypeOK'
    BY <1>9 DEF SetGate, Released, TypeOK
  <2>2. AsksFirst'
    BY <1>9 DEF SetGate, Released, TypeOK, AsksFirst
  <2>3. UngatedDirect'
    BY <1>9 DEF SetGate, Released, TypeOK, UngatedDirect
  <2>4. DoneAdded'
    BY <1>9 DEF SetGate, Released, TypeOK, DoneAdded
  <2>5. StartedAll'
    BY <1>9 DEF SetGate, Released, TypeOK, StartedAll
  <2>6. GateServed'
    BY <1>9 DEF SetGate, Released, TypeOK, GateServed
  <2>7. ReleasedServed'
    <3>1. changes = 0 => gate' \subseteq crds
      BY <1>9 DEF SetGate, GateServed
    <3> QED
      BY <1>9, <3>1 DEF SetGate, Released, TypeOK, ReleasedServed
  <2>8. AddedOnlyWhenServed' /\ GateCanWatch'
    BY <1>9 DEF SetGate, AddedOnlyWhenServed, GateCanWatch
  <2> QED
    BY <1>0, <2>1, <2>2, <2>3, <2>4, <2>5, <2>6, <2>7, <2>8
<1>10. ASSUME NEW c \in Controllers, CacheSyncs(c) PROVE StartUp'
  <2>1. TypeOK'
    BY <1>10 DEF CacheSyncs, TypeOK
  <2>2. AsksFirst'
    BY <1>10 DEF CacheSyncs, TypeOK, AsksFirst
  <2>3. DoneAdded'
    BY <1>10 DEF CacheSyncs, TypeOK, DoneAdded
  <2>4. AddedOnlyWhenServed'
    BY <1>10 DEF CacheSyncs, TypeOK, AddedOnlyWhenServed
  <2>5. UngatedDirect' /\ StartedAll' /\ GateServed' /\ ReleasedServed' /\ GateCanWatch'
    BY <1>10 DEF CacheSyncs, UngatedDirect, StartedAll, GateServed, ReleasedServed, GateCanWatch
  <2> QED
    BY <1>0, <2>1, <2>2, <2>3, <2>4, <2>5
<1>11. ASSUME NEW c \in Controllers, CacheSyncFails(c) PROVE StartUp'
  <2>1. TypeOK'
    BY <1>11 DEF CacheSyncFails, TypeOK
  <2>2. AsksFirst'
    BY <1>11 DEF CacheSyncFails, TypeOK, AsksFirst
  <2>3. StartedAll'
    BY <1>11 DEF CacheSyncFails, TypeOK, StartedAll
  <2>4. AddedOnlyWhenServed'
    BY <1>11 DEF CacheSyncFails, TypeOK, AddedOnlyWhenServed
  <2>5. UngatedDirect' /\ DoneAdded' /\ GateServed' /\ ReleasedServed' /\ GateCanWatch'
    BY <1>11 DEF CacheSyncFails, UngatedDirect, DoneAdded, GateServed, ReleasedServed, GateCanWatch
  <2> QED
    BY <1>0, <2>1, <2>2, <2>3, <2>4, <2>5
<1>12. CASE Restart
  <2>1. TypeOK'
    <3>1. /\ fn' \in [Setups -> {"todo", "waiting", "released", "done", "failed"}]
          /\ ctl' \in [Controllers -> {"none", "starting", "running"}]
      BY <1>12 DEF Restart, Boot
    <3>2. /\ phase' = "precheck" /\ asked' = 0 /\ gated' \in BOOLEAN
          /\ synced' \in BOOLEAN /\ gate' = {}
      BY <1>12 DEF Restart, Boot
    <3> QED
      BY <1>12, <3>1, <3>2 DEF Restart, TypeOK
  <2>2. AsksFirst'
    BY <1>12 DEF Restart, Boot, TypeOK, AsksFirst
  <2>3. UngatedDirect'
    BY <1>12 DEF Restart, Boot, TypeOK, UngatedDirect
  <2>4. DoneAdded'
    BY <1>12 DEF Restart, Boot, TypeOK, DoneAdded
  <2>5. StartedAll'
    BY <1>12 DEF Restart, Boot, TypeOK, StartedAll
  <2>6. GateServed'
    BY <1>12 DEF Restart, Boot, TypeOK, GateServed
  <2>7. ReleasedServed'
    BY <1>12 DEF Restart, Boot, TypeOK, ReleasedServed
  <2>8. AddedOnlyWhenServed'
    BY <1>12 DEF Restart, Boot, TypeOK, AddedOnlyWhenServed
  <2>9. GateCanWatch'
    BY <1>12 DEF Restart, Boot, TypeOK, GateCanWatch
  <2> QED
    BY <1>0, <2>1, <2>2, <2>3, <2>4, <2>5, <2>6, <2>7, <2>8, <2>9
<1>13. ASSUME NEW k \in Kinds, ServeKind(k) PROVE StartUp'
  <2>1. TypeOK'
    BY <1>13 DEF ServeKind, TypeOK
  <2>2. GateServed'
    BY <1>13 DEF ServeKind, TypeOK, GateServed
  <2>3. ReleasedServed'
    BY <1>13 DEF ServeKind, TypeOK, ReleasedServed
  <2>4. AddedOnlyWhenServed'
    BY <1>13 DEF ServeKind, TypeOK, AddedOnlyWhenServed
  <2>5. AsksFirst' /\ UngatedDirect' /\ DoneAdded' /\ StartedAll' /\ GateCanWatch'
    BY <1>13 DEF ServeKind, AsksFirst, UngatedDirect, DoneAdded, StartedAll, GateCanWatch
  <2> QED
    BY <1>0, <2>1, <2>2, <2>3, <2>4, <2>5
<1>14. ASSUME NEW k \in Kinds, RemoveKind(k) PROVE StartUp'
  <2>1. TypeOK'
    BY <1>14 DEF RemoveKind, TypeOK
  <2>2. AsksFirst'
    BY <1>14 DEF RemoveKind, TypeOK, AsksFirst
  <2>3. GateServed'
    BY <1>14 DEF RemoveKind, TypeOK, GateServed
  <2>4. ReleasedServed'
    BY <1>14 DEF RemoveKind, TypeOK, ReleasedServed
  <2>5. AddedOnlyWhenServed'
    BY <1>14 DEF RemoveKind, TypeOK, AddedOnlyWhenServed
  <2>6. GateCanWatch'
    BY <1>14 DEF RemoveKind, TypeOK, GateCanWatch
  <2>7. UngatedDirect' /\ DoneAdded' /\ StartedAll'
    BY <1>14 DEF RemoveKind, UngatedDirect, DoneAdded, StartedAll
  <2> QED
    BY <1>0, <2>1, <2>2, <2>3, <2>4, <2>5, <2>6, <2>7
<1>15. ASSUME NEW v \in {Verbs[i] : i \in 1..Len(Verbs)}, ChangeAccess(v) PROVE StartUp'
  <2>1. TypeOK'
    BY <1>15 DEF ChangeAccess, TypeOK
  <2>2. AsksFirst'
    BY <1>15 DEF ChangeAccess, TypeOK, AsksFirst
  <2>3. GateServed'
    BY <1>15 DEF ChangeAccess, TypeOK, GateServed
  <2>4. ReleasedServed'
    BY <1>15 DEF ChangeAccess, TypeOK, ReleasedServed
  <2>5. AddedOnlyWhenServed'
    BY <1>15 DEF ChangeAccess, TypeOK, AddedOnlyWhenServed
  <2>6. GateCanWatch'
    BY <1>15 DEF ChangeAccess, TypeOK, GateCanWatch
  <2>7. UngatedDirect' /\ DoneAdded' /\ StartedAll'
    BY <1>15 DEF ChangeAccess, UngatedDirect, DoneAdded, StartedAll
  <2> QED
    BY <1>0, <2>1, <2>2, <2>3, <2>4, <2>5, <2>6, <2>7
<1>16. CASE GateSetupFails
  <2>1. TypeOK'
    BY <1>16 DEF GateSetupFails, TypeOK
  <2>2. AsksFirst' /\ StartedAll'
    BY <1>16 DEF GateSetupFails, TypeOK, AsksFirst, StartedAll
  <2>3. AddedOnlyWhenServed'
    BY <1>16 DEF GateSetupFails, TypeOK, AddedOnlyWhenServed
  <2>4. UngatedDirect' /\ DoneAdded' /\ GateServed' /\ ReleasedServed' /\ GateCanWatch'
    BY <1>16 DEF GateSetupFails, UngatedDirect, DoneAdded, GateServed, ReleasedServed, GateCanWatch
  <2> QED
    BY <1>0, <2>1, <2>2, <2>3, <2>4
<1>17. CASE GateSyncs
  <2>1. TypeOK'
    BY <1>17 DEF GateSyncs, TypeOK
  <2>2. AsksFirst' /\ StartedAll'
    BY <1>17 DEF GateSyncs, AsksFirst, StartedAll
  <2>3. AddedOnlyWhenServed'
    BY <1>17 DEF GateSyncs, AddedOnlyWhenServed
  <2>4. UngatedDirect' /\ DoneAdded' /\ GateServed' /\ ReleasedServed' /\ GateCanWatch'
    BY <1>17 DEF GateSyncs, UngatedDirect, DoneAdded, GateServed, ReleasedServed, GateCanWatch
  <2> QED
    BY <1>0, <2>1, <2>2, <2>3, <2>4
<1>18. CASE GateSyncFails
  <2>1. TypeOK'
    BY <1>18 DEF GateSyncFails, TypeOK
  <2>2. AsksFirst' /\ StartedAll'
    BY <1>18 DEF GateSyncFails, TypeOK, AsksFirst, StartedAll
  <2>3. AddedOnlyWhenServed'
    <3>1. gated /\ changes = 0 => CanWatch
      BY VerbsGranted DEF GateCanWatch
    <3> QED
      BY <1>18, <3>1 DEF GateSyncFails, AddedOnlyWhenServed
  <2>4. UngatedDirect' /\ DoneAdded' /\ GateServed' /\ ReleasedServed' /\ GateCanWatch'
    BY <1>18 DEF GateSyncFails, UngatedDirect, DoneAdded, GateServed, ReleasedServed, GateCanWatch
  <2> QED
    BY <1>0, <2>1, <2>2, <2>3, <2>4
<1>19. CASE UNCHANGED vars
  BY <1>0, <1>19 DEF vars, TypeOK, AsksFirst, UngatedDirect, DoneAdded, StartedAll, GateServed, ReleasedServed, AddedOnlyWhenServed, GateCanWatch, NameFree
<1> QED
  BY <1>0, <1>1, <1>2, <1>3, <1>4, <1>5, <1>6, <1>7, <1>8, <1>9, <1>10, <1>11, <1>12, <1>13, <1>14, <1>15, <1>16, <1>17, <1>18, <1>19 DEF Next, Process

(* The start-up begins in and keeps to the inductive invariant.            *)
THEOREM StartUpAlways == Spec => []StartUp
BY InitStartUp, StepStartUp, PTL DEF Spec

(* All variables stay in their types, for any set of kinds and any bounds. *)
THEOREM TypeCorrect == Spec => []TypeOK
<1>1. StartUp => TypeOK
  BY DEF StartUp
<1> QED
  BY <1>1, StartUpAlways, PTL

(* Behind the gate no controller is added before every kind it watches is  *)
(* served, so only a failed call or a removed CRD ends the process.        *)
THEOREM AddedOnlyWhenServedAlways == Spec => []AddedOnlyWhenServed
<1>1. StartUp => AddedOnlyWhenServed
  BY DEF StartUp
<1> QED
  BY <1>1, StartUpAlways, PTL

(* Without SafeStart the manager starts with every controller of both      *)
(* scopes or not at all.                                                   *)
THEOREM AllOrNothingAlways == Spec => []AllOrNothing
<1>1. StartUp => AllOrNothing
  <2> SUFFICES ASSUME StartUp, phase = "started", ~gated, NEW c \in Controllers
               PROVE  ctl[c] # "none"
    BY DEF AllOrNothing
  <2>1. PICK f \in Setups : \E i \in 1..Len(Adds(f)) : Adds(f)[i] = c
    BY EveryControllerIsAdded
  <2>2. fn[f] = "done"
    BY DEF StartUp, StartedAll, UngatedDirect
  <2> QED
    BY <2>1, <2>2 DEF StartUp, DoneAdded
<1> QED
  BY <1>1, StartUpAlways, PTL

(* A failed call costs one setup behind the gate and nothing else does: no *)
(* two controllers of the shared manager take one name.                    *)
THEOREM NoSilentLossAlways == Spec => []NoSilentLoss
<1>1. StartUp => NoSilentLoss
  BY DEF StartUp
<1> QED
  BY <1>1, StartUpAlways, PTL

(* SafeStart is only on with every verb of the precheck granted.           *)
THEOREM GateCanWatchAlways == Spec => []GateCanWatch
<1>1. StartUp => GateCanWatch
  BY DEF StartUp
<1> QED
  BY <1>1, StartUpAlways, PTL

=============================================================================
