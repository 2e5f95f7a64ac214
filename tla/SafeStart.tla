----------------------------- MODULE SafeStart -----------------------------
(***************************************************************************)
(* Start-up of the provider process (cmd/provider/main.go): it asks        *)
(* whether it may watch CustomResourceDefinitions and then sets up its     *)
(* controllers, either all of them at once or, when it may, each behind a  *)
(* gate that opens when the API server serves the kinds the controller     *)
(* needs.  The two scopes have a controller set each; both register at one *)
(* gate.  CRDs come and go, permissions change, a setup may fail, and      *)
(* kubelet restarts a process that has exited.                             *)
(***************************************************************************)
EXTENDS Naturals, Sequences, FiniteSets

CONSTANTS
    MRKinds,      \* kinds of managed resource, the same in both scopes
    MaxChanges,   \* bound on the changes of permissions and removals of CRDs
    MaxFaults     \* bound on the failures of a setup or a precheck call

ASSUME BoundsAssumption == MaxChanges \in Nat /\ MaxFaults \in Nat

(* No managed resource is called like a provider config.                   *)
ASSUME KindsAssumption ==
    MRKinds \cap {"providerconfig", "ProviderConfig", "ClusterProviderConfig",
                   "ProviderConfigUsage"} = {}

Scopes == {"cluster", "namespaced"}

(* A kind is served under the API group of its scope.                      *)
MR(s, k) == [scope |-> s, kind |-> k]
PC(s)    == [scope |-> s, kind |-> "ProviderConfig"]
PCU(s)   == [scope |-> s, kind |-> "ProviderConfigUsage"]
CPC      == [scope |-> "namespaced", kind |-> "ClusterProviderConfig"]

Kinds == [scope : Scopes, kind : MRKinds]
            \cup {PC(s) : s \in Scopes} \cup {PCU(s) : s \in Scopes} \cup {CPC}

(* A controller is named after the kind it reconciles.                     *)
Controllers == Kinds \ {PCU(s) : s \in Scopes}

(* The setup functions of the aggregators: one for each managed resource   *)
(* kind and one for the provider configs of each scope.                    *)
Setups == [scope : Scopes, kind : MRKinds \cup {"providerconfig"}]

(* The controllers a setup function adds, in this order.                   *)
Adds(f) == IF f.kind # "providerconfig" THEN <<MR(f.scope, f.kind)>>
           ELSE IF f.scope = "cluster" THEN <<PC("cluster")>>
           ELSE <<CPC, PC("namespaced")>>

(* The kinds a controller watches.                                         *)
Watched(c) == {c} \cup IF c = CPC \/ c \in {PC(s) : s \in Scopes} THEN {PCU(c.scope)} ELSE {}

(* Mutated form: the usage kind is not among the dependencies.             *)
DependenciesWithoutUsage(f) ==
    IF f.kind # "providerconfig" THEN {MR(f.scope, f.kind)}
    ELSE {PC(f.scope)} \cup IF f.scope = "namespaced" THEN {CPC} ELSE {}

(* The kinds SetupGated registers a setup function with.                   *)
Dependencies(f) ==
    IF f.kind # "providerconfig" THEN {MR(f.scope, f.kind)}
    ELSE {PC(f.scope), PCU(f.scope)} \cup IF f.scope = "namespaced" THEN {CPC} ELSE {}

(* Mutated form: a controller is named after its kind without the group.   *)
ControllerKindName(c) == c.kind

(* The name a controller takes in the manager, unique there.               *)
ControllerName(c) == <<c.scope, c.kind>>

Verbs == <<"get", "list", "watch">>

-----------------------------------------------------------------------------
VARIABLES
    crds,     \* the kinds the API server serves
    rbac,     \* the verbs the provider may use on CRDs
    phase,    \* "precheck", "setup", "started", "exited"
    asked,    \* verbs of the precheck that were allowed so far
    gated,    \* whether SafeStart is on
    fn,       \* state of each setup function
    ctl,      \* state of each controller
    synced,   \* whether the gate's CRD reconciler has its cache of CRDs
    gate,     \* the kinds the gate takes for served
    changes, faults

vars == <<crds, rbac, phase, asked, gated, fn, ctl, synced, gate, changes, faults>>

TypeOK ==
    /\ crds \subseteq Kinds
    /\ rbac \subseteq {Verbs[i] : i \in 1..3}
    /\ phase \in {"precheck", "setup", "started", "exited"}
    /\ asked \in 0..3 /\ (phase = "precheck" => asked < Len(Verbs))
    /\ gated \in BOOLEAN
    /\ fn \in [Setups -> {"todo", "waiting", "released", "done", "failed"}]
    /\ ctl \in [Controllers -> {"none", "starting", "running"}]
    /\ synced \in BOOLEAN
    /\ gate \subseteq Kinds
    /\ changes \in 0..MaxChanges
    /\ faults \in 0..MaxFaults

Boot ==   \* the state of a new process
    /\ phase' = "precheck"
    /\ asked' = 0
    /\ gated' = FALSE
    /\ fn' = [f \in Setups |-> "todo"]
    /\ ctl' = [c \in Controllers |-> "none"]
    /\ synced' = FALSE
    /\ gate' = {}

Init ==
    /\ crds \in {{}, Kinds}
    /\ rbac \in SUBSET {Verbs[i] : i \in 1..3}
    /\ phase = "precheck"
    /\ asked = 0
    /\ gated = FALSE
    /\ fn = [f \in Setups |-> "todo"]
    /\ ctl = [c \in Controllers |-> "none"]
    /\ synced = FALSE
    /\ gate = {}
    /\ changes = 0
    /\ faults = 0

Fault == faults < MaxFaults /\ faults' = faults + 1
Change == changes < MaxChanges /\ changes' = changes + 1

-----------------------------------------------------------------------------
(* Mutated form: asking is over after the first verb.                      *)
LastVerbEarly(i) == i = 1

LastVerb(i) == i = Len(Verbs)

(* One SelfSubjectAccessReview.  A verb that is refused ends the precheck  *)
(* and switches SafeStart off.                                             *)
CanWatchCRD ==
    /\ phase = "precheck"
    /\ IF Verbs[asked + 1] \in rbac
       THEN /\ asked' = asked + 1
            /\ gated' = LastVerb(asked + 1)
            /\ phase' = IF LastVerb(asked + 1) THEN "setup" ELSE phase
       ELSE phase' = "setup" /\ gated' = FALSE /\ UNCHANGED asked
    /\ UNCHANGED <<crds, rbac, fn, ctl, synced, gate, changes, faults>>

(* A review that cannot be made ends the process.                          *)
PrecheckFails ==
    /\ phase = "precheck"
    /\ Fault
    /\ phase' = "exited"
    /\ UNCHANGED <<crds, rbac, asked, gated, fn, ctl, synced, gate, changes>>

(* Adding a controller whose name is taken is an error.                    *)
NameFree(c) == \A d \in Controllers : ctl[d] # "none" => ControllerName(d) # ControllerName(c)

(* The i-th controller is the one setup function f comes to next.           *)
ComesTo(f, i) ==
    /\ i \in 1..Len(Adds(f))
    /\ ctl[Adds(f)[i]] = "none"
    /\ \A j \in 1..(i - 1) : ctl[Adds(f)[j]] # "none"

(* A setup function that runs adds its next controller.                    *)
AddController(f) ==
    \E i \in 1..Len(Adds(f)) :
        /\ ComesTo(f, i)
        /\ NameFree(Adds(f)[i])
        /\ ctl' = [ctl EXCEPT ![Adds(f)[i]] = "starting"]
        /\ fn' = [fn EXCEPT ![f] = IF i = Len(Adds(f)) THEN "done" ELSE @]

(* Its name is taken or the call fails.                                    *)
AddFails(f) ==
    \/ /\ \E i \in 1..Len(Adds(f)) : ComesTo(f, i) /\ ~NameFree(Adds(f)[i])
       /\ UNCHANGED faults
    \/ Fault

(* The aggregators work through the cluster-scoped set and then the        *)
(* namespaced one.                                                         *)
Turn(f) == /\ fn[f] = "todo"
           /\ f.scope = "namespaced" =>
                 \A g \in Setups : g.scope = "cluster" => fn[g] # "todo"

(* The gate's CRD reconciler cannot be added to the manager.               *)
GateSetupFails ==
    /\ phase = "setup" /\ gated
    /\ \A f \in Setups : fn[f] = "todo"
    /\ Fault
    /\ phase' = "exited"
    /\ UNCHANGED <<crds, rbac, asked, gated, fn, ctl, synced, gate, changes>>

(* SafeStart: only register at the gate.                                   *)
SetupGated(f) ==
    /\ phase = "setup" /\ gated /\ Turn(f)
    /\ fn' = [fn EXCEPT ![f] = "waiting"]
    /\ UNCHANGED <<crds, rbac, phase, asked, gated, ctl, synced, gate, changes, faults>>

(* No SafeStart: set up at once.                                           *)
Setup(f) ==
    /\ phase = "setup" /\ ~gated /\ Turn(f)
    /\ AddController(f)
    /\ UNCHANGED <<crds, rbac, phase, asked, gated, synced, gate, changes, faults>>

(* Mutated form: an error of one setup function is logged.                 *)
SetupErrorLogged(f) ==
    /\ phase = "setup" /\ ~gated /\ Turn(f)
    /\ AddFails(f)
    /\ fn' = [fn EXCEPT ![f] = "failed"]
    /\ UNCHANGED <<crds, rbac, phase, asked, gated, ctl, synced, gate, changes>>

(* The first error ends the process.                                       *)
SetupFails(f) ==
    /\ phase = "setup" /\ ~gated /\ Turn(f)
    /\ AddFails(f)
    /\ phase' = "exited"
    /\ UNCHANGED <<crds, rbac, asked, gated, fn, ctl, synced, gate, changes>>

StartManager ==
    /\ phase = "setup"
    /\ \A f \in Setups : fn[f] # "todo"
    /\ phase' = "started"
    /\ UNCHANGED <<crds, rbac, asked, gated, fn, ctl, synced, gate, changes, faults>>

-----------------------------------------------------------------------------
CanWatch == {"list", "watch"} \subseteq rbac

(* The manager starts the CRD reconciler: its cache syncs while CRDs may   *)
(* be listed and watched; else the manager, and so the process, ends.      *)
GateSyncs ==
    /\ phase = "started" /\ gated /\ ~synced
    /\ CanWatch
    /\ synced' = TRUE
    /\ UNCHANGED <<crds, rbac, phase, asked, gated, fn, ctl, gate, changes, faults>>

GateSyncFails ==
    /\ phase = "started" /\ gated /\ ~synced
    /\ ~CanWatch
    /\ phase' = "exited"
    /\ UNCHANGED <<crds, rbac, asked, gated, fn, ctl, synced, gate, changes, faults>>

Released(f, served) == fn[f] = "waiting" /\ Dependencies(f) \subseteq served

(* The CRD reconciler tells the gate about a kind; the gate releases every *)
(* registered function whose dependencies are then all served.  A watch    *)
(* that is open may outlast the permission (authorization is of the        *)
(* request that opens it), but nothing says that it does: see FairSpec.    *)
SetGate(k) ==
    /\ phase = "started" /\ gated /\ synced
    /\ (k \in gate) # (k \in crds)
    /\ gate' = IF k \in crds THEN gate \cup {k} ELSE gate \ {k}
    /\ fn' = [f \in Setups |-> IF Released(f, gate') THEN "released" ELSE fn[f]]
    /\ UNCHANGED <<crds, rbac, phase, asked, gated, ctl, synced, changes, faults>>

(* A released function runs in a goroutine of its own, once.               *)
RunReleased(f) ==
    /\ phase = "started" /\ fn[f] = "released"
    /\ AddController(f)
    /\ UNCHANGED <<crds, rbac, phase, asked, gated, synced, gate, changes, faults>>

(* Its error is only logged: what it has added stays, the rest is never    *)
(* added by this process.                                                  *)
ReleasedFails(f) ==
    /\ phase = "started" /\ fn[f] = "released"
    /\ AddFails(f)
    /\ fn' = [fn EXCEPT ![f] = "failed"]
    /\ UNCHANGED <<crds, rbac, phase, asked, gated, ctl, synced, gate, changes>>

(* The manager starts a controller: its caches sync when every kind it     *)
(* watches is served, and when one is not, the manager, and so the         *)
(* process, ends.                                                          *)
CacheSyncs(c) ==
    /\ phase = "started" /\ ctl[c] = "starting"
    /\ Watched(c) \subseteq crds
    /\ ctl' = [ctl EXCEPT ![c] = "running"]
    /\ UNCHANGED <<crds, rbac, phase, asked, gated, fn, synced, gate, changes, faults>>

CacheSyncFails(c) ==
    /\ phase = "started" /\ ctl[c] = "starting"
    /\ ~(Watched(c) \subseteq crds)
    /\ phase' = "exited"
    /\ UNCHANGED <<crds, rbac, asked, gated, fn, ctl, synced, gate, changes, faults>>

Restart ==
    /\ phase = "exited"
    /\ Boot
    /\ UNCHANGED <<crds, rbac, changes, faults>>

-----------------------------------------------------------------------------
(* The package manager installs the CRDs one by one.                       *)
ServeKind(k) ==
    /\ k \notin crds
    /\ crds' = crds \cup {k}
    /\ UNCHANGED <<rbac, phase, asked, gated, fn, ctl, synced, gate, changes, faults>>

RemoveKind(k) ==
    /\ Change
    /\ k \in crds
    /\ crds' = crds \ {k}
    /\ UNCHANGED <<rbac, phase, asked, gated, fn, ctl, synced, gate, faults>>

ChangeAccess(v) ==
    /\ Change
    /\ rbac' = IF v \in rbac THEN rbac \ {v} ELSE rbac \cup {v}
    /\ UNCHANGED <<crds, phase, asked, gated, fn, ctl, synced, gate, faults>>

Process ==
    \/ CanWatchCRD \/ PrecheckFails \/ GateSetupFails
    \/ StartManager \/ GateSyncs \/ GateSyncFails
    \/ \E f \in Setups : SetupGated(f) \/ Setup(f) \/ SetupFails(f)
                             \/ RunReleased(f) \/ ReleasedFails(f)
    \/ \E k \in Kinds : SetGate(k)
    \/ \E c \in Controllers : CacheSyncs(c) \/ CacheSyncFails(c)

Next ==
    \/ Process
    \/ Restart
    \/ \E k \in Kinds : ServeKind(k) \/ RemoveKind(k)
    \/ \E i \in 1..Len(Verbs) : ChangeAccess(Verbs[i])

Spec == Init /\ [][Next]_vars

(* The process runs on, goroutines are scheduled, kubelet restarts, the    *)
(* package manager installs, and the CRD reconciler gets its events as     *)
(* long as the provider may list and watch CRDs, no longer.                *)
FairSpec ==
    /\ Spec
    /\ WF_vars(CanWatchCRD) /\ WF_vars(StartManager) /\ WF_vars(Restart)
    /\ WF_vars(GateSyncs) /\ WF_vars(GateSyncFails)
    /\ \A f \in Setups : WF_vars(SetupGated(f)) /\ WF_vars(Setup(f) \/ SetupFails(f))
                             /\ WF_vars(RunReleased(f))
    /\ \A k \in Kinds : WF_vars(CanWatch /\ SetGate(k)) /\ WF_vars(ServeKind(k))
    /\ \A c \in Controllers : WF_vars(CacheSyncs(c)) /\ WF_vars(CacheSyncFails(c))

-----------------------------------------------------------------------------
(* Behind the gate no controller is added before the API server serves     *)
(* every kind it watches, so an incomplete installation never ends the     *)
(* process: the dependencies each SetupGated registers cover what the      *)
(* Setup behind it watches.  (A CRD removed again may still.)              *)
AddedOnlyWhenServed ==
    gated /\ changes = 0 =>
        /\ \A c \in Controllers : ctl[c] # "none" => Watched(c) \subseteq crds
        /\ phase = "exited" => faults > 0

(* Without SafeStart the manager only starts with every controller of both *)
(* scopes set up: an error of any of them ends the process.                *)
AllOrNothing ==
    phase = "started" /\ ~gated => \A c \in Controllers : ctl[c] # "none"

(* The setup functions this process has lost behind the gate.              *)
Lost == {f \in Setups : fn[f] = "failed"}

(* A failed call costs one setup function and no other: neither does a     *)
(* name taken by the other scope in the shared manager make one fail, nor  *)
(* does a failure reach the functions the gate releases with it.  Nobody   *)
(* would notice, since the error is only logged.                           *)
NoSilentLoss == IsFiniteSet(Lost) /\ Cardinality(Lost) <= faults

(* SafeStart is only on when every verb the CRD reconciler needs was       *)
(* granted (unless permissions changed since).                             *)
GateCanWatch == gated /\ changes = 0 => \A i \in 1..Len(Verbs) : Verbs[i] \in rbac

(* What else holds in every state; with the invariants above it is         *)
(* inductive.                                                              *)
AsksFirst ==
    phase = "precheck" =>
        /\ ~gated
        /\ \A f \in Setups : fn[f] = "todo"
        /\ \A c \in Controllers : ctl[c] = "none"
        /\ changes = 0 => \A i \in 1..asked : Verbs[i] \in rbac

UngatedDirect == ~gated => \A f \in Setups : fn[f] \in {"todo", "done"}

DoneAdded ==
    \A f \in Setups : fn[f] = "done" => \A i \in 1..Len(Adds(f)) : ctl[Adds(f)[i]] # "none"

StartedAll == phase = "started" => \A f \in Setups : fn[f] # "todo"

GateServed == changes = 0 => gate \subseteq crds

ReleasedServed ==
    changes = 0 => \A f \in Setups : fn[f] = "released" => Dependencies(f) \subseteq crds

StartUp ==
    /\ TypeOK /\ AsksFirst /\ UngatedDirect /\ DoneAdded /\ StartedAll
    /\ GateServed /\ ReleasedServed
    /\ AddedOnlyWhenServed /\ NoSilentLoss /\ GateCanWatch

(* The functions that wait at a gate nobody tells about CRDs any more: the *)
(* permission was withdrawn after the CRD reconciler had synced, and the   *)
(* process runs on.                                                        *)
Blind(f) == gated /\ synced /\ ~CanWatch /\ fn[f] = "waiting"

(* Once the CRDs are installed and changes have ceased every controller    *)
(* ends up running, with or without SafeStart and after any restarts.  The *)
(* only ones that do not were never added: their setup function failed     *)
(* behind the gate before it came to them, or waits at a blind gate.       *)
EveryControllerComesUp ==
    <>[](\A c \in Controllers :
            \/ ctl[c] = "running"
            \/ /\ ctl[c] = "none"
               /\ \E f \in Setups : /\ \E i \in 1..Len(Adds(f)) : Adds(f)[i] = c
                                    /\ f \in Lost \/ Blind(f))

=============================================================================
