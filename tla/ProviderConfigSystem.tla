------------------------ MODULE ProviderConfigSystem ------------------------
(***************************************************************************)
(* The provider-config subsystem as it runs: one connect call at a time    *)
(* for each managed resource, one reconcile at a time for each             *)
(* ProviderConfig, users who edit and delete both, Kubernetes collecting   *)
(* usages, an informer cache that lags, failed calls and restarts.         *)
(***************************************************************************)
EXTENDS Clients, ProviderConfigController

Users ==
    \/ \E c \in Configs : \/ \E loc \in Locations : CreateConfig(c, loc) \/ EditConfig(c, loc)
                          \/ DeleteConfig(c)
    \/ \E m \in MRs : DeleteMR(m) \/ \E ref \in RefsOf(m) : EditRef(m, ref)
    \/ \E s \in Secrets, content \in Contents : RotateSecret(s, content)

Next ==
    \/ \E m \in MRs : Connect(m) \/ ConnectFails(m) \/ CollectUsage(m) \/ DeliverUsage(m)
    \/ \E c \in Configs : Reconcile(c)
    \/ Users
    \/ Crash

Spec == Init /\ [][Next]_vars

(* Every managed resource is polled (main.go: poll) and retried with       *)
(* backoff after an error, every ProviderConfig is resynced (main.go:      *)
(* sync) and its conflicts retried, watch events arrive and the garbage    *)
(* collector runs.  Users, failures and restarts are not fair.             *)
Fairness ==
    /\ \A m \in MRs : WF_vars(Connect(m)) /\ WF_vars(CollectUsage(m)) /\ WF_vars(DeliverUsage(m))
    /\ \A c \in Configs : WF_vars(Reconcile(c))

FairSpec == Spec /\ Fairness

-----------------------------------------------------------------------------
(* Whenever a managed resource holds what it resolved from a               *)
(* ProviderConfig beyond the Track call, its usage of exactly that         *)
(* ProviderConfig is on record, unless the resource itself is gone: no     *)
(* operation runs with the credentials of a ProviderConfig that does not   *)
(* count it (unifi.go resolveLegacy, resolveModern: Track before return).  *)
UsedIsTracked ==
    \A m \in MRs : conn[m].phase \in {"tracked", "configured"} /\ mr[m].life # "gone"
                       => usage[m] = Resolved(m)

(* A namespaced managed resource that resolved a namespaced ProviderConfig *)
(* only ever reads a Secret of its own namespace, whatever the secretRef   *)
(* said and whoever edited it meanwhile (unifi.go resolveModern).          *)
SecretConfined ==
    \A m \in MRs : conn[m].phase # "idle" /\ Resolved(m).kind = LocalKind
                       => conn[m].loc = NoSecretRef \/ conn[m].loc.ns = Resolved(m).ns

(* While a reconcile is between its list and its write, it has counted     *)
(* every managed resource that uses the ProviderConfig, except those whose *)
(* usage had not reached the cache or was written since.                   *)
ListCoversUse ==
    \A c \in Configs : rec[c].phase = "listed"
                           => UsersOf(c, usage) \subseteq rec[c].users \cup rec[c].missed

(* A ProviderConfig that carries the finalizer never disappears under a    *)
(* managed resource whose usage the reconciler could have seen: when it    *)
(* goes, all who still use it tracked it too late for the list, or their   *)
(* usage had not reached the cache (the accounting that Setup in           *)
(* internal/controller/*/providerconfig is there for).                     *)
NoRemovalUnderUse ==
    [][\A c \in Configs :
          pc[c].life # "absent" /\ pc'[c].life = "absent" /\ pc[c].finalizer
              => UsersOf(c, usage) \subseteq rec[c].missed]_vars

(* A managed resource that has an external object is counted by some       *)
(* ProviderConfig at every moment until it is gone, through failed         *)
(* connects, edits of its reference and restarts of the provider.          *)
ManagedIsCounted ==
    \A m \in MRs : mr[m].life \in {"managed", "deleting"} => usage[m] # None

(* A connect call that has read a ProviderConfig read one of the three     *)
(* kinds, so the usage it writes refers to a ProviderConfig.  With TypeOK  *)
(* this is what makes the other invariants inductive.                      *)
ResolvedExists ==
    \A m \in MRs : conn[m].phase \in {"got", "tracked", "configured"}
                       => Resolved(m) \in Configs

Safe == /\ TypeOK
        /\ ResolvedExists
        /\ UsedIsTracked
        /\ ManagedIsCounted
        /\ SecretConfined
        /\ ListCoversUse

-----------------------------------------------------------------------------
(* The subsystem as UsageProtection sees it.                               *)
States ==
    [c \in Configs |->
        IF pc[c].life = "absent" THEN "absent"
        ELSE IF pc[c].life = "terminating" THEN "closing"
        ELSE IF pc[c].finalizer THEN "protected"
        ELSE "unprotected"]

FoundVacant == {c \in Configs : rec[c].phase = "listed" /\ rec[c].current /\ rec[c].users = {}}

Promise == INSTANCE UsageProtection WITH
    Users   <- MRs,
    config  <- States,
    using   <- usage,
    visible <- cache,
    vacant  <- FoundVacant

(* The two reconcilers together, with everything that happens between      *)
(* their calls, do nothing but what UsageProtection allows: a finalized    *)
(* ProviderConfig is let go only by a reconcile that found no user and     *)
(* whose write no other write has overtaken (unifi.go Track,               *)
(* providerconfig/config.go Setup).                                        *)
KeepsPromise == Promise!Spec

-----------------------------------------------------------------------------
Resolvable(m) ==
    LET c == ConfigOf(m, mr[m].ref)
    IN /\ mr[m].ref # NoRef
       /\ c \in Configs
       /\ pc[c].life # "absent"
       /\ Extractable(SecretOf(m, c, pc[c].loc))

(* A managed resource being deleted is let go, unless what it refers to    *)
(* cannot be resolved at some point: a terminating ProviderConfig it uses  *)
(* waits for it and still serves it, so the two do not wait on each other. *)
DeletionOfMRCompletes ==
    \A m \in MRs : mr[m].life = "deleting" ~> mr[m].life = "gone" \/ ~Resolvable(m)

(* A ProviderConfig being deleted goes once nothing uses it.               *)
DeletionOfConfigCompletes ==
    \A c \in Configs : pc[c].life = "terminating"
                           ~> pc[c].life = "absent" \/ UsersOf(c, usage) # {}

(* Accounting catches up with edits: a resource that keeps referring to a  *)
(* resolvable ProviderConfig is, at some later time, counted as its user.  *)
UsageConverges ==
    \A m \in MRs : Resolvable(m)
        ~> ~Resolvable(m) \/ mr[m].life = "gone" \/ usage[m] = ConfigOf(m, mr[m].ref)

=============================================================================
