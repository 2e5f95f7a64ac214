------------------------- MODULE ProviderConfigState -------------------------
(***************************************************************************)
(* The state the provider-config subsystem shares: the objects in the API  *)
(* server, the provider's informer cache, and what each of its reconcilers *)
(* holds in memory between two calls.  The actions of users and of         *)
(* Kubernetes itself are here; those of the provider are in Clients and    *)
(* ProviderConfigController.                                               *)
(***************************************************************************)
EXTENDS ProviderConfigTypes, Naturals

CONSTANTS MaxEdits,  \* bound on the number of user actions
          MaxFaults  \* bound on the number of failed calls and crashes

ASSUME BoundsAssumption == MaxEdits \in Nat /\ MaxFaults \in Nat

VARIABLES
    mr,     \* managed resources: how far their life has got, and their ref
    pc,     \* ProviderConfig objects of the three kinds
    store,  \* the credentials Secrets
    usage,  \* ProviderConfigUsage of each managed resource, or None
    cache,  \* the usages as the informer cache shows them
    conn,   \* the connect call in flight for each managed resource
    rec,    \* the reconcile in flight for each ProviderConfig
    edits, faults

vars == <<mr, pc, store, usage, cache, conn, rec, edits, faults>>

None == NoRef   \* no ProviderConfigUsage: it refers to nothing

AbsentConfig == [life |-> "absent", finalizer |-> FALSE,
                 loc |-> NoSecretRef, users |-> {}]
IdleConn == [phase |-> "idle", life |-> "live", ref |-> NoRef,
             loc |-> NoSecretRef, setup |-> <<>>]
IdleRec == [phase |-> "idle", users |-> {}, current |-> FALSE, missed |-> {}]

(* The managed resources whose usage, in a view of the usages, is of c.    *)
UsersOf(c, view) == {m \in MRs : view[m] = c}

-----------------------------------------------------------------------------
(* Life of a managed resource: "live" before the finalizer is on it,       *)
(* "managed" once its external object exists, "deleting" from the delete   *)
(* request until the finalizer is taken off.                               *)
Lives == {"live", "managed", "deleting", "gone"}

Usages == Configs \cup {None}

ConfigType == [life : {"absent", "live", "terminating"}, finalizer : BOOLEAN,
               loc : Locations, users : SUBSET MRs]

Setups == {Forwarded(Document[p]) : p \in Payloads} \cup {<<>>}

ConnType == [phase : {"idle", "started", "got", "tracked", "configured"},
             life : Lives, ref : Refs, loc : Locations, setup : Setups]

RecType == [phase : {"idle", "listed"}, users : SUBSET MRs,
            current : BOOLEAN, missed : SUBSET MRs]

TypeOK ==
    /\ mr \in [MRs -> [life : Lives, ref : Refs]]
    /\ pc \in [Configs -> ConfigType]
    /\ store \in [Secrets -> Contents]
    /\ usage \in [MRs -> Usages]
    /\ cache \in [MRs -> Usages]
    /\ conn \in [MRs -> ConnType]
    /\ rec \in [Configs -> RecType]
    /\ edits \in 0..MaxEdits
    /\ faults \in 0..MaxFaults

(* Objects may be there before the provider first runs: managed resources  *)
(* with any reference, ProviderConfigs that no controller has touched.     *)
Init ==
    /\ mr \in [MRs -> [life : {"live"}, ref : Refs]]
    /\ \A m \in MRs : mr[m].ref \in RefsOf(m)
    /\ pc \in [Configs -> [life : {"live"}, finalizer : {FALSE},
                           loc : Locations, users : {{}}] \cup {AbsentConfig}]
    /\ store \in [Secrets -> Payloads]
    /\ usage = [m \in MRs |-> None]
    /\ cache = usage
    /\ conn = [m \in MRs |-> IdleConn]
    /\ rec = [c \in Configs |-> IdleRec]
    /\ edits = 0
    /\ faults = 0

-----------------------------------------------------------------------------
(* Every write to a ProviderConfig moves its resourceVersion, so a write   *)
(* based on an earlier read of it is rejected as a conflict.               *)
WriteConfig(c, object) ==
    /\ pc' = [pc EXCEPT ![c] = object]
    /\ rec' = [rec EXCEPT ![c].current = FALSE]

Edit == edits < MaxEdits /\ edits' = edits + 1

CreateConfig(c, loc) ==
    /\ Edit
    /\ pc[c].life = "absent"
    /\ WriteConfig(c, [AbsentConfig EXCEPT !.life = "live", !.loc = loc])
    /\ UNCHANGED <<mr, store, usage, cache, conn, faults>>

EditConfig(c, loc) ==
    /\ Edit
    /\ pc[c].life # "absent"
    /\ loc # pc[c].loc
    /\ WriteConfig(c, [pc[c] EXCEPT !.loc = loc])
    /\ UNCHANGED <<mr, store, usage, cache, conn, faults>>

(* A delete request removes an object without finalizers at once.          *)
DeleteConfig(c) ==
    /\ Edit
    /\ pc[c].life = "live"
    /\ WriteConfig(c, IF pc[c].finalizer
                      THEN [pc[c] EXCEPT !.life = "terminating"]
                      ELSE AbsentConfig)
    /\ UNCHANGED <<mr, store, usage, cache, conn, faults>>

EditRef(m, ref) ==
    /\ Edit
    /\ mr[m].life # "gone"
    /\ ref # mr[m].ref
    /\ mr' = [mr EXCEPT ![m].ref = ref]
    /\ UNCHANGED <<pc, store, usage, cache, conn, rec, faults>>

DeleteMR(m) ==
    /\ Edit
    /\ mr[m].life \in {"live", "managed"}
    /\ mr' = [mr EXCEPT ![m].life = IF @ = "live" THEN "gone" ELSE "deleting"]
    /\ UNCHANGED <<pc, store, usage, cache, conn, rec, faults>>

RotateSecret(s, content) ==
    /\ Edit
    /\ content # store[s]
    /\ store' = [store EXCEPT ![s] = content]
    /\ UNCHANGED <<mr, pc, usage, cache, conn, rec, faults>>

(* The usage is owned by its managed resource, so it is collected after    *)
(* the resource is gone.                                                   *)
CollectUsage(m) ==
    /\ mr[m].life = "gone"
    /\ usage[m] # None
    /\ usage' = [usage EXCEPT ![m] = None]
    /\ UNCHANGED <<mr, pc, store, cache, conn, rec, edits, faults>>

(* A watch event brings the cached usage of m up to date.                  *)
DeliverUsage(m) ==
    /\ cache[m] # usage[m]
    /\ cache' = [cache EXCEPT ![m] = usage[m]]
    /\ UNCHANGED <<mr, pc, store, usage, conn, rec, edits, faults>>

(* The provider restarts: its memory is lost and its cache refilled.       *)
Crash ==
    /\ faults < MaxFaults
    /\ faults' = faults + 1
    /\ conn' = [m \in MRs |-> IdleConn]
    /\ rec' = [c \in Configs |-> IdleRec]
    /\ cache' = usage
    /\ UNCHANGED <<mr, pc, store, usage, edits>>

=============================================================================
