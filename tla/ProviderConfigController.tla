---------------------- MODULE ProviderConfigController ----------------------
(***************************************************************************)
(* The reconcilers that account for the usage of ProviderConfigs, one for  *)
(* each of the three kinds.  The providerconfig/config.go of each scope    *)
(* names the kind each one reconciles and the usage kind it counts (the    *)
(* two namespaced kinds share one); the reconciler itself is Crossplane's. *)
(* It keeps a finalizer on every ProviderConfig and takes it off a         *)
(* terminating one when no usage of it is left.                            *)
(***************************************************************************)
EXTENDS ProviderConfigState

(* Mutated form: the usages are selected by name alone, so the kinds and   *)
(* namespaces that share a usage kind are not told apart.                  *)
ListedByName(c) == {m \in MRs : cache[m] # None /\ cache[m].name = c.name}

(* Mutated form: the reconciler trusts the user count of its last status.  *)
ListedFromStatus(c) == pc[c].users

(* The usages of c as the cache lists them: those of its kind, its name    *)
(* and, for a namespaced one, its namespace.                               *)
Listed(c) == UsersOf(c, cache)

(* Read the ProviderConfig and, from the cache, list its usages.  Reading  *)
(* both at once loses nothing: a write to the object after it was read     *)
(* makes the reconcile's own write fail.                                   *)
ListUsages(c) ==
    /\ rec[c].phase = "idle"
    /\ pc[c].life # "absent"
    /\ rec' = [rec EXCEPT ![c] =
                  [phase   |-> "listed",
                   users   |-> Listed(c),
                   current |-> TRUE,
                   missed  |-> {m \in MRs : usage[m] = c /\ cache[m] # c}]]
    /\ UNCHANGED <<mr, pc, store, usage, cache, conn, edits, faults>>

(* Mutated form: the finalizer is taken off whoever still uses it.         *)
SettledEagerly(c) == IF pc[c].life = "terminating" THEN AbsentConfig
                     ELSE [pc[c] EXCEPT !.finalizer = TRUE, !.users = rec[c].users]

(* What the reconcile makes of the object: the user count and, unless it   *)
(* is terminating and unused, the finalizer.                               *)
Settled(c) ==
    IF pc[c].life = "terminating" /\ rec[c].users = {}
    THEN AbsentConfig
    ELSE [pc[c] EXCEPT !.finalizer = TRUE, !.users = rec[c].users]

(* Mutated form: the write goes through although it is out of date.        *)
SettleAnyway(c) ==
    /\ rec[c].phase = "listed"
    /\ pc' = [pc EXCEPT ![c] = Settled(c)]
    /\ rec' = [rec EXCEPT ![c] = IdleRec]
    /\ UNCHANGED <<mr, store, usage, cache, conn, edits, faults>>

(* The reconcile's writes; a conflict drops them and the key is retried.   *)
SettleConfig(c) ==
    /\ rec[c].phase = "listed"
    /\ pc' = IF rec[c].current THEN [pc EXCEPT ![c] = Settled(c)] ELSE pc
    /\ rec' = [rec EXCEPT ![c] = IdleRec]
    /\ UNCHANGED <<mr, store, usage, cache, conn, edits, faults>>

Reconcile(c) == ListUsages(c) \/ SettleConfig(c)

=============================================================================
