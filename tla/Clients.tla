------------------------------- MODULE Clients -------------------------------
(***************************************************************************)
(* internal/clients/unifi.go: from a managed resource to the Terraform     *)
(* setup its operations run with.  TerraformSetupBuilder's function makes  *)
(* four calls to the API server, one after the other and each able to fail *)
(* or to see the effect of anybody's writes since the previous one: the    *)
(* managed resource has been read, its ProviderConfig is read, its usage   *)
(* is written, its credentials are read.                                   *)
(***************************************************************************)
EXTENDS ProviderConfigState

Resolved(m) == ConfigOf(m, conn[m].ref)   \* what m's connect call resolves to

(* The reconciler of m has read it and calls the setup function.  A nil    *)
(* reference is an error at once.                                          *)
StartConnect(m) ==
    /\ conn[m].phase = "idle"
    /\ mr[m].life # "gone"
    /\ mr[m].ref # NoRef
    /\ conn' = [conn EXCEPT ![m] = [phase |-> "started",
                                    life  |-> mr[m].life,
                                    ref   |-> mr[m].ref,
                                    loc   |-> NoSecretRef,
                                    setup |-> <<>>]]
    /\ UNCHANGED <<mr, pc, store, usage, cache, rec, edits, faults>>

(* Mutated form: a terminating ProviderConfig is treated as gone.          *)
FoundLive(m) == Resolved(m) \in Configs /\ pc[Resolved(m)].life = "live"

(* The object the reference denotes, when it is a kind of provider config  *)
(* and exists; a terminating one still does.                               *)
Found(m) == Resolved(m) \in Configs /\ pc[Resolved(m)].life # "absent"

GetConfig(m) ==
    /\ conn[m].phase = "started"
    /\ conn' = [conn EXCEPT ![m] =
                    IF Found(m)
                    THEN [@ EXCEPT !.phase = "got",
                                   !.loc = SecretOf(m, Resolved(m), pc[Resolved(m)].loc)]
                    ELSE IdleConn]
    /\ UNCHANGED <<mr, pc, store, usage, cache, rec, edits, faults>>

(* Mutated form: the usage is created once and never updated.              *)
TrackedOnce(m) == IF usage[m] = None THEN Resolved(m) ELSE usage[m]

(* Mutated form: no usage is taken of a ProviderConfig being deleted.      *)
TrackedUnlessTerminating(m) ==
    IF pc[Resolved(m)].life = "terminating" THEN usage[m] ELSE Resolved(m)

(* The usage of m after Track: a new one or the old one made to refer to   *)
(* what m has resolved.                                                    *)
TrackedUsage(m) == Resolved(m)

(* Track writes the usage; a reconcile that listed the usages before this  *)
(* cannot know of it.                                                      *)
Track(m) ==
    /\ conn[m].phase = "got"
    /\ usage' = [usage EXCEPT ![m] = TrackedUsage(m)]
    /\ rec' = [c \in Configs |->
                  IF c = Resolved(m) /\ rec[c].phase = "listed" /\ usage[m] # c
                  THEN [rec[c] EXCEPT !.missed = @ \cup {m}]
                  ELSE rec[c]]
    /\ conn' = [conn EXCEPT ![m].phase = "tracked"]
    /\ UNCHANGED <<mr, pc, store, cache, edits, faults>>

(* A credentials document is only to be had from a secretRef whose Secret  *)
(* exists; anything that is not a JSON map of strings is rejected.         *)
Extractable(loc) == loc \in Secrets /\ store[loc] \in Payloads

ExtractCredentials(m) ==
    /\ conn[m].phase = "tracked"
    /\ conn' = [conn EXCEPT ![m] =
                    IF Extractable(conn[m].loc)
                    THEN [@ EXCEPT !.phase = "configured",
                                   !.setup = Forwarded(Document[store[conn[m].loc]])]
                    ELSE IdleConn]
    /\ UNCHANGED <<mr, pc, store, usage, cache, rec, edits, faults>>

(* The managed reconciler uses the setup it was given: it creates the      *)
(* external object, or removes it and lets the managed resource go.  It    *)
(* acts on the managed resource it read at the start of the reconcile.     *)
Operate(m) ==
    /\ conn[m].phase = "configured"
    /\ mr' = IF conn[m].life # mr[m].life THEN mr
             ELSE [mr EXCEPT ![m].life = CASE @ = "live"     -> "managed"
                                           [] @ = "deleting" -> "gone"
                                           [] OTHER          -> @]
    /\ conn' = [conn EXCEPT ![m] = IdleConn]
    /\ UNCHANGED <<pc, store, usage, cache, rec, edits, faults>>

(* A call to the API server fails; the error is returned and everything    *)
(* done so far, the usage included, stays.                                 *)
ConnectFails(m) ==
    /\ conn[m].phase \in {"started", "got", "tracked"}
    /\ faults < MaxFaults
    /\ faults' = faults + 1
    /\ conn' = [conn EXCEPT ![m] = IdleConn]
    /\ UNCHANGED <<mr, pc, store, usage, cache, rec, edits>>

Connect(m) == StartConnect(m) \/ GetConfig(m) \/ Track(m)
                 \/ ExtractCredentials(m) \/ Operate(m)

=============================================================================
