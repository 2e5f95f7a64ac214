------------------------------ MODULE References ------------------------------
(***************************************************************************)
(* Managed resources that refer to one another.  A reconcile reads a       *)
(* resource, resolves its references one after another in memory, writes   *)
(* what it resolved in one go, and only then creates or updates the        *)
(* external object, whose id is what others resolve to.  Users create and  *)
(* delete resources in any order and set or clear resolved fields by hand. *)
(* A value read from another resource is used some steps later, so it may  *)
(* be stale as one read from a lagging cache would be.                     *)
(***************************************************************************)
EXTENDS ReferenceTable, Naturals

CONSTANTS
    Resources,  \* names of managed resources
    Setups,     \* which kinds they are and how they are wired (see IsSetup)
    Raw,        \* an id a user supplies, of an object outside the cluster
    NoId,       \* no external name yet
    NoObject,   \* no external object
    MaxGen,     \* bound: external objects a name may have, one after another
    MaxEdits    \* bound: edits, deletions and interrupted reconciles

Parts == {"forProvider", "initProvider"}

(* A wired field has a reference to certain resources, or a selector that  *)
(* matches them, and a resolve policy: Always or IfNotPresent.             *)
Wire == [via : {"ref", "selector"}, always : BOOLEAN, targets : SUBSET Resources]

IsSetup(s) ==
    /\ s.used \subseteq Resources
    /\ s.kind \in [Resources -> STRING]
    /\ \A m \in Resources :
          \A p \in DOMAIN s.wiring[m] :
              /\ s.kind[m] \in DOMAIN references
              /\ p \in Parts \X {f[1] : f \in references[s.kind[m]]}
              /\ s.wiring[m][p] \in Wire

ASSUME SetupsAssumption == \A s \in Setups : IsSetup(s)

ASSUME BoundsAssumption == MaxGen \in Nat /\ MaxEdits \in Nat

(* The ids of the cluster's own external objects are pairs of a resource   *)
(* and a number: the foreign id and the missing one are neither.           *)
ASSUME NamesAssumption ==
    Raw \notin Resources \X Nat /\ NoId \notin Resources \X Nat

VARIABLES
    setup,    \* the kinds and the wiring; never changes
    life,     \* "absent", "live", "held" (has the finalizer) or "deleting"
    gen,      \* how many external objects the name has had
    id,       \* the external name
    spec,     \* wired field -> the ids and the references stored there
    ext,      \* the external object: field -> ids
    work,     \* the reconcile in progress
    emptied,  \* history: the fields a user emptied
    edits

vars == <<setup, life, gen, id, spec, ext, work, emptied, edits>>

Kind(m)   == setup.kind[m]
Wiring(m) == setup.wiring[m]
Wired(m)  == DOMAIN Wiring(m)
Fields(m) == {p[2] : p \in Wired(m)}
Ids == (Resources \X (1 .. MaxGen)) \cup {Raw}

Blank(m) ==
    [p \in Wired(m) |->
        [ids  |-> {},
         refs |-> IF Wiring(m)[p].via = "ref" THEN Wiring(m)[p].targets ELSE {}]]

Idle == [phase |-> "idle"]

Init ==
    /\ setup \in Setups
    /\ life = [m \in Resources |-> "absent"]
    /\ gen = [m \in Resources |-> 0]
    /\ id = [m \in Resources |-> NoId]
    /\ spec = [m \in Resources |-> Blank(m)]
    /\ ext = [m \in Resources |-> NoObject]
    /\ work = [m \in Resources |-> Idle]
    /\ emptied = [m \in Resources |-> {}]
    /\ edits = 0

-----------------------------------------------------------------------------
(* What ResolveReferences of a kind does, call by call: the fields of      *)
(* spec.forProvider, then the same fields of spec.initProvider.            *)
Calls(kind) ==
    LET fields == ResolverOf(kind)
        n == Len(fields)
    IN [i \in 1 .. 2 * n |->
           IF i <= n THEN [part |-> "forProvider", to |-> fields[i]]
                     ELSE [part |-> "initProvider", to |-> fields[i - n]]]

Place(call) == <<call.part, call.to.field>>

(* The calls that have a reference, a selector or a value to look at.      *)
WiredCalls(m) ==
    {i \in DOMAIN Calls(Kind(m)) : Place(Calls(Kind(m))[i]) \in Wired(m)}

(* Mutated forms: set values are looked at never, or whatever the policy.  *)
KeptNever(value, wire) == FALSE
KeptAlways(value, wire) == value.ids # {}

(* A value that is set is kept, unless the policy is Always.               *)
Kept(value, wire) == value.ids # {} /\ ~wire.always

(* The referents a call may read: those of its references or, for a        *)
(* selector that has not selected yet or always selects anew, all matches  *)
(* for a list and any match for a single id.                               *)
Referents(value, wire, to) ==
    LET matches == {t \in wire.targets : life[t] # "absent" /\ Kind(t) = to.to}
    IN IF wire.via = "ref" \/ (value.refs # {} /\ ~wire.always) THEN {value.refs}
       ELSE IF to.many THEN {matches}
       ELSE {{t} : t \in matches}

(* Mutated form: a referent without an external name is good enough.       *)
ExtractableUnnamed(t, to) == life[t] # "absent" /\ Kind(t) = to.to

(* A referent is found under the kind the resolver asks for, and has an    *)
(* external name to extract.                                               *)
Extractable(t, to) == life[t] # "absent" /\ Kind(t) = to.to /\ id[t] # NoId

Resolvable(referents, to) ==
    referents # {} /\ \A t \in referents : Extractable(t, to)

Begin(m) ==
    /\ work[m] = Idle
    /\ life[m] \in {"live", "held"}
    /\ work' = [work EXCEPT ![m] =
           [phase |-> "resolving", left |-> WiredCalls(m), read |-> spec[m], mg |-> spec[m]]]
    /\ UNCHANGED <<setup, life, gen, id, spec, ext, emptied, edits>>

(* The call whose turn it is.                                              *)
InTurn(m) == {i \in work[m].left : \A j \in work[m].left : i <= j}

KeepValue(m) ==
    /\ work[m].phase = "resolving"
    /\ \E i \in InTurn(m) :
        /\ LET p == Place(Calls(Kind(m))[i]) IN Kept(work[m].mg[p], Wiring(m)[p])
        /\ work' = [work EXCEPT ![m].left = @ \ {i}]
        /\ UNCHANGED <<setup, life, gen, id, spec, ext, emptied, edits>>

Resolve(m) ==
    /\ work[m].phase = "resolving"
    /\ \E i \in InTurn(m) :
        /\ LET call == Calls(Kind(m))[i]
               p == Place(call)
               value == work[m].mg[p]
           IN /\ ~Kept(value, Wiring(m)[p])
              /\ \E ts \in Referents(value, Wiring(m)[p], call.to) :
                    /\ Resolvable(ts, call.to)
                    /\ work' = [work EXCEPT ![m].left = @ \ {i},
                           ![m].mg[p] = [ids |-> {id[t] : t \in ts}, refs |-> ts]]
        /\ UNCHANGED <<setup, life, gen, id, spec, ext, emptied, edits>>

(* Mutated form: the error of a call is dropped and the next one made.     *)
ResolveSkips(m) ==
    /\ work[m].phase = "resolving"
    /\ \E i \in InTurn(m) : work' = [work EXCEPT ![m].left = @ \ {i}]
    /\ UNCHANGED <<setup, life, gen, id, spec, ext, emptied, edits>>

(* A call fails: the resolver returns, and what it had resolved is only in *)
(* memory.  The reconcile is retried.                                      *)
ResolveFails(m) ==
    /\ work[m].phase = "resolving"
    /\ \E i \in InTurn(m) :
        /\ LET call == Calls(Kind(m))[i]
               p == Place(call)
               value == work[m].mg[p]
               choices == Referents(value, Wiring(m)[p], call.to)
           IN /\ ~Kept(value, Wiring(m)[p])
              /\ choices = {} \/ \E ts \in choices : ~Resolvable(ts, call.to)
        /\ work' = [work EXCEPT ![m] = Idle]
        /\ UNCHANGED <<setup, life, gen, id, spec, ext, emptied, edits>>

(* After the last call, the fields that changed are written, whatever was  *)
(* written to the resource since it was read.                              *)
Persist(m) ==
    /\ work[m].phase = "resolving"
    /\ work[m].left = {}
    /\ LET changed == {p \in Wired(m) : work[m].mg[p] # work[m].read[p]}
           patched == [p \in Wired(m) |->
                          IF p \in changed THEN work[m].mg[p] ELSE spec[m][p]]
       IN /\ spec' = [spec EXCEPT ![m] = IF changed = {} THEN @ ELSE patched]
          /\ work' = [work EXCEPT ![m] =
                 [phase |-> "resolved", mg |-> IF changed = {} THEN work[m].mg ELSE patched]]
    /\ UNCHANGED <<setup, life, gen, id, ext, emptied, edits>>

AddFinalizer(m) ==
    /\ work[m].phase = "resolved"
    /\ life[m] = "live"
    /\ life' = [life EXCEPT ![m] = "held"]
    /\ UNCHANGED <<setup, gen, id, spec, ext, work, emptied, edits>>

-----------------------------------------------------------------------------
Stored(mg, part, f) == IF <<part, f>> \in DOMAIN mg THEN mg[<<part, f>>].ids ELSE {}

(* The parameters of the external object: spec.forProvider wins, and what  *)
(* only spec.initProvider has counts when the object is created.           *)
GetMergedParameters(mg, m) ==
    [f \in Fields(m) |->
        IF Stored(mg, "forProvider", f) # {} THEN Stored(mg, "forProvider", f)
        ELSE Stored(mg, "initProvider", f)]

Create(m) ==
    /\ work[m].phase = "resolved"
    /\ life[m] # "live"
    /\ id[m] = NoId
    /\ gen' = [gen EXCEPT ![m] = @ + 1]
    /\ id' = [id EXCEPT ![m] = <<m, gen'[m]>>]
    /\ ext' = [ext EXCEPT ![m] = GetMergedParameters(work[m].mg, m)]
    /\ work' = [work EXCEPT ![m] = Idle]
    /\ UNCHANGED <<setup, life, spec, emptied, edits>>

Update(m) ==
    /\ work[m].phase = "resolved"
    /\ life[m] # "live"
    /\ id[m] # NoId
    /\ ext' = [ext EXCEPT ![m] = [f \in Fields(m) |->
           IF Stored(work[m].mg, "forProvider", f) # {}
           THEN Stored(work[m].mg, "forProvider", f) ELSE @[f]]]
    /\ work' = [work EXCEPT ![m] = Idle]
    /\ UNCHANGED <<setup, life, gen, id, spec, emptied, edits>>

(* Mutated form: deletion resolves references first.                       *)
DeleteResolved(m) ==
    /\ work[m] = Idle
    /\ life[m] = "deleting"
    /\ \A p \in Wired(m) : \A t \in spec[m][p].refs : id[t] # NoId
    /\ life' = [life EXCEPT ![m] = "absent"]
    /\ id' = [id EXCEPT ![m] = NoId]
    /\ ext' = [ext EXCEPT ![m] = NoObject]
    /\ UNCHANGED <<setup, gen, spec, work, emptied, edits>>

(* References of a resource being deleted are not resolved.                *)
Delete(m) ==
    /\ work[m] = Idle
    /\ life[m] = "deleting"
    /\ life' = [life EXCEPT ![m] = "absent"]
    /\ id' = [id EXCEPT ![m] = NoId]
    /\ ext' = [ext EXCEPT ![m] = NoObject]
    /\ UNCHANGED <<setup, gen, spec, work, emptied, edits>>

Reconcile(m) ==
    \/ Begin(m) \/ KeepValue(m) \/ Resolve(m) \/ ResolveFails(m) \/ Persist(m)
    \/ AddFinalizer(m) \/ Create(m) \/ Update(m) \/ Delete(m)

-----------------------------------------------------------------------------
UserCreates(m) ==
    /\ m \in setup.used
    /\ life[m] = "absent"
    /\ gen[m] < MaxGen
    /\ life' = [life EXCEPT ![m] = "live"]
    /\ spec' = [spec EXCEPT ![m] = Blank(m)]
    /\ emptied' = [emptied EXCEPT ![m] = {}]
    /\ UNCHANGED <<setup, gen, id, ext, work, edits>>

Bounded == edits < MaxEdits /\ edits' = edits + 1

(* Without the finalizer the resource is gone at once, and a reconcile in  *)
(* progress fails at its next write.                                       *)
UserDeletes(m) ==
    /\ Bounded
    /\ \/ /\ life[m] = "live"
          /\ life' = [life EXCEPT ![m] = "absent"]
          /\ work' = [work EXCEPT ![m] = Idle]
       \/ /\ life[m] = "held"
          /\ life' = [life EXCEPT ![m] = "deleting"]
          /\ UNCHANGED work
    /\ UNCHANGED <<setup, gen, id, spec, ext, emptied>>

(* A user clears a resolved value to have it resolved anew, or sets it.    *)
UserSets(m, p, ids) ==
    /\ Bounded
    /\ life[m] \in {"live", "held"}
    /\ spec[m][p].ids # ids
    /\ spec' = [spec EXCEPT ![m][p].ids = ids]
    /\ emptied' = [emptied EXCEPT ![m] = IF ids = {} THEN @ \cup {p} ELSE @]
    /\ UNCHANGED <<setup, life, gen, id, ext, work>>

(* A failed call of the API server or of the controller, or a restart.     *)
Interrupt(m) ==
    /\ Bounded
    /\ work[m] # Idle
    /\ work' = [work EXCEPT ![m] = Idle]
    /\ UNCHANGED <<setup, life, gen, id, spec, ext, emptied>>

Next ==
    \E m \in Resources :
        \/ Reconcile(m)
        \/ UserCreates(m) \/ UserDeletes(m) \/ Interrupt(m)
        \/ \E p \in Wired(m), ids \in {{}, {Raw}} : UserSets(m, p, ids)

(* Every resource is reconciled again: after an error with backoff, else   *)
(* when polled (main.go: poll).  Users and interruptions are not fair.     *)
Spec == Init /\ [][Next]_vars
FairSpec == Spec /\ \A m \in Resources : WF_vars(Reconcile(m))

-----------------------------------------------------------------------------
Values(m) == [Wired(m) -> [ids : SUBSET Ids, refs : SUBSET Resources]]

Reconciles(m) ==
    {Idle}
    \cup [phase : {"resolving"}, left : SUBSET WiredCalls(m), read : Values(m), mg : Values(m)]
    \cup [phase : {"resolved"}, mg : Values(m)]

TypeOK ==
    /\ setup \in Setups
    /\ life \in [Resources -> {"absent", "live", "held", "deleting"}]
    /\ gen \in [Resources -> 0 .. MaxGen]
    /\ edits \in 0 .. MaxEdits
    /\ \A m \in Resources :
          /\ id[m] \in (Ids \ {Raw}) \cup {NoId}
          /\ spec[m] \in Values(m)
          /\ ext[m] \in [Fields(m) -> SUBSET Ids] \cup {NoObject}
          /\ work[m] \in Reconciles(m)
          /\ emptied[m] \subseteq Wired(m)

(* An external object never points at the wrong kind of object, nor lacks  *)
(* a field that is wired: every id in it was handed out to a resource of   *)
(* the kind the maintained table names, or was put there by a user, and    *)
(* nothing is empty but what a user emptied (config.go references against  *)
(* what the generated resolvers do, through failed calls, interrupted      *)
(* reconciles and referents that come and go meanwhile).                   *)
CreatedResolved ==
    \A m \in Resources :
        ext[m] # NoObject =>
            \A p \in Wired(m) :
                /\ ext[m][p[2]] = {} => p \in emptied[m]
                /\ \A x \in ext[m][p[2]] \ {Raw} :
                      /\ <<p[2], Kind(x[1])>> \in references[Kind(m)]
                      /\ x[2] <= gen[x[1]]

(* The provider fills fields, it does not overrule them: a value that was  *)
(* in the spec when a reconcile read the resource is changed by a step of  *)
(* the provider only under the policy Always (config.go: "the raw id       *)
(* fields stay settable directly").                                        *)
OnlyEmptyIsFilled ==
    [][\A m \in Resources : life[m] # "absent" /\ edits' = edits =>
          \A p \in Wired(m) :
              spec'[m][p] # spec[m][p] =>
                  Wiring(m)[p].always \/ work[m].read[p].ids = {}]_vars

-----------------------------------------------------------------------------
Present(m) == life[m] \in {"live", "held"}

AllPresent == \A m \in setup.used : Present(m)

(* Resources that refer to one another come up whatever order they are     *)
(* created in: a chain of references never waits for itself.               *)
ComesUp == AllPresent ~> ~AllPresent \/ \A m \in setup.used : id[m] # NoId

(* The fields of spec.forProvider that are to follow a reference.          *)
Following(m) ==
    {p \in Wired(m) : p[1] = "forProvider" /\ Wiring(m)[p].via = "ref" /\ Wiring(m)[p].always}

AllReady == \A m \in setup.used : Present(m) /\ id[m] # NoId

Followed(m) ==
    ext[m] # NoObject /\ \A p \in Following(m) : ext[m][p[2]] = {id[t] : t \in Wiring(m)[p].targets}

(* A field with the policy Always follows what it refers to into the       *)
(* external object, also when the referent was replaced by one with        *)
(* another id after the field had been resolved.                           *)
AlwaysFollows == AllReady ~> ~AllReady \/ \A m \in setup.used : Followed(m)

(* Deleting a resource does not wait for what it refers to: whatever order *)
(* referring and referred resources are deleted in, all of them go.        *)
DeletionCompletes == []<>(\A m \in Resources : life[m] # "deleting")

=============================================================================
