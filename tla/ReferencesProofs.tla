-------------------------- MODULE ReferencesProofs --------------------------
(***************************************************************************)
(* Proofs about References, for any resources, any wiring of them and any  *)
(* number of edits, interruptions and external objects.                    *)
(***************************************************************************)
EXTENDS References, ReferenceTableProofs, SequenceTheorems, TLAPS

PlaceOf(m, i) == Place(Calls(Kind(m))[i])
KindAsked(m, i) == Calls(Kind(m))[i].to.to

(* Every wired field has its call, and every call asks for the kind the    *)
(* table names for its field.                                              *)
LEMMA CallFacts ==
    ASSUME setup \in Setups, NEW m \in Resources
    PROVE  /\ \A p \in Wired(m) : p[1] \in Parts /\ p = <<p[1], p[2]>>
           /\ \A i \in WiredCalls(m) :
                 /\ PlaceOf(m, i) \in Wired(m)
                 /\ <<PlaceOf(m, i)[2], KindAsked(m, i)>> \in references[Kind(m)]
           /\ \A p \in Wired(m) : \E i \in WiredCalls(m) : PlaceOf(m, i) = p
<1> DEFINE fields == ResolverOf(Kind(m))
           n == Len(fields)
<1>1. \A p \in Wired(m) :
        /\ Kind(m) \in DOMAIN references
        /\ p \in Parts \X {f[1] : f \in references[Kind(m)]}
  BY SetupsAssumption DEF IsSetup, Wired, Wiring, Kind
<1>2. \A p \in Wired(m) : p[1] \in Parts /\ p = <<p[1], p[2]>>
  BY <1>1
<1>3. Wired(m) # {} => Kind(m) \in DOMAIN references /\ Agree(fields, references[Kind(m)])
  BY <1>1, TableAgrees
<1>4. Calls(Kind(m)) =
        [i \in 1 .. 2 * n |-> IF i <= n THEN [part |-> "forProvider", to |-> fields[i]]
                              ELSE [part |-> "initProvider", to |-> fields[i - n]]]
  BY DEF Calls
<1>5. ASSUME NEW i \in WiredCalls(m)
      PROVE  /\ PlaceOf(m, i) \in Wired(m)
             /\ <<PlaceOf(m, i)[2], KindAsked(m, i)>> \in references[Kind(m)]
  <2>1. PlaceOf(m, i) \in Wired(m) /\ i \in DOMAIN Calls(Kind(m))
    BY DEF WiredCalls, PlaceOf
  <2>2. Agree(fields, references[Kind(m)])
    BY <1>3, <2>1
  <2>3. n \in Nat /\ i \in 1 .. 2 * n /\ DOMAIN fields = 1 .. n
    BY <1>4, <2>1, <2>2 DEF Agree
  <2>4. PICK j \in 1 .. n : Calls(Kind(m))[i].to = fields[j]
    <3>1. CASE i <= n
      BY <1>4, <2>3, <3>1
    <3>2. CASE ~(i <= n)
      <4>1. i - n \in 1 .. n
        BY <2>3, <3>2
      <4> QED
        BY <1>4, <2>3, <3>2, <4>1
    <3> QED
      BY <3>1, <3>2
  <2>5. PlaceOf(m, i)[2] = fields[j].field /\ KindAsked(m, i) = fields[j].to
    BY <2>4 DEF PlaceOf, KindAsked, Place
  <2> QED
    BY <2>1, <2>2, <2>3, <2>5 DEF Agree
<1>6. ASSUME NEW p \in Wired(m) PROVE \E i \in WiredCalls(m) : PlaceOf(m, i) = p
  <2>1. Agree(fields, references[Kind(m)])
    BY <1>3
  <2>2. n \in Nat /\ DOMAIN fields = 1 .. n
    BY <2>1 DEF Agree
  <2>3. PICK j \in 1 .. n : fields[j].field = p[2]
    BY <1>1, <2>1, <2>2 DEF Agree
  <2>4. \E i \in DOMAIN Calls(Kind(m)) : Calls(Kind(m))[i].part = p[1] /\ Calls(Kind(m))[i].to = fields[j]
    <3>1. DOMAIN Calls(Kind(m)) = 1 .. 2 * n
      BY <1>4
    <3>2. CASE p[1] = "forProvider"
      <4>1. j \in 1 .. 2 * n /\ j <= n
        BY <2>2
      <4> QED
        BY <1>4, <3>1, <3>2, <4>1
    <3>3. CASE p[1] = "initProvider"
      <4>1. j + n \in 1 .. 2 * n /\ ~(j + n <= n) /\ (j + n) - n = j
        BY <2>2
      <4>2. Calls(Kind(m))[j + n] = [part |-> "initProvider", to |-> fields[(j + n) - n]]
        BY <1>4, <4>1
      <4> QED
        BY <3>1, <3>3, <4>1, <4>2
    <3> QED
      BY <1>2, <3>2, <3>3 DEF Parts
  <2>5. PICK i \in DOMAIN Calls(Kind(m)) : Calls(Kind(m))[i].part = p[1] /\ Calls(Kind(m))[i].to = fields[j]
    BY <2>4
  <2>6. Place(Calls(Kind(m))[i]) = p
    BY <1>2, <2>3, <2>5 DEF Place
  <2> QED
    BY <2>6 DEF WiredCalls, PlaceOf
<1> QED
  BY <1>2, <1>5, <1>6

-----------------------------------------------------------------------------
AnyId == (Resources \X Nat) \cup {Raw}
AnyValue == [ids : SUBSET AnyId, refs : SUBSET Resources]

(* Every id was handed out to a resource of the kind the table names.      *)
RightKind(m, f, ids) ==
    \A x \in ids : x # Raw =>
        /\ x[1] \in Resources /\ x[2] \in Nat /\ x[2] <= gen[x[1]]
        /\ <<f, Kind(x[1])>> \in references[Kind(m)]

(* In a map from places to values, every id is of the right kind.          *)
RightKinds(m, values) ==
    \A p \in Wired(m) : RightKind(m, p[2], values[p].ids)

IdInvariant ==
    /\ setup \in Setups
    /\ gen \in [Resources -> Nat]
    /\ DOMAIN id = Resources /\ DOMAIN spec = Resources /\ DOMAIN ext = Resources
    /\ DOMAIN work = Resources /\ DOMAIN life = Resources /\ DOMAIN emptied = Resources
    /\ \A t \in Resources : id[t] # NoId => id[t] = <<t, gen[t]>>

StoredInvariant(m) ==
    /\ life[m] \in {"absent", "live", "held", "deleting"}
    /\ spec[m] \in [Wired(m) -> AnyValue]
    /\ RightKinds(m, spec[m])

(* While a reconcile resolves, what it has come to is not empty, and what  *)
(* was not empty when it read the resource only a user has emptied since.  *)
ResolvingInvariant(m) ==
    work[m].phase = "resolving" =>
        /\ life[m] # "absent"
        /\ work[m] = [phase |-> "resolving", left |-> work[m].left,
                      read |-> work[m].read, mg |-> work[m].mg]
        /\ work[m].left \subseteq WiredCalls(m)
        /\ work[m].mg \in [Wired(m) -> AnyValue]
        /\ RightKinds(m, work[m].mg)
        /\ \A i \in WiredCalls(m) \ work[m].left : work[m].mg[PlaceOf(m, i)].ids # {}
        /\ \A p \in Wired(m) :
              work[m].read[p].ids # {} /\ spec[m][p].ids = {} => p \in emptied[m]

ResolvedInvariant(m) ==
    work[m].phase = "resolved" =>
        /\ life[m] # "absent"
        /\ work[m].mg \in [Wired(m) -> AnyValue]
        /\ RightKinds(m, work[m].mg)
        /\ \A p \in Wired(m) : work[m].mg[p].ids = {} => p \in emptied[m]

(* The external object has what was resolved, from its creation on.        *)
ObjectInvariant(m) ==
    /\ work[m].phase \in {"idle", "resolving", "resolved"}
    /\ life[m] \in {"absent", "live"} => ext[m] = NoObject /\ id[m] = NoId
    /\ id[m] # NoId \/ ext[m] # NoObject =>
          \A p \in Wired(m) :
              /\ RightKind(m, p[2], ext[m][p[2]])
              /\ ext[m][p[2]] = {} => p \in emptied[m]

ResourceInvariant(m) ==
    /\ StoredInvariant(m) /\ ResolvingInvariant(m) /\ ResolvedInvariant(m)
    /\ ObjectInvariant(m)

ResolvedFirst == IdInvariant /\ \A m \in Resources : ResourceInvariant(m)

(* A new resource has no ids.                                              *)
LEMMA BlankFacts ==
    ASSUME setup \in Setups, NEW m \in Resources
    PROVE  Blank(m) \in [Wired(m) -> AnyValue] /\ RightKinds(m, Blank(m))
<1>1. ASSUME NEW p \in Wired(m)
      PROVE  Blank(m)[p].ids = {} /\ Blank(m)[p] \in AnyValue
  <2>1. Wiring(m)[p].targets \subseteq Resources
    BY SetupsAssumption DEF IsSetup, Wired, Wiring, Wire
  <2>2. Blank(m)[p] = [ids  |-> {},
                       refs |-> IF Wiring(m)[p].via = "ref" THEN Wiring(m)[p].targets ELSE {}]
    BY DEF Blank
  <2> QED
    BY <2>1, <2>2 DEF AnyValue
<1> QED
  BY <1>1 DEF RightKinds, RightKind, Blank

LEMMA InitResolvedFirst == Init => ResolvedFirst
<1> SUFFICES ASSUME Init PROVE ResolvedFirst
  OBVIOUS
<1>1. IdInvariant
  BY DEF Init, IdInvariant
<1>2. ASSUME NEW m \in Resources PROVE ResourceInvariant(m)
  <2>1. /\ life[m] = "absent" /\ spec[m] = Blank(m) /\ work[m] = Idle /\ id[m] = NoId
        /\ ext[m] = NoObject
    BY DEF Init
  <2>2. StoredInvariant(m)
    BY <1>1, <2>1, BlankFacts DEF IdInvariant, StoredInvariant
  <2> QED
    BY <2>1, <2>2
    DEF ResourceInvariant, ResolvingInvariant, ResolvedInvariant, ObjectInvariant, Idle
<1> QED
  BY <1>1, <1>2 DEF ResolvedFirst

(* What does not change when no resource changes its kind and no id is     *)
(* handed out twice.                                                       *)
LEMMA FrameFacts ==
    ASSUME NEW m \in Resources, IdInvariant, setup' = setup,
           gen' \in [Resources -> Nat], \A t \in Resources : gen[t] <= gen'[t]
    PROVE  /\ Wired(m)' = Wired(m) /\ WiredCalls(m)' = WiredCalls(m)
           /\ \A i : PlaceOf(m, i)' = PlaceOf(m, i)
           /\ \A f, ids : RightKind(m, f, ids) => RightKind(m, f, ids)'
<1>1. \A t : Kind(t)' = Kind(t)
  BY DEF Kind
<1>2. /\ Wired(m)' = Wired(m) /\ WiredCalls(m)' = WiredCalls(m)
      /\ \A i : PlaceOf(m, i)' = PlaceOf(m, i)
  BY DEF Kind, Wired, Wiring, WiredCalls, PlaceOf
<1>3. \A f, ids : RightKind(m, f, ids) => RightKind(m, f, ids)'
  <2> SUFFICES ASSUME NEW f, NEW ids, RightKind(m, f, ids), NEW x \in ids, x # Raw
               PROVE  /\ x[1] \in Resources /\ x[2] \in Nat /\ x[2] <= gen'[x[1]]
                      /\ <<f, Kind(x[1])>> \in references[Kind(m)]
    BY <1>1 DEF RightKind
  <2>1. /\ x[1] \in Resources /\ x[2] \in Nat /\ x[2] <= gen[x[1]]
        /\ <<f, Kind(x[1])>> \in references[Kind(m)]
    BY DEF RightKind
  <2>2. gen[x[1]] \in Nat /\ gen'[x[1]] \in Nat /\ gen[x[1]] <= gen'[x[1]]
    BY <2>1 DEF IdInvariant
  <2> QED
    BY <2>1, <2>2
<1> QED
  BY <1>2, <1>3

(* A step that concerns another resource, and hands out no id twice.       *)
LEMMA OthersKeep ==
    ASSUME NEW m \in Resources, IdInvariant, ResourceInvariant(m),
           gen' \in [Resources -> Nat], \A t \in Resources : gen[t] <= gen'[t],
           setup' = setup, life'[m] = life[m], id'[m] = id[m], spec'[m] = spec[m],
           ext'[m] = ext[m], work'[m] = work[m], emptied'[m] = emptied[m]
    PROVE  ResourceInvariant(m)'
  BY FrameFacts
  DEF ResourceInvariant, StoredInvariant, ResolvingInvariant, ResolvedInvariant,
      ObjectInvariant, RightKinds

(* A step of one resource that hands out no id leaves the others alone.    *)
StepOf(m) ==
    /\ setup' = setup
    /\ DOMAIN life' = Resources /\ DOMAIN spec' = Resources /\ DOMAIN ext' = Resources
    /\ DOMAIN work' = Resources /\ DOMAIN emptied' = Resources /\ DOMAIN id' = Resources
    /\ \A q \in Resources : q # m =>
          /\ life'[q] = life[q] /\ id'[q] = id[q] /\ spec'[q] = spec[q]
          /\ ext'[q] = ext[q] /\ work'[q] = work[q] /\ emptied'[q] = emptied[q]
          /\ gen'[q] = gen[q]

LEMMA ReconcileKeeps ==
    ASSUME ResolvedFirst, NEW m \in Resources,
           Begin(m) \/ KeepValue(m) \/ ResolveFails(m) \/ Interrupt(m) \/ AddFinalizer(m)
    PROVE  StepOf(m) /\ UNCHANGED <<gen, id>> /\ ResourceInvariant(m)'
<1>1. IdInvariant /\ ResourceInvariant(m) /\ setup' = setup /\ UNCHANGED <<gen, id, spec, ext, emptied>>
  BY DEF ResolvedFirst, Begin, KeepValue, ResolveFails, Interrupt, AddFinalizer
<1>2. gen' \in [Resources -> Nat] /\ \A t \in Resources : gen[t] <= gen'[t]
  BY <1>1 DEF IdInvariant
<1>3. /\ Wired(m)' = Wired(m) /\ WiredCalls(m)' = WiredCalls(m)
      /\ \A i : PlaceOf(m, i)' = PlaceOf(m, i)
      /\ \A f, ids : RightKind(m, f, ids) => RightKind(m, f, ids)'
  BY <1>1, <1>2, FrameFacts
<1>4. \/ life' = life
      \/ work[m].phase = "resolved" /\ life[m] = "live" /\ life' = [life EXCEPT ![m] = "held"]
         /\ work' = work
  BY DEF Begin, KeepValue, ResolveFails, Interrupt, AddFinalizer
<1>5. StepOf(m)
  BY <1>1, <1>4
  DEF StepOf, IdInvariant, Begin, KeepValue, ResolveFails, Interrupt, AddFinalizer
<1>6. StoredInvariant(m)'
  BY <1>1, <1>3, <1>4 DEF ResourceInvariant, IdInvariant, StoredInvariant, RightKinds
<1>7. CASE Begin(m)
  <2>1. /\ work'[m] = [phase |-> "resolving", left |-> WiredCalls(m), read |-> spec[m], mg |-> spec[m]]
        /\ life' = life /\ life[m] # "absent"
    BY <1>1, <1>7 DEF Begin, IdInvariant
  <2>2. ResolvingInvariant(m)'
    BY <1>1, <1>3, <1>6, <2>1
    DEF ResourceInvariant, StoredInvariant, ResolvingInvariant, RightKinds
  <2> QED
    BY <1>1, <1>3, <1>5, <1>6, <2>1, <2>2
    DEF ResourceInvariant, ResolvedInvariant, ObjectInvariant
<1>8. CASE KeepValue(m)
  <2>1. PICK i \in work[m].left :
          /\ work[m].mg[PlaceOf(m, i)].ids # {}
          /\ work' = [work EXCEPT ![m].left = @ \ {i}]
    BY <1>8 DEF KeepValue, InTurn, Kept, PlaceOf
  <2>2. work[m].phase = "resolving" /\ life' = life
    BY <1>8 DEF KeepValue
  <2>3. work[m] = [phase |-> "resolving", left |-> work[m].left,
                   read |-> work[m].read, mg |-> work[m].mg]
    BY <1>1, <2>2 DEF ResourceInvariant, ResolvingInvariant
  <2>4. work'[m] = [phase |-> "resolving", left |-> work[m].left \ {i},
                    read |-> work[m].read, mg |-> work[m].mg]
    <3>1. work'[m] = [work[m] EXCEPT !.left = @ \ {i}]
      BY <1>1, <2>1 DEF IdInvariant
    <3> QED
      BY <2>3, <3>1
  <2>5. ResolvingInvariant(m)'
    <3>1. /\ life[m] # "absent" /\ work[m].left \subseteq WiredCalls(m)
          /\ work[m].mg \in [Wired(m) -> AnyValue]
          /\ \A p \in Wired(m) : RightKind(m, p[2], work[m].mg[p].ids)
          /\ \A j \in WiredCalls(m) \ work[m].left : work[m].mg[PlaceOf(m, j)].ids # {}
          /\ \A p \in Wired(m) :
                work[m].read[p].ids # {} /\ spec[m][p].ids = {} => p \in emptied[m]
      BY <1>1, <2>2 DEF ResourceInvariant, ResolvingInvariant, RightKinds
    <3>2. /\ work'[m].phase = "resolving" /\ work'[m].left = work[m].left \ {i}
          /\ work'[m].read = work[m].read /\ work'[m].mg = work[m].mg
      BY <2>4
    <3>3. \A j \in WiredCalls(m) \ work'[m].left : work'[m].mg[PlaceOf(m, j)].ids # {}
      BY <2>1, <3>1, <3>2
    <3>4. RightKinds(m, work[m].mg)'
      BY <1>3, <3>1, <3>2 DEF RightKinds
    <3>5. work'[m] = [phase |-> "resolving", left |-> work'[m].left,
                      read |-> work'[m].read, mg |-> work'[m].mg]
      BY <2>4, <3>2
    <3> QED
      BY <1>1, <1>3, <2>2, <3>1, <3>2, <3>3, <3>4, <3>5 DEF ResolvingInvariant
  <2> QED
    BY <1>1, <1>3, <1>5, <1>6, <2>2, <2>4, <2>5
    DEF ResourceInvariant, ResolvedInvariant, ObjectInvariant
<1>9. CASE ResolveFails(m) \/ Interrupt(m)
  <2>1. work'[m] = Idle /\ life' = life
    BY <1>1, <1>9 DEF ResolveFails, Interrupt, IdInvariant
  <2> QED
    BY <1>1, <1>3, <1>5, <1>6, <2>1
    DEF ResourceInvariant, ResolvingInvariant, ResolvedInvariant, ObjectInvariant, Idle
<1>10. CASE AddFinalizer(m)
  <2>1. life'[m] = "held" /\ life[m] = "live" /\ work' = work /\ work[m].phase = "resolved"
    BY <1>1, <1>10 DEF AddFinalizer, IdInvariant
  <2> QED
    BY <1>1, <1>3, <1>5, <1>6, <2>1
    DEF ResourceInvariant, ResolvingInvariant, ResolvedInvariant, ObjectInvariant, RightKinds
<1> QED
  BY <1>7, <1>8, <1>9, <1>10

LEMMA ResolveKeeps ==
    ASSUME ResolvedFirst, NEW m \in Resources, Resolve(m)
    PROVE  StepOf(m) /\ UNCHANGED <<gen, id>> /\ ResourceInvariant(m)'
<1>1. /\ IdInvariant /\ ResourceInvariant(m)
      /\ UNCHANGED <<setup, life, gen, id, spec, ext, emptied>>
  BY DEF ResolvedFirst, Resolve
<1>2. gen' \in [Resources -> Nat] /\ \A t \in Resources : gen[t] <= gen'[t]
  BY <1>1 DEF IdInvariant
<1>3. /\ Wired(m)' = Wired(m) /\ WiredCalls(m)' = WiredCalls(m)
      /\ \A i : PlaceOf(m, i)' = PlaceOf(m, i)
      /\ \A f, ids : RightKind(m, f, ids) => RightKind(m, f, ids)'
  BY <1>1, <1>2, FrameFacts
<1>4. /\ work[m].phase = "resolving" /\ life[m] # "absent"
      /\ work[m] = [phase |-> "resolving", left |-> work[m].left,
                    read |-> work[m].read, mg |-> work[m].mg]
      /\ work[m].left \subseteq WiredCalls(m)
      /\ work[m].mg \in [Wired(m) -> AnyValue]
      /\ \A p \in Wired(m) : RightKind(m, p[2], work[m].mg[p].ids)
      /\ \A j \in WiredCalls(m) \ work[m].left : work[m].mg[PlaceOf(m, j)].ids # {}
      /\ \A p \in Wired(m) :
            work[m].read[p].ids # {} /\ spec[m][p].ids = {} => p \in emptied[m]
  BY <1>1 DEF Resolve, ResourceInvariant, ResolvingInvariant, RightKinds
<1> DEFINE value(i) == work[m].mg[PlaceOf(m, i)]
           to(i) == Calls(Kind(m))[i].to
<1>5. PICK i \in work[m].left :
        \E ts \in Referents(value(i), Wiring(m)[PlaceOf(m, i)], to(i)) :
           /\ Resolvable(ts, to(i))
           /\ work' = [work EXCEPT ![m].left = @ \ {i},
                  ![m].mg[PlaceOf(m, i)] = [ids |-> {id[t] : t \in ts}, refs |-> ts]]
  BY DEF Resolve, InTurn, PlaceOf
<1>6. PICK ts \in Referents(value(i), Wiring(m)[PlaceOf(m, i)], to(i)) :
           /\ Resolvable(ts, to(i))
           /\ work' = [work EXCEPT ![m].left = @ \ {i},
                  ![m].mg[PlaceOf(m, i)] = [ids |-> {id[t] : t \in ts}, refs |-> ts]]
  BY <1>5
<1> DEFINE p0 == PlaceOf(m, i)
           new == [ids |-> {id[t] : t \in ts}, refs |-> ts]
           mg2 == [work[m].mg EXCEPT ![p0] = new]
<1>7. i \in WiredCalls(m) /\ p0 \in Wired(m) /\ <<p0[2], to(i).to>> \in references[Kind(m)]
  BY <1>1, <1>4, CallFacts DEF IdInvariant, KindAsked
<1>8. ts \subseteq Resources
  <2>1. value(i).refs \subseteq Resources
    BY <1>4, <1>7 DEF AnyValue
  <2>2. Wiring(m)[p0].targets \subseteq Resources
    BY <1>1, <1>7, SetupsAssumption DEF IdInvariant, IsSetup, Wired, Wiring, Wire
  <2> QED
    BY <1>6, <2>1, <2>2 DEF Referents
<1>9. ts # {} /\ \A t \in ts : Kind(t) = to(i).to /\ id[t] = <<t, gen[t]>> /\ gen[t] \in Nat
  BY <1>1, <1>6, <1>8 DEF Resolvable, Extractable, IdInvariant
<1>10. new \in AnyValue /\ new.ids # {} /\ RightKind(m, p0[2], new.ids)
  <2>1. new.ids # {} /\ \A x \in new.ids : \E t \in ts : x = <<t, gen[t]>>
    BY <1>9
  <2>2. new.ids \subseteq AnyId
    BY <1>8, <1>9, <2>1 DEF AnyId
  <2>3. ASSUME NEW x \in new.ids
        PROVE  /\ x[1] \in Resources /\ x[2] \in Nat /\ x[2] <= gen[x[1]]
               /\ <<p0[2], Kind(x[1])>> \in references[Kind(m)]
    <3>1. PICK t \in ts : x = <<t, gen[t]>>
      BY <2>1
    <3> QED
      BY <1>7, <1>8, <1>9, <3>1
  <2> QED
    BY <1>8, <2>1, <2>2, <2>3 DEF AnyValue, RightKind
<1>11. work'[m] = [phase |-> "resolving", left |-> work[m].left \ {i},
                   read |-> work[m].read, mg |-> mg2]
  <2>1. work'[m] = [work[m] EXCEPT !.left = @ \ {i}, !.mg = mg2]
    BY <1>1, <1>6 DEF IdInvariant
  <2> QED
    BY <1>4, <2>1
<1>12. /\ mg2 \in [Wired(m) -> AnyValue] /\ mg2[p0] = new
       /\ \A p \in Wired(m) : p # p0 => mg2[p] = work[m].mg[p]
  BY <1>4, <1>7, <1>10
<1> HIDE DEF mg2, new
<1>13. ResolvingInvariant(m)'
  <2>1. /\ work'[m].phase = "resolving" /\ work'[m].left = work[m].left \ {i}
        /\ work'[m].read = work[m].read /\ work'[m].mg = mg2
        /\ work'[m] = [phase |-> "resolving", left |-> work'[m].left,
                        read |-> work'[m].read, mg |-> work'[m].mg]
    BY <1>11
  <2>2. \A p \in Wired(m) : RightKind(m, p[2], mg2[p].ids)
    BY <1>4, <1>10, <1>12
  <2>3. RightKinds(m, work[m].mg)'
    BY <1>3, <2>1, <2>2 DEF RightKinds
  <2>4. \A j \in WiredCalls(m) \ work'[m].left : mg2[PlaceOf(m, j)].ids # {}
    <3> SUFFICES ASSUME NEW j \in WiredCalls(m), j \notin work'[m].left
                 PROVE  mg2[PlaceOf(m, j)].ids # {}
      OBVIOUS
    <3>1. PlaceOf(m, j) \in Wired(m)
      BY <1>1, CallFacts DEF IdInvariant
    <3>2. CASE PlaceOf(m, j) = p0
      BY <1>10, <1>12, <3>2
    <3>3. CASE PlaceOf(m, j) # p0
      BY <1>4, <1>12, <2>1, <3>1, <3>3
    <3> QED
      BY <3>2, <3>3
  <2> QED
    BY <1>1, <1>3, <1>4, <1>12, <2>1, <2>3, <2>4 DEF ResolvingInvariant
<1>14. StepOf(m)
  BY <1>1, <1>6 DEF StepOf, IdInvariant
<1>15. StoredInvariant(m)'
  BY <1>1, <1>3 DEF ResourceInvariant, StoredInvariant, RightKinds
<1> QED
  BY <1>1, <1>3, <1>11, <1>13, <1>14, <1>15
  DEF ResourceInvariant, ResolvedInvariant, ObjectInvariant

LEMMA PersistKeeps ==
    ASSUME ResolvedFirst, NEW m \in Resources, Persist(m)
    PROVE  StepOf(m) /\ UNCHANGED <<gen, id>> /\ ResourceInvariant(m)'
<1>1. /\ IdInvariant /\ ResourceInvariant(m)
      /\ UNCHANGED <<setup, life, gen, id, ext, emptied>>
  BY DEF ResolvedFirst, Persist
<1>2. gen' \in [Resources -> Nat] /\ \A t \in Resources : gen[t] <= gen'[t]
  BY <1>1 DEF IdInvariant
<1>3. /\ Wired(m)' = Wired(m) /\ WiredCalls(m)' = WiredCalls(m)
      /\ \A i : PlaceOf(m, i)' = PlaceOf(m, i)
      /\ \A f, ids : RightKind(m, f, ids) => RightKind(m, f, ids)'
  BY <1>1, <1>2, FrameFacts
<1>4. /\ work[m].phase = "resolving" /\ life[m] # "absent"
      /\ work[m].mg \in [Wired(m) -> AnyValue] /\ spec[m] \in [Wired(m) -> AnyValue]
      /\ \A p \in Wired(m) : /\ RightKind(m, p[2], work[m].mg[p].ids)
                             /\ RightKind(m, p[2], spec[m][p].ids)
                             /\ work[m].mg[p].ids # {}
      /\ \A p \in Wired(m) :
            work[m].read[p].ids # {} /\ spec[m][p].ids = {} => p \in emptied[m]
  <2>1. work[m].phase = "resolving" /\ work[m].left = {}
    BY DEF Persist
  <2>2. \A i \in WiredCalls(m) : work[m].mg[PlaceOf(m, i)].ids # {}
    BY <1>1, <2>1 DEF ResourceInvariant, ResolvingInvariant
  <2>3. \A p \in Wired(m) : \E i \in WiredCalls(m) : PlaceOf(m, i) = p
    BY <1>1, CallFacts DEF IdInvariant
  <2> QED
    BY <1>1, <2>1, <2>2, <2>3
    DEF ResourceInvariant, ResolvingInvariant, StoredInvariant, RightKinds
<1> DEFINE changed == {p \in Wired(m) : work[m].mg[p] # work[m].read[p]}
           patched == [p \in Wired(m) |->
                          IF p \in changed THEN work[m].mg[p] ELSE spec[m][p]]
           stored == IF changed = {} THEN spec[m] ELSE patched
           held == IF changed = {} THEN work[m].mg ELSE patched
<1>5. /\ spec' = [spec EXCEPT ![m] = stored]
      /\ work' = [work EXCEPT ![m] = [phase |-> "resolved", mg |-> held]]
  BY DEF Persist
<1>6. spec'[m] = stored /\ work'[m] = [phase |-> "resolved", mg |-> held]
  BY <1>1, <1>5 DEF IdInvariant
<1>7. /\ patched \in [Wired(m) -> AnyValue]
      /\ \A p \in Wired(m) : RightKind(m, p[2], patched[p].ids)
      /\ \A p \in Wired(m) : patched[p].ids = {} => p \in emptied[m]
  BY <1>4
<1>8. /\ stored \in [Wired(m) -> AnyValue] /\ held \in [Wired(m) -> AnyValue]
      /\ \A p \in Wired(m) : RightKind(m, p[2], stored[p].ids)
      /\ \A p \in Wired(m) : RightKind(m, p[2], held[p].ids)
      /\ \A p \in Wired(m) : held[p].ids = {} => p \in emptied[m]
  <2>1. CASE changed = {}
    BY <1>4, <2>1
  <2>2. CASE changed # {}
    BY <1>7, <2>2
  <2> QED
    BY <2>1, <2>2
<1> HIDE DEF changed, patched, stored, held
<1>9. StepOf(m)
  BY <1>1, <1>5 DEF StepOf, IdInvariant
<1>10. StoredInvariant(m)'
  BY <1>1, <1>3, <1>6, <1>8 DEF ResourceInvariant, StoredInvariant, RightKinds
<1>11. ResolvedInvariant(m)'
  <2>1. RightKinds(m, work[m].mg)'
    BY <1>3, <1>6, <1>8 DEF RightKinds
  <2> QED
    BY <1>1, <1>3, <1>4, <1>6, <1>8, <2>1 DEF ResolvedInvariant
<1> QED
  BY <1>1, <1>3, <1>6, <1>9, <1>10, <1>11
  DEF ResourceInvariant, ResolvingInvariant, ObjectInvariant

(* What becomes of the parameters of the external object.                  *)
LEMMA MergeFacts ==
    ASSUME ResolvedFirst, NEW m \in Resources, work[m].phase = "resolved",
           NEW p \in Wired(m), NEW part \in Parts
    PROVE  /\ p[2] \in Fields(m)
           /\ RightKind(m, p[2], Stored(work[m].mg, part, p[2]))
           /\ Stored(work[m].mg, p[1], p[2]) = {} => p \in emptied[m]
           /\ p[1] \in Parts
<1>1. /\ setup \in Setups /\ work[m].mg \in [Wired(m) -> AnyValue]
      /\ \A q \in Wired(m) : RightKind(m, q[2], work[m].mg[q].ids)
      /\ \A q \in Wired(m) : work[m].mg[q].ids = {} => q \in emptied[m]
  BY DEF ResolvedFirst, IdInvariant, ResourceInvariant, ResolvedInvariant, RightKinds
<1>2. p[1] \in Parts /\ p = <<p[1], p[2]>>
  BY <1>1, CallFacts
<1>3. RightKind(m, p[2], Stored(work[m].mg, part, p[2]))
  <2>1. CASE <<part, p[2]>> \in Wired(m)
    BY <1>1, <2>1 DEF Stored
  <2>2. CASE <<part, p[2]>> \notin Wired(m)
    BY <1>1, <2>2 DEF Stored, RightKind
  <2> QED
    BY <2>1, <2>2
<1>4. Stored(work[m].mg, p[1], p[2]) = work[m].mg[p].ids
  BY <1>1, <1>2 DEF Stored
<1> QED
  BY <1>1, <1>2, <1>3, <1>4 DEF Fields

LEMMA CreateKeeps ==
    ASSUME ResolvedFirst, NEW m \in Resources, Create(m)
    PROVE  /\ StepOf(m) /\ gen' = [gen EXCEPT ![m] = @ + 1]
           /\ id'[m] = <<m, gen'[m]>> /\ ResourceInvariant(m)'
<1>1. /\ IdInvariant /\ ResourceInvariant(m)
      /\ UNCHANGED <<setup, life, spec, emptied>>
  BY DEF ResolvedFirst, Create
<1>2. /\ gen' = [gen EXCEPT ![m] = @ + 1] /\ gen' \in [Resources -> Nat]
      /\ \A t \in Resources : gen[t] <= gen'[t]
  BY <1>1 DEF IdInvariant, Create
<1>3. /\ Wired(m)' = Wired(m) /\ WiredCalls(m)' = WiredCalls(m)
      /\ \A i : PlaceOf(m, i)' = PlaceOf(m, i)
      /\ \A f, ids : RightKind(m, f, ids) => RightKind(m, f, ids)'
  BY <1>1, <1>2, FrameFacts
<1>4. /\ work[m].phase = "resolved" /\ life[m] # "absent" /\ life[m] # "live"
      /\ id' = [id EXCEPT ![m] = <<m, gen'[m]>>]
      /\ ext' = [ext EXCEPT ![m] = GetMergedParameters(work[m].mg, m)]
      /\ work' = [work EXCEPT ![m] = Idle]
  BY <1>1 DEF Create, ResourceInvariant, ResolvedInvariant
<1>5. /\ ext'[m] = GetMergedParameters(work[m].mg, m) /\ work'[m] = Idle
      /\ id'[m] = <<m, gen'[m]>>
  BY <1>1, <1>4 DEF IdInvariant
<1>6. ASSUME NEW p \in Wired(m)
      PROVE  /\ RightKind(m, p[2], ext'[m][p[2]])
             /\ ext'[m][p[2]] = {} => p \in emptied[m]
  <2> DEFINE here == Stored(work[m].mg, "forProvider", p[2])
             init == Stored(work[m].mg, "initProvider", p[2])
  <2>1. /\ p[2] \in Fields(m) /\ RightKind(m, p[2], here) /\ RightKind(m, p[2], init)
        /\ here = {} /\ init = {} => p \in emptied[m]
    BY <1>4, MergeFacts DEF Parts
  <2>2. ext'[m][p[2]] = IF here # {} THEN here ELSE init
    BY <1>5, <2>1 DEF GetMergedParameters
  <2> HIDE DEF here, init
  <2> QED
    BY <2>1, <2>2
<1>7. StepOf(m)
  BY <1>1, <1>2, <1>4 DEF StepOf, IdInvariant
<1>8. StoredInvariant(m)'
  BY <1>1, <1>3 DEF ResourceInvariant, StoredInvariant, RightKinds
<1> QED
  BY <1>1, <1>2, <1>3, <1>4, <1>5, <1>6, <1>7, <1>8
  DEF ResourceInvariant, ResolvingInvariant, ResolvedInvariant, ObjectInvariant, Idle

LEMMA UpdateKeeps ==
    ASSUME ResolvedFirst, NEW m \in Resources, Update(m)
    PROVE  StepOf(m) /\ UNCHANGED <<gen, id>> /\ ResourceInvariant(m)'
<1>1. /\ IdInvariant /\ ResourceInvariant(m)
      /\ UNCHANGED <<setup, life, gen, id, spec, emptied>>
  BY DEF ResolvedFirst, Update
<1>2. gen' \in [Resources -> Nat] /\ \A t \in Resources : gen[t] <= gen'[t]
  BY <1>1 DEF IdInvariant
<1>3. /\ Wired(m)' = Wired(m) /\ WiredCalls(m)' = WiredCalls(m)
      /\ \A i : PlaceOf(m, i)' = PlaceOf(m, i)
      /\ \A f, ids : RightKind(m, f, ids) => RightKind(m, f, ids)'
  BY <1>1, <1>2, FrameFacts
<1> DEFINE here(f) == Stored(work[m].mg, "forProvider", f)
           new == [f \in Fields(m) |-> IF here(f) # {} THEN here(f) ELSE ext[m][f]]
<1>4. /\ work[m].phase = "resolved" /\ life[m] # "absent" /\ life[m] # "live" /\ id[m] # NoId
      /\ ext' = [ext EXCEPT ![m] = new] /\ work' = [work EXCEPT ![m] = Idle]
  BY <1>1 DEF Update, ResourceInvariant, ResolvedInvariant
<1>5. ext'[m] = new /\ work'[m] = Idle
  BY <1>1, <1>4 DEF IdInvariant
<1>6. ASSUME NEW p \in Wired(m)
      PROVE  /\ RightKind(m, p[2], ext'[m][p[2]])
             /\ ext'[m][p[2]] = {} => p \in emptied[m]
  <2>1. p[2] \in Fields(m) /\ RightKind(m, p[2], here(p[2]))
    BY <1>4, MergeFacts DEF Parts
  <2>2. RightKind(m, p[2], ext[m][p[2]]) /\ (ext[m][p[2]] = {} => p \in emptied[m])
    BY <1>1, <1>4 DEF ResourceInvariant, ObjectInvariant
  <2>3. ext'[m][p[2]] = IF here(p[2]) # {} THEN here(p[2]) ELSE ext[m][p[2]]
    BY <1>5, <2>1
  <2> HIDE DEF here
  <2> QED
    BY <2>1, <2>2, <2>3
<1>7. StepOf(m)
  BY <1>1, <1>4 DEF StepOf, IdInvariant
<1>8. StoredInvariant(m)'
  BY <1>1, <1>3 DEF ResourceInvariant, StoredInvariant, RightKinds
<1> HIDE DEF new
<1> QED
  BY <1>1, <1>3, <1>4, <1>5, <1>6, <1>7, <1>8
  DEF ResourceInvariant, ResolvingInvariant, ResolvedInvariant, ObjectInvariant, Idle

LEMMA DeleteKeeps ==
    ASSUME ResolvedFirst, NEW m \in Resources, Delete(m)
    PROVE  StepOf(m) /\ gen' = gen /\ id'[m] = NoId /\ ResourceInvariant(m)'
<1>1. /\ IdInvariant /\ ResourceInvariant(m)
      /\ UNCHANGED <<setup, gen, spec, work, emptied>>
  BY DEF ResolvedFirst, Delete
<1>2. gen' \in [Resources -> Nat] /\ \A t \in Resources : gen[t] <= gen'[t]
  BY <1>1 DEF IdInvariant
<1>3. /\ Wired(m)' = Wired(m) /\ WiredCalls(m)' = WiredCalls(m)
      /\ \A i : PlaceOf(m, i)' = PlaceOf(m, i)
      /\ \A f, ids : RightKind(m, f, ids) => RightKind(m, f, ids)'
  BY <1>1, <1>2, FrameFacts
<1>4. /\ work[m] = Idle /\ life' = [life EXCEPT ![m] = "absent"]
      /\ id' = [id EXCEPT ![m] = NoId] /\ ext' = [ext EXCEPT ![m] = NoObject]
  BY DEF Delete
<1>5. life'[m] = "absent" /\ id'[m] = NoId /\ ext'[m] = NoObject /\ work'[m] = Idle
  BY <1>1, <1>4 DEF IdInvariant
<1>6. StepOf(m)
  BY <1>1, <1>4 DEF StepOf, IdInvariant
<1>7. StoredInvariant(m)'
  BY <1>1, <1>3, <1>5 DEF ResourceInvariant, StoredInvariant, RightKinds
<1> QED
  BY <1>1, <1>5, <1>6, <1>7
  DEF ResourceInvariant, ResolvingInvariant, ResolvedInvariant, ObjectInvariant, Idle

LEMMA UserCreatesKeeps ==
    ASSUME ResolvedFirst, NEW m \in Resources, UserCreates(m)
    PROVE  StepOf(m) /\ UNCHANGED <<gen, id>> /\ ResourceInvariant(m)'
<1>1. /\ IdInvariant /\ ResourceInvariant(m)
      /\ UNCHANGED <<setup, gen, id, ext, work>>
  BY DEF ResolvedFirst, UserCreates
<1>2. gen' \in [Resources -> Nat] /\ \A t \in Resources : gen[t] <= gen'[t]
  BY <1>1 DEF IdInvariant
<1>3. /\ Wired(m)' = Wired(m) /\ WiredCalls(m)' = WiredCalls(m)
      /\ \A i : PlaceOf(m, i)' = PlaceOf(m, i)
      /\ \A f, ids : RightKind(m, f, ids) => RightKind(m, f, ids)'
  BY <1>1, <1>2, FrameFacts
<1>4. /\ life[m] = "absent" /\ life' = [life EXCEPT ![m] = "live"]
      /\ spec' = [spec EXCEPT ![m] = Blank(m)] /\ emptied' = [emptied EXCEPT ![m] = {}]
  BY DEF UserCreates
<1>5. life'[m] = "live" /\ spec'[m] = Blank(m) /\ work'[m] = work[m]
  BY <1>1, <1>4 DEF IdInvariant
<1>6. ext[m] = NoObject /\ id[m] = NoId /\ work[m].phase = "idle"
  BY <1>1, <1>4 DEF ResourceInvariant, ObjectInvariant, ResolvingInvariant, ResolvedInvariant
<1>7. StepOf(m)
  BY <1>1, <1>4 DEF StepOf, IdInvariant
<1>8. StoredInvariant(m)'
  <2>1. Blank(m) \in [Wired(m) -> AnyValue] /\ \A p \in Wired(m) : RightKind(m, p[2], Blank(m)[p].ids)
    BY <1>1, BlankFacts DEF IdInvariant, RightKinds
  <2> QED
    BY <1>3, <1>5, <2>1 DEF StoredInvariant, RightKinds
<1> QED
  BY <1>1, <1>5, <1>6, <1>7, <1>8
  DEF ResourceInvariant, ResolvingInvariant, ResolvedInvariant, ObjectInvariant

LEMMA UserDeletesKeeps ==
    ASSUME ResolvedFirst, NEW m \in Resources, UserDeletes(m)
    PROVE  StepOf(m) /\ UNCHANGED <<gen, id>> /\ ResourceInvariant(m)'
<1>1. /\ IdInvariant /\ ResourceInvariant(m)
      /\ UNCHANGED <<setup, gen, id, spec, ext, emptied>>
  BY DEF ResolvedFirst, UserDeletes
<1>2. gen' \in [Resources -> Nat] /\ \A t \in Resources : gen[t] <= gen'[t]
  BY <1>1 DEF IdInvariant
<1>3. /\ Wired(m)' = Wired(m) /\ WiredCalls(m)' = WiredCalls(m)
      /\ \A i : PlaceOf(m, i)' = PlaceOf(m, i)
      /\ \A f, ids : RightKind(m, f, ids) => RightKind(m, f, ids)'
  BY <1>1, <1>2, FrameFacts
<1>4. \/ /\ life[m] = "live" /\ life' = [life EXCEPT ![m] = "absent"]
         /\ work' = [work EXCEPT ![m] = Idle]
      \/ /\ life[m] = "held" /\ life' = [life EXCEPT ![m] = "deleting"] /\ work' = work
  BY DEF UserDeletes
<1>5. StepOf(m)
  BY <1>1, <1>4 DEF StepOf, IdInvariant
<1>6. CASE life[m] = "live" /\ life' = [life EXCEPT ![m] = "absent"]
           /\ work' = [work EXCEPT ![m] = Idle]
  <2>1. life'[m] = "absent" /\ work'[m] = Idle /\ ext[m] = NoObject /\ id[m] = NoId
    BY <1>1, <1>6 DEF IdInvariant, ResourceInvariant, ObjectInvariant
  <2>2. StoredInvariant(m)'
    BY <1>1, <1>3, <2>1 DEF ResourceInvariant, StoredInvariant, RightKinds
  <2> QED
    BY <1>1, <1>5, <2>1, <2>2
    DEF ResourceInvariant, ResolvingInvariant, ResolvedInvariant, ObjectInvariant, Idle
<1>7. CASE life[m] = "held" /\ life' = [life EXCEPT ![m] = "deleting"] /\ work' = work
  <2>1. life'[m] = "deleting" /\ work'[m] = work[m]
    BY <1>1, <1>7 DEF IdInvariant
  <2> QED
    BY <1>1, <1>3, <1>5, <1>7, <2>1
    DEF ResourceInvariant, StoredInvariant, ResolvingInvariant, ResolvedInvariant,
        ObjectInvariant, RightKinds
<1> QED
  BY <1>4, <1>6, <1>7

LEMMA UserSetsKeeps ==
    ASSUME ResolvedFirst, NEW m \in Resources, NEW p0 \in Wired(m), NEW given \in {{}, {Raw}},
           UserSets(m, p0, given)
    PROVE  StepOf(m) /\ UNCHANGED <<gen, id>> /\ ResourceInvariant(m)'
<1>1. /\ IdInvariant /\ ResourceInvariant(m)
      /\ UNCHANGED <<setup, life, gen, id, ext, work>>
  BY DEF ResolvedFirst, UserSets
<1>2. gen' \in [Resources -> Nat] /\ \A t \in Resources : gen[t] <= gen'[t]
  BY <1>1 DEF IdInvariant
<1>3. /\ Wired(m)' = Wired(m) /\ WiredCalls(m)' = WiredCalls(m)
      /\ \A i : PlaceOf(m, i)' = PlaceOf(m, i)
      /\ \A f, ids : RightKind(m, f, ids) => RightKind(m, f, ids)'
  BY <1>1, <1>2, FrameFacts
<1>4. /\ spec' = [spec EXCEPT ![m][p0].ids = given]
      /\ emptied' = [emptied EXCEPT ![m] = IF given = {} THEN @ \cup {p0} ELSE @]
  BY DEF UserSets
<1>5. /\ spec'[m] = [spec[m] EXCEPT ![p0].ids = given]
      /\ emptied'[m] = IF given = {} THEN emptied[m] \cup {p0} ELSE emptied[m]
  BY <1>1, <1>4 DEF IdInvariant
<1>6. spec[m] \in [Wired(m) -> AnyValue] /\ \A p \in Wired(m) : RightKind(m, p[2], spec[m][p].ids)
  BY <1>1 DEF ResourceInvariant, StoredInvariant, RightKinds
<1>7. /\ spec'[m] \in [Wired(m) -> AnyValue] /\ spec'[m][p0].ids = given
      /\ \A p \in Wired(m) : p # p0 => spec'[m][p] = spec[m][p]
  <2>1. [spec[m][p0] EXCEPT !.ids = given] \in AnyValue /\ [spec[m][p0] EXCEPT !.ids = given].ids = given
    <3>1. given \subseteq AnyId
      BY DEF AnyId
    <3>2. spec[m][p0] \in AnyValue
      BY <1>6
    <3> QED
      BY <3>1, <3>2 DEF AnyValue
  <2>2. spec'[m] = [spec[m] EXCEPT ![p0] = [spec[m][p0] EXCEPT !.ids = given]]
    BY <1>5
  <2> QED
    BY <1>6, <2>1, <2>2
<1>8. \A p \in Wired(m) : RightKind(m, p[2], spec'[m][p].ids)
  <2>1. RightKind(m, p0[2], given)
    BY DEF RightKind
  <2> QED
    BY <1>6, <1>7, <2>1
<1>9. emptied[m] \subseteq emptied'[m] /\ (given = {} => p0 \in emptied'[m])
  BY <1>5
<1>10. StepOf(m)
  BY <1>1, <1>4 DEF StepOf, IdInvariant
<1>11. StoredInvariant(m)'
  BY <1>1, <1>3, <1>7, <1>8 DEF ResourceInvariant, StoredInvariant, RightKinds
<1>12. ResolvingInvariant(m)'
  <2>1. SUFFICES ASSUME work[m].phase = "resolving" PROVE ResolvingInvariant(m)'
    BY <1>1 DEF ResolvingInvariant
  <2>2. \A p \in Wired(m) : work[m].read[p].ids # {} /\ spec'[m][p].ids = {} => p \in emptied'[m]
    BY <1>1, <1>7, <1>9, <2>1 DEF ResourceInvariant, ResolvingInvariant
  <2> QED
    BY <1>1, <1>3, <2>1, <2>2 DEF ResourceInvariant, ResolvingInvariant, RightKinds
<1>13. ResolvedInvariant(m)'
  BY <1>1, <1>3, <1>9 DEF ResourceInvariant, ResolvedInvariant, RightKinds
<1> QED
  BY <1>1, <1>3, <1>9, <1>10, <1>11, <1>12, <1>13 DEF ResourceInvariant, ObjectInvariant

-----------------------------------------------------------------------------
LEMMA StepResolvedFirst == ResolvedFirst /\ [Next]_vars => ResolvedFirst'
<1> SUFFICES ASSUME ResolvedFirst, [Next]_vars PROVE ResolvedFirst'
  OBVIOUS
<1>1. ASSUME NEW m \in Resources,
             StepOf(m), ResourceInvariant(m)',
             \/ UNCHANGED <<gen, id>>
             \/ gen' = [gen EXCEPT ![m] = @ + 1] /\ id'[m] = <<m, gen'[m]>>
             \/ gen' = gen /\ id'[m] = NoId
      PROVE  ResolvedFirst'
  <2>1. IdInvariant
    BY DEF ResolvedFirst
  <2>2. /\ gen' \in [Resources -> Nat] /\ \A t \in Resources : gen[t] <= gen'[t]
        /\ id'[m] # NoId => id'[m] = <<m, gen'[m]>>
    BY <1>1, <2>1 DEF IdInvariant
  <2>3. IdInvariant'
    BY <1>1, <2>1, <2>2 DEF IdInvariant, StepOf
  <2>4. ASSUME NEW q \in Resources, q # m PROVE ResourceInvariant(q)'
    <3>1. ResourceInvariant(q)
      BY DEF ResolvedFirst
    <3>2. /\ setup' = setup /\ life'[q] = life[q] /\ id'[q] = id[q] /\ spec'[q] = spec[q]
          /\ ext'[q] = ext[q] /\ work'[q] = work[q] /\ emptied'[q] = emptied[q]
      BY <1>1, <2>4 DEF StepOf
    <3> QED
      BY <2>1, <2>2, <3>1, <3>2, OthersKeep
  <2>5. \A q \in Resources : ResourceInvariant(q)'
    BY <1>1, <2>4
  <2> QED
    BY <2>3, <2>5 DEF ResolvedFirst
<1>2. CASE UNCHANGED vars
  <2>1. IdInvariant
    BY DEF ResolvedFirst
  <2>2. gen' \in [Resources -> Nat] /\ \A t \in Resources : gen[t] <= gen'[t]
    BY <1>2, <2>1 DEF vars, IdInvariant
  <2>3. \A q \in Resources : ResourceInvariant(q)'
    BY <1>2, <2>1, <2>2, OthersKeep DEF ResolvedFirst, vars
  <2>4. IdInvariant'
    BY <1>2, <2>1 DEF vars, IdInvariant
  <2> QED
    BY <2>3, <2>4 DEF ResolvedFirst
<1>3. CASE Next
  <2>1. PICK m \in Resources :
          \/ Reconcile(m)
          \/ UserCreates(m) \/ UserDeletes(m) \/ Interrupt(m)
          \/ \E p \in Wired(m), ids \in {{}, {Raw}} : UserSets(m, p, ids)
    BY <1>3 DEF Next
  <2>2. CASE Begin(m) \/ KeepValue(m) \/ ResolveFails(m) \/ Interrupt(m) \/ AddFinalizer(m)
    BY <1>1, <2>2, ReconcileKeeps
  <2>3. CASE Resolve(m)
    BY <1>1, <2>3, ResolveKeeps
  <2>4. CASE Persist(m)
    BY <1>1, <2>4, PersistKeeps
  <2>5. CASE Create(m)
    BY <1>1, <2>5, CreateKeeps
  <2>6. CASE Update(m)
    BY <1>1, <2>6, UpdateKeeps
  <2>7. CASE Delete(m)
    BY <1>1, <2>7, DeleteKeeps
  <2>8. CASE UserCreates(m)
    BY <1>1, <2>8, UserCreatesKeeps
  <2>9. CASE UserDeletes(m)
    BY <1>1, <2>9, UserDeletesKeeps
  <2>10. ASSUME NEW p \in Wired(m), NEW ids \in {{}, {Raw}}, UserSets(m, p, ids)
         PROVE  ResolvedFirst'
    BY <1>1, <2>10, UserSetsKeeps
  <2> QED
    BY <2>1, <2>2, <2>3, <2>4, <2>5, <2>6, <2>7, <2>8, <2>9, <2>10 DEF Reconcile
<1> QED
  BY <1>2, <1>3

(* An external object never points at the wrong kind of object, nor lacks  *)
(* a field that is wired and that no user emptied, whatever the resources, *)
(* the wiring, and the order of failures, deletions and interruptions.     *)
THEOREM CreatedResolvedAlways == Spec => []CreatedResolved
<1>1. ResolvedFirst => CreatedResolved
  <2> SUFFICES ASSUME ResolvedFirst, NEW m \in Resources, ext[m] # NoObject,
                      NEW p \in Wired(m)
               PROVE  /\ ext[m][p[2]] = {} => p \in emptied[m]
                      /\ \A x \in ext[m][p[2]] \ {Raw} :
                            /\ <<p[2], Kind(x[1])>> \in references[Kind(m)]
                            /\ x[2] <= gen[x[1]]
    BY DEF CreatedResolved
  <2>1. RightKind(m, p[2], ext[m][p[2]]) /\ (ext[m][p[2]] = {} => p \in emptied[m])
    BY DEF ResolvedFirst, ResourceInvariant, ObjectInvariant
  <2> QED
    BY <2>1 DEF RightKind
<1> QED
  BY <1>1, InitResolvedFirst, StepResolvedFirst, PTL DEF Spec

-----------------------------------------------------------------------------
(* What a reconcile has changed in memory it found empty, or the policy of *)
(* the field is Always.                                                    *)
FilledInvariant(m) ==
    work[m].phase = "resolving" =>
        \A p \in Wired(m) :
            work[m].mg[p] # work[m].read[p] =>
                Wiring(m)[p].always \/ work[m].read[p].ids = {}

Filled == edits \in Nat /\ \A m \in Resources : FilledInvariant(m)

LEMMA ResolveFills ==
    ASSUME ResolvedFirst, NEW m \in Resources, FilledInvariant(m), Resolve(m)
    PROVE  FilledInvariant(m)'
<1>1. work[m].phase = "resolving" /\ setup' = setup /\ DOMAIN work = Resources
  BY DEF Resolve, ResolvedFirst, IdInvariant
<1>2. /\ work[m] = [phase |-> "resolving", left |-> work[m].left,
                    read |-> work[m].read, mg |-> work[m].mg]
      /\ work[m].mg \in [Wired(m) -> AnyValue]
  BY <1>1 DEF ResolvedFirst, ResourceInvariant, ResolvingInvariant
<1>3. PICK p0, new :
        /\ ~Kept(work[m].mg[p0], Wiring(m)[p0])
        /\ \E i : work' = [work EXCEPT ![m].left = @ \ {i}, ![m].mg[p0] = new]
  BY DEF Resolve
<1>4. /\ work'[m].read = work[m].read
      /\ \A p \in Wired(m) : p # p0 => work'[m].mg[p] = work[m].mg[p]
  <2>1. PICK i : work' = [work EXCEPT ![m].left = @ \ {i}, ![m].mg[p0] = new]
    BY <1>3
  <2>2. work'[m] = [work[m] EXCEPT !.left = @ \ {i}, !.mg = [work[m].mg EXCEPT ![p0] = new]]
    BY <1>1, <2>1
  <2> QED
    BY <1>2, <2>2
<1>5. ASSUME NEW p \in Wired(m), work'[m].mg[p] # work[m].read[p]
      PROVE  Wiring(m)[p].always \/ work[m].read[p].ids = {}
  <2>1. CASE work[m].mg[p] # work[m].read[p]
    BY <1>1, <2>1 DEF FilledInvariant
  <2>2. CASE work[m].mg[p] = work[m].read[p]
    <3>1. p = p0
      BY <1>4, <1>5, <2>2
    <3>2. CASE work[m].mg[p0].ids = {}
      BY <2>2, <3>1, <3>2
    <3>3. CASE Wiring(m)[p0].always
      BY <3>1, <3>3
    <3> QED
      BY <1>3, <3>2, <3>3 DEF Kept
  <2> QED
    BY <2>1, <2>2
<1>6. Wired(m)' = Wired(m) /\ Wiring(m)' = Wiring(m)
  BY <1>1 DEF Wired, Wiring
<1> QED
  BY <1>4, <1>5, <1>6 DEF FilledInvariant

LEMMA StepFilled == ResolvedFirst /\ Filled /\ [Next]_vars => Filled'
<1> SUFFICES ASSUME ResolvedFirst, Filled, [Next]_vars PROVE Filled'
  OBVIOUS
<1>0. edits' \in Nat
  <2>1. CASE UNCHANGED vars
    BY <2>1 DEF vars, Filled
  <2>2. CASE Next
    <3>1. PICK q \in Resources :
            \/ Reconcile(q)
            \/ UserCreates(q) \/ UserDeletes(q) \/ Interrupt(q)
            \/ \E p \in Wired(q), ids \in {{}, {Raw}} : UserSets(q, p, ids)
      BY <2>2 DEF Next
    <3>2. CASE Reconcile(q) \/ UserCreates(q)
      <4>1. edits' = edits
        BY <3>2
        DEF Reconcile, Begin, KeepValue, Resolve, ResolveFails, Persist, AddFinalizer, Create,
            Update, Delete, UserCreates
      <4> QED
        BY <4>1 DEF Filled
    <3>3. CASE UserDeletes(q) \/ Interrupt(q)
      BY <3>3 DEF Filled, UserDeletes, Interrupt, Bounded
    <3>4. ASSUME NEW p, NEW ids, UserSets(q, p, ids) PROVE edits' \in Nat
      BY <3>4 DEF Filled, UserSets, Bounded
    <3> QED
      BY <3>1, <3>2, <3>3, <3>4
  <2> QED
    BY <2>1, <2>2
<1> SUFFICES ASSUME NEW m \in Resources PROVE FilledInvariant(m)'
  BY <1>0 DEF Filled
<1>1. FilledInvariant(m) /\ DOMAIN work = Resources
  BY DEF Filled, ResolvedFirst, IdInvariant
<1>2. ASSUME setup' = setup, work'[m] = work[m] PROVE FilledInvariant(m)'
  BY <1>1, <1>2 DEF FilledInvariant, Wired, Wiring
<1>3. ASSUME work'[m].phase # "resolving" PROVE FilledInvariant(m)'
  BY <1>3 DEF FilledInvariant
<1>4. CASE UNCHANGED vars
  BY <1>2, <1>4 DEF vars
<1>5. CASE Next
  <2>1. PICK q \in Resources :
          \/ Reconcile(q)
          \/ UserCreates(q) \/ UserDeletes(q) \/ Interrupt(q)
          \/ \E p \in Wired(q), ids \in {{}, {Raw}} : UserSets(q, p, ids)
    BY <1>5 DEF Next
  <2>2. CASE q # m
    <3>1. setup' = setup /\ work'[m] = work[m]
      BY <1>1, <2>1, <2>2
      DEF Reconcile, Begin, KeepValue, Resolve, ResolveFails, Persist, AddFinalizer, Create,
          Update, Delete, UserCreates, UserDeletes, UserSets, Interrupt
    <3> QED
      BY <1>2, <3>1
  <2>3. CASE q = m /\ Begin(q)
    BY <1>1, <2>3 DEF Begin, FilledInvariant
  <2>4. CASE q = m /\ KeepValue(q)
    <3>1. /\ setup' = setup /\ work[m].phase = "resolving"
          /\ work[m] = [phase |-> "resolving", left |-> work[m].left,
                        read |-> work[m].read, mg |-> work[m].mg]
      BY <2>4 DEF KeepValue, ResolvedFirst, ResourceInvariant, ResolvingInvariant
    <3>2. PICK i : work' = [work EXCEPT ![m].left = @ \ {i}]
      BY <2>4 DEF KeepValue
    <3>3. work'[m] = [work[m] EXCEPT !.left = @ \ {i}]
      BY <1>1, <3>2
    <3>4. work'[m].mg = work[m].mg /\ work'[m].read = work[m].read
      BY <3>1, <3>3
    <3> QED
      BY <1>1, <3>1, <3>4 DEF FilledInvariant, Wired, Wiring
  <2>5. CASE q = m /\ Resolve(q)
    BY <1>1, <2>5, ResolveFills
  <2>6. CASE q = m /\ (ResolveFails(q) \/ Interrupt(q) \/ Create(q) \/ Update(q) \/ Persist(q))
    BY <1>1, <1>3, <2>6 DEF ResolveFails, Interrupt, Create, Update, Persist, Idle
  <2>7. CASE q = m /\ (AddFinalizer(q) \/ Delete(q) \/ UserCreates(q))
    BY <1>2, <2>7 DEF AddFinalizer, Delete, UserCreates
  <2>8. CASE q = m /\ UserDeletes(q)
    BY <1>1, <1>2, <1>3, <2>8 DEF UserDeletes, Idle
  <2>9. CASE q = m /\ \E p \in Wired(q), ids \in {{}, {Raw}} : UserSets(q, p, ids)
    BY <1>2, <2>9 DEF UserSets
  <2> QED
    BY <2>1, <2>2, <2>3, <2>4, <2>5, <2>6, <2>7, <2>8, <2>9 DEF Reconcile
<1> QED
  BY <1>4, <1>5

(* A step of the provider changes a value that was set when the reconcile  *)
(* read it only under the policy Always.                                   *)
LEMMA StepOnlyFills ==
    ResolvedFirst /\ Filled /\ [Next]_vars =>
        [\A m \in Resources : life[m] # "absent" /\ edits' = edits =>
            \A p \in Wired(m) :
                spec'[m][p] # spec[m][p] =>
                    Wiring(m)[p].always \/ work[m].read[p].ids = {}]_vars
<1> SUFFICES ASSUME ResolvedFirst, Filled, Next, NEW m \in Resources,
                    life[m] # "absent", edits' = edits, NEW p \in Wired(m),
                    spec'[m][p] # spec[m][p]
             PROVE  Wiring(m)[p].always \/ work[m].read[p].ids = {}
  OBVIOUS
<1>1. PICK q \in Resources :
        \/ Reconcile(q)
        \/ UserCreates(q) \/ UserDeletes(q) \/ Interrupt(q)
        \/ \E pl \in Wired(q), ids \in {{}, {Raw}} : UserSets(q, pl, ids)
  BY DEF Next
<1>2. DOMAIN spec = Resources /\ FilledInvariant(m)
  BY DEF Filled, ResolvedFirst, IdInvariant
<1>3. CASE Persist(q)
  <2>1. q = m
    BY <1>2, <1>3 DEF Persist
  <2>2. work[m].phase = "resolving" /\ work[m].mg[p] # work[m].read[p]
    BY <1>2, <1>3, <2>1 DEF Persist
  <2> QED
    BY <1>2, <2>2 DEF FilledInvariant
<1>4. CASE UserCreates(q)
  BY <1>2, <1>4 DEF UserCreates
<1>5. ASSUME NEW pl, NEW ids, UserSets(q, pl, ids) PROVE FALSE
  BY <1>5 DEF Filled, UserSets, Bounded
<1>6. CASE \/ Begin(q) \/ KeepValue(q) \/ Resolve(q) \/ ResolveFails(q) \/ AddFinalizer(q)
           \/ Create(q) \/ Update(q) \/ Delete(q) \/ UserDeletes(q) \/ Interrupt(q)
  BY <1>6
  DEF Begin, KeepValue, Resolve, ResolveFails, AddFinalizer, Create, Update, Delete,
      UserDeletes, Interrupt
<1> QED
  BY <1>1, <1>3, <1>4, <1>5, <1>6 DEF Reconcile

(* The provider fills fields and does not overrule them, whatever users,   *)
(* failures and other resources do meanwhile.                              *)
THEOREM OnlyEmptyIsFilledAlways == Spec => OnlyEmptyIsFilled
<1>1. Init => Filled
  BY DEF Init, Filled, FilledInvariant, Idle
<1> QED
  BY <1>1, InitResolvedFirst, StepResolvedFirst, StepFilled, StepOnlyFills, PTL
  DEF Spec, OnlyEmptyIsFilled

-----------------------------------------------------------------------------
(* TypeOK is not inductive: that a name never has more external objects    *)
(* than MaxGen depends on a resource that has none having had room for one *)
(* since its user created it, and that an update keeps the fields of the   *)
(* external object on there being one whenever there is an id.             *)
TypedResource(m) ==
    /\ life[m] # "absent" /\ id[m] = NoId => gen[m] < MaxGen
    /\ id[m] # NoId => gen[m] \in 1 .. MaxGen /\ ext[m] \in [Fields(m) -> SUBSET Ids]
    /\ spec[m] \in Values(m)
    /\ ext[m] \in [Fields(m) -> SUBSET Ids] \cup {NoObject}
    /\ work[m] \in Reconciles(m)
    /\ emptied[m] \subseteq Wired(m)

Typed ==
    /\ life \in [Resources -> {"absent", "live", "held", "deleting"}]
    /\ gen \in [Resources -> 0 .. MaxGen]
    /\ edits \in 0 .. MaxEdits
    /\ \A m \in Resources : TypedResource(m)

(* What the types are made of never changes.                               *)
LEMMA TypesStay ==
    ASSUME setup' = setup, NEW m
    PROVE  /\ Wired(m)' = Wired(m) /\ Fields(m)' = Fields(m)
           /\ Values(m)' = Values(m) /\ Reconciles(m)' = Reconciles(m)
<1>1. Wired(m)' = Wired(m) /\ WiredCalls(m)' = WiredCalls(m)
  BY DEF Kind, Wired, Wiring, WiredCalls
<1>2. Fields(m)' = Fields(m)
  BY <1>1 DEF Fields
<1>3. Values(m)' = Values(m)
  BY <1>1 DEF Values
<1> QED
  BY <1>1, <1>2, <1>3 DEF Reconciles

LEMMA BlankTyped ==
    ASSUME setup \in Setups, NEW m \in Resources
    PROVE  Blank(m) \in Values(m)
<1>1. ASSUME NEW p \in Wired(m)
      PROVE  Blank(m)[p] \in [ids : SUBSET Ids, refs : SUBSET Resources]
  <2>1. Wiring(m)[p].targets \subseteq Resources
    BY SetupsAssumption DEF IsSetup, Wired, Wiring, Wire
  <2>2. Blank(m)[p] = [ids  |-> {},
                       refs |-> IF Wiring(m)[p].via = "ref" THEN Wiring(m)[p].targets ELSE {}]
    BY DEF Blank
  <2> QED
    BY <2>1, <2>2
<1> QED
  BY <1>1 DEF Values, Blank

LEMMA InitTyped == Init => Typed
<1> SUFFICES ASSUME Init PROVE Typed
  OBVIOUS
<1>1. ASSUME NEW m \in Resources PROVE TypedResource(m)
  <2>1. /\ life[m] = "absent" /\ spec[m] = Blank(m) /\ work[m] = Idle /\ id[m] = NoId
        /\ ext[m] = NoObject /\ emptied[m] = {} /\ setup \in Setups
    BY DEF Init
  <2> QED
    BY <2>1, BlankTyped DEF TypedResource, Reconciles
<1> QED
  BY <1>1, BoundsAssumption DEF Init, Typed

(* A reconcile that resolves or has resolved has the fields that go with   *)
(* its phase.                                                              *)
LEMMA PhaseFacts ==
    ASSUME NEW m, work[m] \in Reconciles(m)
    PROVE  /\ work[m].phase = "resolving" =>
                 /\ work[m] = [phase |-> "resolving", left |-> work[m].left,
                               read |-> work[m].read, mg |-> work[m].mg]
                 /\ work[m].left \subseteq WiredCalls(m)
                 /\ work[m].read \in Values(m) /\ work[m].mg \in Values(m)
           /\ work[m].phase = "resolved" => work[m].mg \in Values(m)
<1>1. CASE work[m] = Idle
  BY <1>1 DEF Idle
<1>2. CASE work[m] \in [phase : {"resolving"}, left : SUBSET WiredCalls(m),
                        read : Values(m), mg : Values(m)]
  BY <1>2
<1>3. CASE work[m] \in [phase : {"resolved"}, mg : Values(m)]
  BY <1>3
<1> QED
  BY <1>1, <1>2, <1>3 DEF Reconciles

(* The ids a resource has are among the ids.                               *)
LEMMA IdsTyped ==
    ASSUME IdInvariant, Typed, NEW t \in Resources, id[t] # NoId
    PROVE  id[t] \in Ids \ {Raw}
<1>1. gen[t] \in 1 .. MaxGen /\ id[t] = <<t, gen[t]>>
  BY DEF IdInvariant, Typed, TypedResource
<1>2. MaxGen \in Nat /\ gen[t] \in Nat
  BY <1>1, BoundsAssumption
<1> QED
  BY <1>1, <1>2, NamesAssumption DEF Ids

-----------------------------------------------------------------------------
LEMMA ReconcileTyped ==
    ASSUME ResolvedFirst, Typed, NEW m \in Resources,
           Begin(m) \/ KeepValue(m) \/ ResolveFails(m) \/ Interrupt(m) \/ AddFinalizer(m)
    PROVE  TypedResource(m)'
<1>1. /\ IdInvariant /\ TypedResource(m) /\ UNCHANGED <<setup, gen, id, spec, ext, emptied>>
  BY DEF ResolvedFirst, Typed, Begin, KeepValue, ResolveFails, Interrupt, AddFinalizer
<1>2. /\ Wired(m)' = Wired(m) /\ Fields(m)' = Fields(m)
      /\ Values(m)' = Values(m) /\ Reconciles(m)' = Reconciles(m)
  BY <1>1, TypesStay
<1>3. life'[m] # "absent" => life[m] # "absent"
  BY <1>1
  DEF IdInvariant, Begin, KeepValue, ResolveFails, Interrupt, AddFinalizer
<1>4. work'[m] \in Reconciles(m)
  <2>1. CASE Begin(m)
    <3>1. work'[m] = [phase |-> "resolving", left |-> WiredCalls(m),
                      read |-> spec[m], mg |-> spec[m]]
      BY <1>1, <2>1 DEF Begin, IdInvariant
    <3> QED
      BY <1>1, <3>1 DEF TypedResource, Reconciles
  <2>2. CASE KeepValue(m)
    <3>1. PICK i : work' = [work EXCEPT ![m].left = @ \ {i}]
      BY <2>2 DEF KeepValue
    <3>2. work'[m] = [work[m] EXCEPT !.left = @ \ {i}]
      BY <1>1, <3>1 DEF IdInvariant
    <3>3. /\ work[m] = [phase |-> "resolving", left |-> work[m].left,
                        read |-> work[m].read, mg |-> work[m].mg]
          /\ work[m].left \subseteq WiredCalls(m)
          /\ work[m].read \in Values(m) /\ work[m].mg \in Values(m)
      BY <1>1, <2>2, PhaseFacts DEF TypedResource, KeepValue
    <3>4. work'[m] = [phase |-> "resolving", left |-> work[m].left \ {i},
                      read |-> work[m].read, mg |-> work[m].mg]
      BY <3>2, <3>3
    <3> QED
      BY <3>3, <3>4 DEF Reconciles
  <2>3. CASE ResolveFails(m) \/ Interrupt(m)
    BY <1>1, <2>3 DEF ResolveFails, Interrupt, IdInvariant, Reconciles
  <2>4. CASE AddFinalizer(m)
    BY <1>1, <2>4 DEF AddFinalizer, TypedResource
  <2> QED
    BY <2>1, <2>2, <2>3, <2>4
<1> QED
  BY <1>1, <1>2, <1>3, <1>4 DEF TypedResource

LEMMA ResolveTyped ==
    ASSUME ResolvedFirst, Typed, NEW m \in Resources, Resolve(m)
    PROVE  TypedResource(m)'
<1>1. /\ IdInvariant /\ TypedResource(m)
      /\ UNCHANGED <<setup, life, gen, id, spec, ext, emptied>>
  BY DEF ResolvedFirst, Typed, Resolve
<1>2. /\ Wired(m)' = Wired(m) /\ Fields(m)' = Fields(m)
      /\ Values(m)' = Values(m) /\ Reconciles(m)' = Reconciles(m)
  BY <1>1, TypesStay
<1>3. /\ work[m] = [phase |-> "resolving", left |-> work[m].left,
                    read |-> work[m].read, mg |-> work[m].mg]
      /\ work[m].left \subseteq WiredCalls(m)
      /\ work[m].read \in Values(m) /\ work[m].mg \in Values(m)
  BY <1>1, PhaseFacts DEF TypedResource, Resolve
<1>4. PICK i \in work[m].left :
        \E ts \in Referents(work[m].mg[PlaceOf(m, i)], Wiring(m)[PlaceOf(m, i)],
                            Calls(Kind(m))[i].to) :
           /\ Resolvable(ts, Calls(Kind(m))[i].to)
           /\ work' = [work EXCEPT ![m].left = @ \ {i},
                  ![m].mg[PlaceOf(m, i)] = [ids |-> {id[t] : t \in ts}, refs |-> ts]]
  BY DEF Resolve, InTurn, PlaceOf
<1> DEFINE p0 == PlaceOf(m, i)
           to == Calls(Kind(m))[i].to
<1>5. PICK ts \in Referents(work[m].mg[p0], Wiring(m)[p0], to) :
           /\ Resolvable(ts, to)
           /\ work' = [work EXCEPT ![m].left = @ \ {i},
                  ![m].mg[p0] = [ids |-> {id[t] : t \in ts}, refs |-> ts]]
  BY <1>4
<1> DEFINE new == [ids |-> {id[t] : t \in ts}, refs |-> ts]
           mg2 == [work[m].mg EXCEPT ![p0] = new]
<1>6. p0 \in Wired(m)
  BY <1>1, <1>3, CallFacts DEF IdInvariant
<1>7. ts \subseteq Resources
  <2>1. work[m].mg[p0].refs \subseteq Resources
    BY <1>3, <1>6 DEF Values
  <2>2. Wiring(m)[p0].targets \subseteq Resources
    BY <1>1, <1>6, SetupsAssumption DEF IdInvariant, IsSetup, Wired, Wiring, Wire
  <2> QED
    BY <1>5, <2>1, <2>2 DEF Referents
<1>8. \A t \in ts : id[t] \in Ids
  BY <1>1, <1>5, <1>7, IdsTyped DEF Resolvable, Extractable
<1>9. new \in [ids : SUBSET Ids, refs : SUBSET Resources]
  BY <1>7, <1>8
<1>10. mg2 \in Values(m)
  BY <1>3, <1>9 DEF Values
<1>11. work'[m] = [work[m] EXCEPT !.left = @ \ {i}, !.mg = mg2]
  BY <1>1, <1>5 DEF IdInvariant
<1> HIDE DEF mg2, new
<1>12. work'[m] \in Reconciles(m)
  <2> DEFINE Resolving == [phase : {"resolving"}, left : SUBSET WiredCalls(m),
                           read : Values(m), mg : Values(m)]
  <2>1. work[m] \in Resolving
    BY <1>3
  <2>2. work'[m] \in Resolving
    BY <1>10, <1>11, <2>1
  <2> QED
    BY <2>2 DEF Reconciles
<1> QED
  BY <1>1, <1>2, <1>12 DEF TypedResource

LEMMA PersistTyped ==
    ASSUME ResolvedFirst, Typed, NEW m \in Resources, Persist(m)
    PROVE  TypedResource(m)'
<1>1. /\ IdInvariant /\ TypedResource(m)
      /\ UNCHANGED <<setup, life, gen, id, ext, emptied>>
  BY DEF ResolvedFirst, Typed, Persist
<1>2. /\ Wired(m)' = Wired(m) /\ Fields(m)' = Fields(m)
      /\ Values(m)' = Values(m) /\ Reconciles(m)' = Reconciles(m)
  BY <1>1, TypesStay
<1>3. work[m].mg \in Values(m) /\ spec[m] \in Values(m)
  BY <1>1, PhaseFacts DEF TypedResource, Persist
<1> DEFINE changed == {p \in Wired(m) : work[m].mg[p] # work[m].read[p]}
           patched == [p \in Wired(m) |->
                          IF p \in changed THEN work[m].mg[p] ELSE spec[m][p]]
           stored == IF changed = {} THEN spec[m] ELSE patched
           held == IF changed = {} THEN work[m].mg ELSE patched
<1>4. /\ spec' = [spec EXCEPT ![m] = stored]
      /\ work' = [work EXCEPT ![m] = [phase |-> "resolved", mg |-> held]]
  BY DEF Persist
<1>5. patched \in Values(m)
  BY <1>3 DEF Values
<1>6. stored \in Values(m) /\ held \in Values(m)
  BY <1>3, <1>5
<1> HIDE DEF changed, patched, stored, held
<1>7. spec'[m] = stored /\ work'[m] = [phase |-> "resolved", mg |-> held]
  BY <1>1, <1>4 DEF IdInvariant
<1>8. work'[m] \in Reconciles(m)
  BY <1>6, <1>7 DEF Reconciles
<1> QED
  BY <1>1, <1>2, <1>6, <1>7, <1>8 DEF TypedResource

(* What a reconcile stores for a field are ids.                            *)
LEMMA StoredTyped ==
    ASSUME NEW m, NEW mg \in Values(m), NEW part, NEW f
    PROVE  Stored(mg, part, f) \in SUBSET Ids
<1>1. CASE <<part, f>> \in DOMAIN mg
  <2>1. mg[<<part, f>>] \in [ids : SUBSET Ids, refs : SUBSET Resources]
    BY <1>1 DEF Values
  <2> QED
    BY <1>1, <2>1 DEF Stored
<1>2. CASE <<part, f>> \notin DOMAIN mg
  BY <1>2 DEF Stored
<1> QED
  BY <1>1, <1>2

LEMMA CreateTyped ==
    ASSUME ResolvedFirst, Typed, NEW m \in Resources, Create(m)
    PROVE  /\ TypedResource(m)'
           /\ gen' \in [Resources -> 0 .. MaxGen]
<1>1. /\ IdInvariant /\ TypedResource(m) /\ ResourceInvariant(m)
      /\ UNCHANGED <<setup, life, spec, emptied>>
  BY DEF ResolvedFirst, Typed, Create
<1>2. /\ Wired(m)' = Wired(m) /\ Fields(m)' = Fields(m)
      /\ Values(m)' = Values(m) /\ Reconciles(m)' = Reconciles(m)
  BY <1>1, TypesStay
<1>3. /\ work[m].phase = "resolved" /\ id[m] = NoId
      /\ gen' = [gen EXCEPT ![m] = @ + 1]
      /\ id' = [id EXCEPT ![m] = <<m, gen'[m]>>]
      /\ ext' = [ext EXCEPT ![m] = GetMergedParameters(work[m].mg, m)]
      /\ work' = [work EXCEPT ![m] = Idle]
  BY DEF Create
<1>4. gen[m] \in Nat /\ gen[m] < MaxGen /\ MaxGen \in Nat
  BY <1>1, <1>3, BoundsAssumption
  DEF Typed, TypedResource, ResourceInvariant, ResolvedInvariant
<1>5. gen \in [Resources -> 0 .. MaxGen] /\ gen[m] + 1 \in 1 .. MaxGen
  BY <1>4 DEF Typed
<1>6. gen'[m] = gen[m] + 1 /\ gen' \in [Resources -> 0 .. MaxGen]
  BY <1>3, <1>5
<1>7. id'[m] = <<m, gen'[m]>> /\ id'[m] # NoId
  <2>1. <<m, gen'[m]>> \in Resources \X Nat
    BY <1>4, <1>6
  <2> QED
    BY <1>1, <1>3, <2>1, NamesAssumption DEF IdInvariant
<1>8. ext'[m] = GetMergedParameters(work[m].mg, m) /\ work'[m] = Idle
  BY <1>1, <1>3 DEF IdInvariant
<1>9. GetMergedParameters(work[m].mg, m) \in [Fields(m) -> SUBSET Ids]
  <2>1. work[m].mg \in Values(m)
    BY <1>1, <1>3, PhaseFacts DEF TypedResource
  <2>2. \A part, f : Stored(work[m].mg, part, f) \in SUBSET Ids
    BY <2>1, StoredTyped
  <2> QED
    BY <2>2 DEF GetMergedParameters
<1>10. work'[m] \in Reconciles(m)
  BY <1>8 DEF Reconciles
<1>11. spec'[m] \in Values(m) /\ emptied'[m] \subseteq Wired(m)
  BY <1>1 DEF TypedResource
<1> QED
  BY <1>2, <1>5, <1>6, <1>7, <1>8, <1>9, <1>10, <1>11 DEF TypedResource

LEMMA UpdateTyped ==
    ASSUME ResolvedFirst, Typed, NEW m \in Resources, Update(m)
    PROVE  TypedResource(m)'
<1>1. /\ IdInvariant /\ TypedResource(m)
      /\ UNCHANGED <<setup, life, gen, id, spec, emptied>>
  BY DEF ResolvedFirst, Typed, Update
<1>2. /\ Wired(m)' = Wired(m) /\ Fields(m)' = Fields(m)
      /\ Values(m)' = Values(m) /\ Reconciles(m)' = Reconciles(m)
  BY <1>1, TypesStay
<1> DEFINE given(f) == Stored(work[m].mg, "forProvider", f)
           updated == [f \in Fields(m) |-> IF given(f) # {} THEN given(f) ELSE ext[m][f]]
<1>3. /\ work[m].phase = "resolved" /\ id[m] # NoId
      /\ ext' = [ext EXCEPT ![m] = updated] /\ work' = [work EXCEPT ![m] = Idle]
  BY DEF Update
<1>4. updated \in [Fields(m) -> SUBSET Ids]
  <2>1. work[m].mg \in Values(m) /\ ext[m] \in [Fields(m) -> SUBSET Ids]
    BY <1>1, <1>3, PhaseFacts DEF TypedResource
  <2>2. \A f : given(f) \in SUBSET Ids
    BY <2>1, StoredTyped
  <2> HIDE DEF given
  <2> QED
    BY <2>1, <2>2
<1> HIDE DEF updated
<1>5. ext'[m] = updated /\ work'[m] = Idle
  BY <1>1, <1>3 DEF IdInvariant
<1>6. work'[m] \in Reconciles(m)
  BY <1>5 DEF Reconciles
<1> QED
  BY <1>1, <1>2, <1>4, <1>5, <1>6 DEF TypedResource

LEMMA DeleteTyped ==
    ASSUME ResolvedFirst, Typed, NEW m \in Resources, Delete(m)
    PROVE  TypedResource(m)'
<1>1. /\ IdInvariant /\ TypedResource(m)
      /\ UNCHANGED <<setup, gen, spec, work, emptied>>
  BY DEF ResolvedFirst, Typed, Delete
<1>2. /\ Wired(m)' = Wired(m) /\ Fields(m)' = Fields(m)
      /\ Values(m)' = Values(m) /\ Reconciles(m)' = Reconciles(m)
  BY <1>1, TypesStay
<1>3. life'[m] = "absent" /\ id'[m] = NoId /\ ext'[m] = NoObject
  BY <1>1 DEF Delete, IdInvariant
<1> QED
  BY <1>1, <1>2, <1>3 DEF TypedResource

(* What users do to a resource: its values become ids again, and a name    *)
(* that may have no more external objects is not used anew.                *)
LEMMA UsersTyped ==
    ASSUME ResolvedFirst, Typed, NEW m \in Resources,
           \/ UserCreates(m) \/ UserDeletes(m)
           \/ \E p \in Wired(m), ids \in {{}, {Raw}} : UserSets(m, p, ids)
    PROVE  TypedResource(m)'
<1>1. IdInvariant /\ TypedResource(m) /\ UNCHANGED <<setup, gen, id, ext>>
  BY DEF ResolvedFirst, Typed, UserCreates, UserDeletes, UserSets
<1>2. /\ Wired(m)' = Wired(m) /\ Fields(m)' = Fields(m)
      /\ Values(m)' = Values(m) /\ Reconciles(m)' = Reconciles(m)
  BY <1>1, TypesStay
<1>3. CASE UserCreates(m)
  <2>1. /\ gen[m] < MaxGen /\ spec'[m] = Blank(m) /\ emptied'[m] = {} /\ work' = work
    BY <1>1, <1>3 DEF UserCreates, IdInvariant
  <2>2. Blank(m) \in Values(m)
    BY <1>1, BlankTyped DEF IdInvariant
  <2> QED
    BY <1>1, <1>2, <2>1, <2>2 DEF TypedResource
<1>4. CASE UserDeletes(m)
  <2>1. /\ life'[m] # "absent" => life[m] # "absent"
        /\ work'[m] = work[m] \/ work'[m] = Idle
        /\ spec' = spec /\ emptied' = emptied
    BY <1>1, <1>4 DEF UserDeletes, IdInvariant
  <2>2. work'[m] \in Reconciles(m)
    BY <1>1, <2>1 DEF TypedResource, Reconciles
  <2> QED
    BY <1>1, <1>2, <2>1, <2>2 DEF TypedResource
<1>5. ASSUME NEW p \in Wired(m), NEW ids \in {{}, {Raw}}, UserSets(m, p, ids)
      PROVE  TypedResource(m)'
  <2>1. /\ spec' = [spec EXCEPT ![m][p].ids = ids]
        /\ emptied' = [emptied EXCEPT ![m] = IF ids = {} THEN @ \cup {p} ELSE @]
        /\ life' = life /\ work' = work
    BY <1>5 DEF UserSets
  <2> DEFINE value == [spec[m][p] EXCEPT !.ids = ids]
  <2>2. spec'[m] = [spec[m] EXCEPT ![p] = value] /\ emptied'[m] \subseteq Wired(m)
    BY <1>1, <2>1 DEF IdInvariant, TypedResource
  <2>3. value \in [ids : SUBSET Ids, refs : SUBSET Resources]
    <3>1. spec[m][p] \in [ids : SUBSET Ids, refs : SUBSET Resources]
      BY <1>1 DEF TypedResource, Values
    <3>2. ids \in SUBSET Ids
      BY DEF Ids
    <3> QED
      BY <3>1, <3>2
  <2> HIDE DEF value
  <2>4. spec'[m] \in Values(m)
    BY <1>1, <2>2, <2>3 DEF TypedResource, Values
  <2> QED
    BY <1>1, <1>2, <2>1, <2>2, <2>4 DEF TypedResource
<1> QED
  BY <1>3, <1>4, <1>5

-----------------------------------------------------------------------------
LEMMA StepTyped == ResolvedFirst /\ Typed /\ [Next]_vars => Typed'
<1> SUFFICES ASSUME ResolvedFirst, Typed, [Next]_vars PROVE Typed'
  OBVIOUS
<1>1. CASE UNCHANGED vars
  <2>1. ASSUME NEW m \in Resources PROVE TypedResource(m)'
    BY <1>1, <2>1, TypesStay DEF vars, Typed, TypedResource
  <2> QED
    BY <1>1, <2>1 DEF vars, Typed
<1>2. CASE Next
  <2>1. PICK m \in Resources :
          \/ Reconcile(m)
          \/ UserCreates(m) \/ UserDeletes(m) \/ Interrupt(m)
          \/ \E p \in Wired(m), ids \in {{}, {Raw}} : UserSets(m, p, ids)
    BY <1>2 DEF Next
  <2>2. /\ StepOf(m)
        /\ life' \in [Resources -> {"absent", "live", "held", "deleting"}]
        /\ gen' \in [Resources -> 0 .. MaxGen]
        /\ TypedResource(m)'
    <3>1. CASE Begin(m) \/ KeepValue(m) \/ ResolveFails(m) \/ Interrupt(m) \/ AddFinalizer(m)
      <4>1. StepOf(m) /\ gen' = gen /\ TypedResource(m)'
        BY <3>1, ReconcileKeeps, ReconcileTyped
      <4>2. life' = life \/ life' = [life EXCEPT ![m] = "held"]
        BY <3>1 DEF Begin, KeepValue, ResolveFails, Interrupt, AddFinalizer
      <4> QED
        BY <4>1, <4>2 DEF Typed
    <3>2. CASE Resolve(m)
      BY <3>2, ResolveKeeps, ResolveTyped DEF Typed, Resolve
    <3>3. CASE Persist(m)
      BY <3>3, PersistKeeps, PersistTyped DEF Typed, Persist
    <3>4. CASE Create(m)
      BY <3>4, CreateKeeps, CreateTyped DEF Typed, Create
    <3>5. CASE Update(m)
      BY <3>5, UpdateKeeps, UpdateTyped DEF Typed, Update
    <3>6. CASE Delete(m)
      BY <3>6, DeleteKeeps, DeleteTyped DEF Typed, Delete
    <3>7. CASE UserCreates(m)
      BY <3>7, UserCreatesKeeps, UsersTyped DEF Typed, UserCreates
    <3>8. CASE UserDeletes(m)
      <4>1. StepOf(m) /\ gen' = gen /\ TypedResource(m)'
        BY <3>8, UserDeletesKeeps, UsersTyped
      <4>2. life' = [life EXCEPT ![m] = "absent"] \/ life' = [life EXCEPT ![m] = "deleting"]
        BY <3>8 DEF UserDeletes
      <4> QED
        BY <4>1, <4>2 DEF Typed
    <3>9. ASSUME NEW p \in Wired(m), NEW ids \in {{}, {Raw}}, UserSets(m, p, ids)
          PROVE  StepOf(m) /\ life' = life /\ gen' = gen /\ TypedResource(m)'
      BY <3>9, UserSetsKeeps, UsersTyped DEF UserSets
    <3> QED
      BY <2>1, <3>1, <3>2, <3>3, <3>4, <3>5, <3>6, <3>7, <3>8, <3>9 DEF Reconcile, Typed
  <2>3. ASSUME NEW q \in Resources, q # m PROVE TypedResource(q)'
    <3>1. /\ setup' = setup /\ life'[q] = life[q] /\ id'[q] = id[q] /\ spec'[q] = spec[q]
          /\ ext'[q] = ext[q] /\ work'[q] = work[q] /\ emptied'[q] = emptied[q]
          /\ gen'[q] = gen[q]
      BY <2>2, <2>3 DEF StepOf
    <3>2. /\ Wired(q)' = Wired(q) /\ Fields(q)' = Fields(q)
          /\ Values(q)' = Values(q) /\ Reconciles(q)' = Reconciles(q)
      BY <3>1, TypesStay
    <3> QED
      BY <3>1, <3>2 DEF Typed, TypedResource
  <2>4. edits' \in 0 .. MaxEdits
    <3>1. CASE Reconcile(m) \/ UserCreates(m)
      <4>1. edits' = edits
        BY <3>1
        DEF Reconcile, Begin, KeepValue, Resolve, ResolveFails, Persist, AddFinalizer, Create,
            Update, Delete, UserCreates
      <4> QED
        BY <4>1 DEF Typed
    <3>2. ASSUME Bounded PROVE edits' \in 0 .. MaxEdits
      BY <3>2, BoundsAssumption DEF Bounded, Typed
    <3>3. CASE UserDeletes(m) \/ Interrupt(m)
      BY <3>2, <3>3 DEF UserDeletes, Interrupt
    <3>4. ASSUME NEW p, NEW ids, UserSets(m, p, ids) PROVE edits' \in 0 .. MaxEdits
      BY <3>2, <3>4 DEF UserSets
    <3> QED
      BY <2>1, <3>1, <3>3, <3>4
  <2> QED
    BY <2>2, <2>3, <2>4 DEF Typed
<1> QED
  BY <1>1, <1>2

(* Every variable has its type in every reachable state: no name has more  *)
(* external objects than the bound, no value holds anything but ids, and a *)
(* reconcile has what its phase needs.                                     *)
THEOREM TypeOKAlways == Spec => []TypeOK
<1>1. ResolvedFirst /\ Typed => TypeOK
  <2> SUFFICES ASSUME ResolvedFirst, Typed PROVE TypeOK
    OBVIOUS
  <2>1. IdInvariant
    BY DEF ResolvedFirst
  <2>2. \A m \in Resources : id[m] \in (Ids \ {Raw}) \cup {NoId}
    BY <2>1, IdsTyped
  <2> QED
    BY <2>1, <2>2 DEF TypeOK, Typed, TypedResource, IdInvariant
<1> QED
  BY <1>1, InitResolvedFirst, StepResolvedFirst, InitTyped, StepTyped, PTL DEF Spec

=============================================================================
