---------------------------- MODULE ReleaseProofs ----------------------------
(***************************************************************************)
(* Proofs about Release, for any number of commits, releases and runs.     *)
(* The group of Release runs cuts a tag only for a commit that no tag has  *)
(* released, which bounds the tags by the commits worth one; each publish  *)
(* run is in one of eight stages, and a digest that a version tag of the   *)
(* registry points to was pushed by a run for that version.                *)
(***************************************************************************)
EXTENDS Release, SequenceTheorems, FiniteSetTheorems, TLAPS

ReleasedWorth == {c \in worth : Released(c)}

(* A decision is for an unreleased commit, so every tag has one of its own.*)
GroupInvariant ==
    /\ main \in 0 .. MaxCommits
    /\ worth \subseteq 1 .. main /\ Cardinality(worth) <= MaxWorth
    /\ running \in 0 .. main /\ pending \in 0 .. main
    /\ decided \in BOOLEAN
    /\ tags \in Seq(1 .. main)
    /\ decided => running # 0 /\ \E c \in worth : c <= running /\ ~Released(c)
    /\ Len(tags) <= Cardinality(ReleasedWorth)
    /\ byHand \in 0 .. MaxByHand
    /\ started \in Nat /\ started <= Len(tags) + byHand

LEMMA InitGroup == Init => GroupInvariant
<1> SUFFICES ASSUME Init PROVE GroupInvariant
  OBVIOUS
<1>1. tags = <<>> /\ tags \in Seq(1 .. main) /\ Len(tags) = 0
  BY EmptySeq DEF Init
<1>2. worth = {} /\ ReleasedWorth = {} /\ Cardinality({}) = 0
  BY FS_EmptySet DEF Init, ReleasedWorth
<1>3. main = 0 /\ running = 0 /\ pending = 0 /\ started = 0 /\ byHand = 0
  BY DEF Init
<1>4. decided \in BOOLEAN /\ ~decided
  BY DEF Init
<1>5. /\ main \in 0 .. MaxCommits /\ running \in 0 .. main /\ pending \in 0 .. main
      /\ worth \subseteq 1 .. main /\ Cardinality(worth) <= MaxWorth
      /\ byHand \in 0 .. MaxByHand /\ started \in Nat
  BY <1>2, <1>3, BoundsAssumption
<1>6. Len(tags) <= Cardinality(ReleasedWorth) /\ started <= Len(tags) + byHand
  BY <1>1, <1>2, <1>3
<1> QED
  BY <1>1, <1>4, <1>5, <1>6 DEF GroupInvariant

(* What the group leaves of its invariant to every other step.             *)
LEMMA CountingFacts ==
    ASSUME GroupInvariant
    PROVE  /\ IsFiniteSet(worth) /\ IsFiniteSet(ReleasedWorth)
           /\ Cardinality(worth) \in Nat /\ Cardinality(ReleasedWorth) \in Nat
           /\ Cardinality(ReleasedWorth) <= Cardinality(worth)
           /\ Len(tags) \in Nat /\ DOMAIN tags = 1 .. Len(tags)
           /\ Len(tags) <= MaxWorth /\ started <= MaxWorth + MaxByHand
<1>1. main \in Nat /\ worth \subseteq 1 .. main /\ tags \in Seq(1 .. main)
      /\ Cardinality(worth) <= MaxWorth /\ Len(tags) <= Cardinality(ReleasedWorth)
      /\ byHand \in 0 .. MaxByHand /\ started \in Nat /\ started <= Len(tags) + byHand
  BY BoundsAssumption DEF GroupInvariant
<1>2. IsFiniteSet(1 .. main)
  BY <1>1, FS_Interval
<1>3. IsFiniteSet(worth) /\ Cardinality(worth) \in Nat
  BY <1>1, <1>2, FS_Subset, FS_CardinalityType
<1>4. IsFiniteSet(ReleasedWorth) /\ Cardinality(ReleasedWorth) <= Cardinality(worth)
  BY <1>3, FS_Subset DEF ReleasedWorth
<1>5. Cardinality(ReleasedWorth) \in Nat
  BY <1>4, FS_CardinalityType
<1>6. Len(tags) \in Nat /\ DOMAIN tags = 1 .. Len(tags)
  BY <1>1, LenProperties
<1> QED
  BY <1>1, <1>3, <1>4, <1>5, <1>6, BoundsAssumption

(* A push adds a commit, worth a release or not, and releases nothing.     *)
LEMMA MergeGroup == GroupInvariant /\ Merge => GroupInvariant'
<1> SUFFICES ASSUME GroupInvariant, Merge PROVE GroupInvariant'
  OBVIOUS
<1>1. /\ main \in Nat /\ main < MaxCommits /\ main' = main + 1
      /\ worth \subseteq 1 .. main /\ Cardinality(worth) <= MaxWorth
      /\ running \in 0 .. main /\ pending \in 0 .. main
      /\ UNCHANGED <<decided, tags, started, byHand>>
  BY BoundsAssumption DEF GroupInvariant, Merge, publishing, packages
<1>2. worth \subseteq worth' /\ worth' \subseteq 1 .. main' /\ Cardinality(worth') <= MaxWorth
  <2>1. CASE UNCHANGED worth
    BY <1>1, <2>1
  <2>2. CASE Cardinality(worth) < MaxWorth /\ worth' = worth \cup {main + 1}
    <3>1. main + 1 \notin worth
      BY <1>1
    <3>2. Cardinality(worth') = Cardinality(worth) + 1
      BY <2>2, <3>1, CountingFacts, FS_AddElement
    <3> QED
      BY <1>1, <2>2, <3>2, CountingFacts, BoundsAssumption
  <2> QED
    BY <2>1, <2>2 DEF Merge
<1>3. tags' \in Seq(1 .. main')
  BY <1>1, SeqMonotonic DEF GroupInvariant
<1>4. \A c : Released(c)' <=> Released(c)
  BY <1>1 DEF Released
<1>5. Len(tags') <= Cardinality(ReleasedWorth')
  <2>1. ReleasedWorth \subseteq ReleasedWorth' /\ ReleasedWorth' \subseteq 1 .. main'
    BY <1>2, <1>4 DEF ReleasedWorth
  <2>2. IsFiniteSet(ReleasedWorth')
    <3>1. IsFiniteSet(1 .. main')
      BY <1>1, FS_Interval
    <3> QED
      BY <2>1, <3>1, FS_Subset
  <2>3. Cardinality(ReleasedWorth) <= Cardinality(ReleasedWorth')
    BY <2>1, <2>2, FS_Subset
  <2>4. Cardinality(ReleasedWorth') \in Nat
    BY <2>2, FS_CardinalityType
  <2> QED
    BY <1>1, <2>3, <2>4, CountingFacts DEF GroupInvariant
<1>6. running' \in 0 .. main' /\ pending' \in 0 .. main' /\ (running # 0 => running' = running)
  BY <1>1 DEF Merge, JoinGroup
<1>7. decided' => running' # 0 /\ \E c \in worth' : c <= running' /\ ~Released(c)'
  BY <1>1, <1>2, <1>4, <1>6 DEF GroupInvariant
<1> QED
  BY <1>1, <1>2, <1>3, <1>5, <1>6, <1>7, BoundsAssumption DEF GroupInvariant

(* A tag releases a commit that none has released, and is one tag more: it *)
(* is within the bound on versions.                                        *)
LEMMA CutTagGroup ==
    ASSUME GroupInvariant, CutTag
    PROVE  GroupInvariant' /\ Len(tags) + 1 \in Versions
<1>1. /\ tags' = Append(tags, running) /\ running' = 0 /\ decided' = FALSE
      /\ UNCHANGED <<main, worth, pending, byHand>> /\ started' = started + 1
      /\ running # 0 /\ decided
  BY DEF CutTag, EndRelease, Trigger, StartPublish
<1>2. running \in 1 .. main /\ tags \in Seq(1 .. main) /\ main \in Nat
  BY <1>1, BoundsAssumption DEF GroupInvariant
<1>3. /\ tags' \in Seq(1 .. main) /\ Len(tags') = Len(tags) + 1
      /\ DOMAIN tags' = 1 .. Len(tags) + 1
      /\ \A v \in 1 .. Len(tags) : tags'[v] = tags[v]
      /\ tags'[Len(tags) + 1] = running
  BY <1>1, <1>2, AppendProperties, LenProperties
<1>4. PICK c \in worth : c <= running /\ ~Released(c)
  BY <1>1 DEF GroupInvariant
<1>5. ReleasedWorth \cup {c} \subseteq ReleasedWorth'
  <2>1. Released(c)'
    <3>1. Len(tags) \in Nat
      BY CountingFacts
    <3>2. Len(tags) + 1 \in DOMAIN tags'
      BY <1>3, <3>1
    <3>3. c <= tags'[Len(tags) + 1]
      BY <1>3, <1>4
    <3> QED
      BY <3>2, <3>3 DEF Released
  <2>2. \A k : Released(k) => Released(k)'
    BY <1>3, CountingFacts DEF Released
  <2> QED
    BY <1>1, <1>4, <2>1, <2>2 DEF ReleasedWorth
<1>6. ReleasedWorth' \subseteq worth /\ IsFiniteSet(ReleasedWorth')
      /\ Cardinality(ReleasedWorth') \in Nat
  <2>1. ReleasedWorth' \subseteq worth
    BY <1>1 DEF ReleasedWorth
  <2> QED
    BY <2>1, CountingFacts, FS_Subset, FS_CardinalityType
<1>7. Cardinality(ReleasedWorth \cup {c}) = Cardinality(ReleasedWorth) + 1
  <2>1. c \notin ReleasedWorth
    BY <1>4 DEF ReleasedWorth
  <2> QED
    BY <2>1, CountingFacts, FS_AddElement
<1>8. Cardinality(ReleasedWorth \cup {c}) <= Cardinality(ReleasedWorth')
  BY <1>5, <1>6, FS_Subset
<1>9. Len(tags') <= Cardinality(ReleasedWorth')
  BY <1>3, <1>6, <1>7, <1>8, CountingFacts DEF GroupInvariant
<1>10. started' \in Nat /\ started' <= Len(tags') + byHand'
  BY <1>1, <1>3, CountingFacts, BoundsAssumption DEF GroupInvariant
<1>11. decided' \in BOOLEAN /\ ~decided'
  BY <1>1
<1>12. running' \in 0 .. main /\ pending' \in 0 .. main
  BY <1>1, <1>2 DEF GroupInvariant
<1>13. /\ main' \in 0 .. MaxCommits /\ worth' \subseteq 1 .. main'
       /\ Cardinality(worth') <= MaxWorth /\ byHand' \in 0 .. MaxByHand
  BY <1>1 DEF GroupInvariant
<1>14. Len(tags) + 1 \in Versions
  <2>1. Cardinality(ReleasedWorth') <= Cardinality(worth)
    BY <1>6, CountingFacts, FS_Subset
  <2>2. Cardinality(worth) <= MaxWorth
    BY DEF GroupInvariant
  <2> QED
    BY <1>3, <1>6, <1>9, <2>1, <2>2, CountingFacts, BoundsAssumption DEF Versions
<1>15. GroupInvariant'
  BY <1>1, <1>3, <1>9, <1>10, <1>11, <1>12, <1>13 DEF GroupInvariant
<1> QED
  BY <1>14, <1>15

LEMMA SlackKept ==
    ASSUME NEW a \in Nat, NEW b \in Nat, NEW n \in Nat, NEW s \in Nat, NEW t \in Nat,
           s <= n + a, t - b <= s - a
    PROVE  t <= n + b
  OBVIOUS

(* The other steps neither tag nor push; what they change is the run that  *)
(* is under way, the one that waits, and the count of what is by hand.     *)
LEMMA QuietGroup ==
    ASSUME GroupInvariant, UNCHANGED <<main, worth, tags>>,
           running' \in 0 .. main, pending' \in 0 .. main, decided' \in BOOLEAN,
           decided' => running' # 0 /\ \E c \in worth : c <= running' /\ ~Released(c),
           byHand' \in 0 .. MaxByHand, started' \in Nat,
           started' - byHand' <= started - byHand
    PROVE  GroupInvariant'
<1>1. ReleasedWorth' = ReleasedWorth /\ \A c : Released(c)' <=> Released(c)
  BY DEF ReleasedWorth, Released
<1>2. started' <= Len(tags) + byHand'
  <2>1. byHand \in Nat /\ byHand' \in Nat /\ started \in Nat /\ started <= Len(tags) + byHand
    BY BoundsAssumption DEF GroupInvariant
  <2>2. Len(tags) \in Nat
    BY CountingFacts
  <2> QED
    BY <2>1, <2>2, SlackKept
<1> QED
  BY <1>1, <1>2 DEF GroupInvariant

LEMMA StepGroup == GroupInvariant /\ [Next]_vars => GroupInvariant'
<1> SUFFICES ASSUME GroupInvariant, [Next]_vars PROVE GroupInvariant'
  OBVIOUS
<1>1. CASE Merge
  BY <1>1, MergeGroup
<1>2. CASE CutTag
  BY <1>2, CutTagGroup
<1>3. CASE UNCHANGED vars
  BY <1>3, QuietGroup DEF vars, group, publishing, packages, GroupInvariant
<1>4. ASSUME NEW c \in Commits, ReleaseByHand(c) PROVE GroupInvariant'
  <2>1. /\ UNCHANGED <<main, worth, tags, decided, started>>
        /\ byHand' = byHand + 1 /\ byHand < MaxByHand /\ c \in 1 .. main
    BY <1>4 DEF ReleaseByHand, ByHand, packages, Commits, GroupInvariant
  <2>2. running' \in 0 .. main /\ pending' \in 0 .. main /\ (running # 0 => running' = running)
    BY <1>4, <2>1 DEF ReleaseByHand, JoinGroup, GroupInvariant
  <2> QED
    BY <2>1, <2>2, QuietGroup, BoundsAssumption DEF GroupInvariant
<1>5. CASE StartPending
  BY <1>5, QuietGroup DEF StartPending, publishing, packages, GroupInvariant
<1>6. CASE Decide
  <2>1. UNCHANGED <<main, worth, pending, tags, started, byHand>>
    BY <1>6 DEF Decide, publishing, packages
  <2>2. CASE EndRelease("success")
    <3>1. running' = 0 /\ decided' \in BOOLEAN /\ ~decided'
      BY <2>2 DEF EndRelease
    <3> QED
      BY <2>1, <3>1, QuietGroup DEF GroupInvariant
  <2>3. CASE ~EndRelease("success")
    <3>1. decided' = TRUE /\ running' = running /\ running # 0
          /\ \E c \in worth : c <= running /\ ~Released(c)
      BY <1>6, <2>3 DEF Decide
    <3> QED
      BY <2>1, <3>1, QuietGroup DEF GroupInvariant
  <2> QED
    BY <2>2, <2>3
<1>7. CASE ReleaseFails
  <2>1. running' = 0 /\ decided' \in BOOLEAN /\ ~decided'
    BY <1>7 DEF ReleaseFails, EndRelease
  <2>2. UNCHANGED <<main, worth, pending, tags, started, byHand>>
    BY <1>7 DEF ReleaseFails, publishing, packages
  <2> QED
    BY <2>1, <2>2, QuietGroup DEF GroupInvariant
<1>8. ASSUME NEW from \in Refs, Dispatch(from) PROVE GroupInvariant'
  <2>1. UNCHANGED group /\ byHand' = byHand + 1 /\ byHand < MaxByHand /\ started' = started + 1
    BY <1>8 DEF Dispatch, ByHand, StartPublish
  <2> QED
    BY <2>1, QuietGroup, BoundsAssumption DEF group, GroupInvariant
<1>9. ASSUME NEW r \in Runs, PublishStep(r) PROVE GroupInvariant'
  <2>1. UNCHANGED <<group, started, byHand>>
    BY <1>9 DEF PublishStep, ResolveVersion, PublishPackage, ResolveDigest, AttachSignature
  <2> QED
    BY <2>1, QuietGroup DEF group, GroupInvariant
<1>10. ASSUME NEW r \in Runs, RerunPublish(r) PROVE GroupInvariant'
  <2>1. UNCHANGED <<group, started>> /\ byHand' = byHand + 1 /\ byHand < MaxByHand
    BY <1>10 DEF RerunPublish, ByHand
  <2> QED
    BY <2>1, QuietGroup, BoundsAssumption DEF group, GroupInvariant
<1> QED
  BY <1>1, <1>2, <1>3, <1>4, <1>5, <1>6, <1>7, <1>8, <1>9, <1>10 DEF Next

LEMMA GroupAlways == Spec => []GroupInvariant
  BY InitGroup, StepGroup, PTL DEF Spec

-----------------------------------------------------------------------------
Digests == (1 .. started) \X Nat

Statuses == {"waiting", "running", "success", "failure", "skipped"}

PackagesType ==
    /\ ref \in [Runs -> Refs]
    /\ job \in [Runs -> [Jobs -> Statuses]]
    /\ attempt \in [Runs -> Nat]
    /\ registry \in [0 .. MaxWorth -> {NoDigest} \cup Digests]
    /\ signing \in [Runs -> {NoDigest} \cup Digests]
    /\ signed \subseteq Digests

Stage(r, first, second, third) ==
    job[r]["resolve"] = first /\ job[r]["publish"] = second /\ job[r]["sign"] = third

(* The eight stages of a run, whatever was re-run.                         *)
Orderly(r) ==
    \/ Stage(r, "waiting", "waiting", "waiting")
    \/ Stage(r, "failure", "skipped", "skipped")
    \/ Stage(r, "success", "waiting", "waiting")
    \/ Stage(r, "success", "failure", "skipped")
    \/ Stage(r, "success", "success", "waiting")
    \/ Stage(r, "success", "success", "running")
    \/ Stage(r, "success", "success", "success")
    \/ Stage(r, "success", "success", "failure")

(* What a run signs, or has signed, is a package of its version.           *)
SignsItsVersion(r) ==
    /\ r > started => Stage(r, "waiting", "waiting", "waiting")
    /\ job[r]["resolve"] = "success" => ref[r].version \in Versions /\ ref[r] = Tag(ref[r].version)
    /\ job[r]["sign"] = "running" => signing[r] \in Digests /\ ref[signing[r][1]] = ref[r]
    /\ job[r]["sign"] = "success" => \E d \in signed : ref[d[1]] = ref[r]

(* The run that pushed what a version's tag points to is one for that      *)
(* version, and has not ended its signing well without signing it.         *)
PushedByItsVersion(v) ==
    registry[v] # NoDigest =>
        /\ registry[v] \in Digests /\ ref[registry[v][1]] = Tag(v)
        /\ registry[v] \notin signed =>
              /\ job[registry[v][1]]["sign"] # "success"
              /\ job[registry[v][1]]["sign"] = "running" =>
                    signing[registry[v][1]] = registry[v]

PackagesInvariant ==
    /\ PackagesType
    /\ \A r \in Runs : Orderly(r) /\ SignsItsVersion(r)
    /\ \A v \in Versions : PushedByItsVersion(v)

Pipeline == GroupInvariant /\ PackagesInvariant

(* Only the tag of a version resolves.                                     *)
LEMMA ResolvesVersions ==
    ASSUME NEW f \in Refs
    PROVE  /\ f.version \in 0 .. MaxWorth
           /\ "success" \in ResolveEnds(f) => f.version \in Versions /\ f = Tag(f.version)
<1>1. CASE f = Branch
  BY <1>1, BoundsAssumption DEF Branch, ResolveEnds
<1>2. CASE f = Malformed
  BY <1>2, BoundsAssumption DEF Malformed, ResolveEnds
<1>3. ASSUME NEW v \in Versions, f = Tag(v)
      PROVE  f.version \in 0 .. MaxWorth /\ f.version \in Versions /\ f = Tag(f.version)
  BY <1>3, BoundsAssumption DEF Tag, Versions
<1> QED
  BY <1>1, <1>2, <1>3 DEF Refs

(* When a job ends, its run's table changes and no other.                  *)
LEMMA EndsFacts ==
    ASSUME PackagesType, NEW r \in Runs, NEW j \in Jobs, NEW how \in Statuses, Ends(r, j, how)
    PROVE  /\ job' \in [Runs -> [Jobs -> Statuses]]
           /\ \A q \in Runs : q # r => job'[q] = job[q]
           /\ \A k \in Jobs :
                 job'[r][k] = IF k = j THEN how
                              ELSE IF j \in Needs(k) /\ how # "success" THEN "skipped"
                              ELSE job[r][k]
<1> DEFINE table == [k \in Jobs |-> IF k = j THEN how
                                    ELSE IF j \in Needs(k) /\ how # "success" THEN "skipped"
                                    ELSE job[r][k]]
<1>1. job \in [Runs -> [Jobs -> Statuses]] /\ "skipped" \in Statuses
  BY DEF PackagesType, Statuses
<1>2. job' = [job EXCEPT ![r] = table]
  BY DEF Ends
<1>3. table \in [Jobs -> Statuses]
  BY <1>1
<1> QED
  BY <1>1, <1>2, <1>3

LEMMA JobsFacts ==
    /\ \A j : j \in Jobs <=> j = "resolve" \/ j = "publish" \/ j = "sign"
    /\ "resolve" \notin Needs("resolve") /\ "publish" \notin Needs("resolve")
    /\ "sign" \notin Needs("resolve")
    /\ "resolve" \in Needs("publish") /\ "sign" \notin Needs("publish")
    /\ "publish" \notin Needs("publish")
    /\ "resolve" \in Needs("sign") /\ "publish" \in Needs("sign") /\ "sign" \notin Needs("sign")
  BY DEF Jobs, Needs

LEMMA InitPackages == Init => PackagesInvariant
<1> SUFFICES ASSUME Init PROVE PackagesInvariant
  OBVIOUS
<1>1. /\ started = 0 /\ signed = {} /\ ref = [r \in Runs |-> Branch]
      /\ job = [r \in Runs |-> [j \in Jobs |-> "waiting"]]
      /\ attempt = [r \in Runs |-> 1]
      /\ registry = [v \in 0 .. MaxWorth |-> NoDigest]
      /\ signing = [r \in Runs |-> NoDigest]
  BY DEF Init, Waiting
<1>2. PackagesType
  BY <1>1 DEF PackagesType, Refs, Statuses
<1>3. \A r \in Runs : Stage(r, "waiting", "waiting", "waiting")
  BY <1>1, JobsFacts DEF Stage
<1>4. \A v \in Versions : registry[v] = NoDigest
  BY <1>1, BoundsAssumption DEF Versions
<1> QED
  BY <1>2, <1>3, <1>4
  DEF PackagesInvariant, Orderly, SignsItsVersion, PushedByItsVersion, Stage

(* A digest's run is one of the runs.                                      *)
LEMMA DigestFacts ==
    ASSUME Pipeline
    PROVE  /\ started \in Nat /\ 1 .. started \subseteq Runs
           /\ \A d \in Digests : d[1] \in 1 .. started /\ d[1] \in Runs /\ d = <<d[1], d[2]>>
           /\ NoDigest \notin Digests
           /\ Versions \subseteq 0 .. MaxWorth
<1>1. started \in Nat /\ started <= MaxWorth + MaxByHand
  BY CountingFacts DEF Pipeline, GroupInvariant
<1>2. 1 .. started \subseteq Runs
  BY <1>1, BoundsAssumption DEF Runs
<1> QED
  BY <1>1, <1>2, BoundsAssumption DEF Digests, NoDigest, Versions

(* A new run starts at the first stage.                                    *)
LEMMA StartPublishPackages ==
    ASSUME Pipeline, NEW from \in Refs, StartPublish(from)
    PROVE  PackagesInvariant'
<1>1. /\ started' = started + 1 /\ ref' = [ref EXCEPT ![started + 1] = from]
      /\ UNCHANGED <<job, attempt, registry, signing, signed>>
  BY DEF StartPublish
<1>2. Digests \subseteq Digests' /\ started \in Nat /\ \A r \in 1 .. started : r \in Runs
  BY <1>1, DigestFacts DEF Digests
<1>3. ref' \in [Runs -> Refs]
  BY <1>1 DEF Pipeline, PackagesInvariant, PackagesType
<1>4. PackagesType'
  BY <1>1, <1>2, <1>3 DEF Pipeline, PackagesInvariant, PackagesType
<1>5. \A r \in Runs : r # started + 1 => ref'[r] = ref[r]
  BY <1>1 DEF Pipeline, PackagesInvariant, PackagesType
<1>6. \A r \in 1 .. started : ref'[r] = ref[r]
  BY <1>2, <1>5
<1>7. ASSUME NEW r \in Runs PROVE Orderly(r)' /\ SignsItsVersion(r)'
  <2>1. Orderly(r) /\ SignsItsVersion(r) /\ r \in Nat
    BY DEF Pipeline, PackagesInvariant, Runs
  <2>2. Orderly(r)'
    BY <1>1, <2>1 DEF Orderly, Stage
  <2>3. CASE r > started
    <3>1. /\ job'[r]["resolve"] = "waiting" /\ job'[r]["publish"] = "waiting"
          /\ job'[r]["sign"] = "waiting"
      BY <1>1, <2>1, <2>3 DEF SignsItsVersion, Stage
    <3> QED
      BY <2>2, <3>1 DEF SignsItsVersion, Stage
  <2>4. CASE r <= started
    <3>1. r \in 1 .. started /\ ref'[r] = ref[r] /\ ~(r > started + 1)
      BY <1>2, <1>6, <2>1, <2>4 DEF Runs
    <3>2. \A d \in Digests : ref'[d[1]] = ref[d[1]]
      BY <1>6, DigestFacts
    <3>3. signed \subseteq Digests
      BY DEF Pipeline, PackagesInvariant, PackagesType
    <3>4. job'[r]["sign"] = "success" => \E d \in signed' : ref'[d[1]] = ref'[r]
      BY <1>1, <2>1, <3>1, <3>2, <3>3 DEF SignsItsVersion
    <3> QED
      BY <1>1, <1>2, <2>1, <2>2, <3>1, <3>2, <3>4 DEF SignsItsVersion
  <2> QED
    BY <1>2, <2>1, <2>2, <2>3, <2>4
<1>8. ASSUME NEW v \in Versions PROVE PushedByItsVersion(v)'
  <2>1. PushedByItsVersion(v)
    BY DEF Pipeline, PackagesInvariant
  <2>2. \A d \in Digests : ref'[d[1]] = ref[d[1]]
    BY <1>6, DigestFacts
  <2> QED
    BY <1>1, <1>2, <2>1, <2>2 DEF PushedByItsVersion
<1> QED
  BY <1>4, <1>7, <1>8 DEF PackagesInvariant

(* A job of a run that does not sign: what was pushed and signed stays.    *)
LEMMA ResolveVersionPackages ==
    ASSUME Pipeline, NEW r \in Runs, ResolveVersion(r)
    PROVE  PackagesInvariant'
<1>1. PICK how \in ResolveEnds(ref[r]) : Ends(r, "resolve", how)
  BY DEF ResolveVersion
<1>2. /\ UNCHANGED <<started, ref, attempt, registry, signing, signed>>
      /\ r <= started /\ job[r]["resolve"] = "waiting"
  BY DEF ResolveVersion, Turn
<1>3. PackagesType /\ Orderly(r) /\ ref[r] \in Refs
  BY DEF Pipeline, PackagesInvariant, PackagesType
<1>4. how \in {"success", "failure"} /\ how \in Statuses
  BY <1>1 DEF ResolveEnds, Statuses
<1>5. /\ job' \in [Runs -> [Jobs -> Statuses]]
      /\ \A q \in Runs : q # r => job'[q] = job[q]
      /\ job'[r]["resolve"] = how
      /\ how = "success" => job'[r]["publish"] = "waiting" /\ job'[r]["sign"] = "waiting"
      /\ how = "failure" => job'[r]["publish"] = "skipped" /\ job'[r]["sign"] = "skipped"
  BY <1>1, <1>2, <1>3, <1>4, EndsFacts, JobsFacts DEF Orderly, Stage
<1>6. PackagesType'
  BY <1>2, <1>3, <1>5 DEF PackagesType, Digests
<1>7. ASSUME NEW q \in Runs PROVE Orderly(q)' /\ SignsItsVersion(q)'
  <2>1. Orderly(q) /\ SignsItsVersion(q) /\ started \in Nat /\ r \in Nat
    BY DigestFacts DEF Pipeline, PackagesInvariant, Runs
  <2>2. CASE q # r
    BY <1>2, <1>5, <2>1, <2>2 DEF Orderly, SignsItsVersion, Stage, Digests
  <2>3. CASE q = r
    <3>1. how = "success" => ref[r].version \in Versions /\ ref[r] = Tag(ref[r].version)
      BY <1>1, <1>3, ResolvesVersions
    <3>2. ~(r > started)
      BY <1>2, <2>1
    <3> QED
      BY <1>2, <1>4, <1>5, <2>3, <3>1, <3>2 DEF Orderly, SignsItsVersion, Stage
  <2> QED
    BY <2>2, <2>3
<1>8. ASSUME NEW v \in Versions PROVE PushedByItsVersion(v)'
  <2>1. PushedByItsVersion(v)
    BY DEF Pipeline, PackagesInvariant
  <2>2. job'[r]["sign"] # "success" /\ job'[r]["sign"] # "running"
    BY <1>4, <1>5
  <2>3. \A d \in Digests : d[1] \in Runs
    BY DigestFacts
  <2> QED
    BY <1>2, <1>5, <2>1, <2>2, <2>3 DEF PushedByItsVersion, Digests
<1> QED
  BY <1>6, <1>7, <1>8 DEF PackagesInvariant

(* A push gives the tag of the run's own version a digest of that run.     *)
LEMMA PublishPackagePackages ==
    ASSUME Pipeline, NEW r \in Runs, PublishPackage(r)
    PROVE  PackagesInvariant'
<1> DEFINE v0 == ref[r].version
           d0 == <<r, attempt[r]>>
<1>1. /\ UNCHANGED <<started, ref, attempt, signing, signed>>
      /\ r <= started /\ job[r]["publish"] = "waiting" /\ job[r]["resolve"] = "success"
  BY JobsFacts DEF PublishPackage, Turn, Needs
<1>2. PackagesType /\ Orderly(r) /\ SignsItsVersion(r)
  BY DEF Pipeline, PackagesInvariant
<1>3. PICK how \in {"success", "failure"} :
        /\ Ends(r, "publish", how)
        /\ registry' = [registry EXCEPT ![v0] = d0] \/ UNCHANGED registry
  BY DEF PublishPackage
<1>4. how \in Statuses
  BY DEF Statuses
<1>5. /\ job' \in [Runs -> [Jobs -> Statuses]]
      /\ \A q \in Runs : q # r => job'[q] = job[q]
      /\ job'[r]["resolve"] = "success" /\ job'[r]["publish"] = how
      /\ how = "success" => job'[r]["sign"] = "waiting"
      /\ how = "failure" => job'[r]["sign"] = "skipped"
  BY <1>1, <1>2, <1>3, <1>4, EndsFacts, JobsFacts DEF Orderly, Stage
<1>6. v0 \in Versions /\ ref[r] = Tag(v0) /\ v0 \in 0 .. MaxWorth
  BY <1>1, <1>2, DigestFacts DEF SignsItsVersion
<1>7. d0 \in Digests /\ r \in 1 .. started /\ d0[1] = r
  <2>1. r \in 1 .. started
    BY <1>1, DigestFacts DEF Runs
  <2> QED
    BY <1>2, <2>1 DEF Digests, PackagesType
<1> HIDE DEF v0, d0
<1>8. PackagesType'
  <2>1. registry' \in [0 .. MaxWorth -> {NoDigest} \cup Digests]
    BY <1>2, <1>3, <1>6, <1>7 DEF PackagesType
  <2> QED
    BY <1>1, <1>2, <1>5, <2>1 DEF PackagesType, Digests
<1>9. ASSUME NEW q \in Runs PROVE Orderly(q)' /\ SignsItsVersion(q)'
  <2>1. Orderly(q) /\ SignsItsVersion(q) /\ started \in Nat /\ r \in Nat
    BY DigestFacts DEF Pipeline, PackagesInvariant, Runs
  <2>2. CASE q # r
    BY <1>1, <1>5, <2>1, <2>2 DEF Orderly, SignsItsVersion, Stage, Digests
  <2>3. CASE q = r
    <3>1. ~(r > started)
      BY <1>1, <2>1
    <3> QED
      BY <1>1, <1>2, <1>3, <1>5, <2>3, <3>1 DEF Orderly, SignsItsVersion, Stage
  <2> QED
    BY <2>2, <2>3
<1>10. ASSUME NEW v \in Versions PROVE PushedByItsVersion(v)'
  <2>1. PushedByItsVersion(v)
    BY DEF Pipeline, PackagesInvariant
  <2>2. job'[r]["sign"] # "success" /\ job'[r]["sign"] # "running"
    BY <1>3, <1>5
  <2>3. \A d \in Digests : d[1] \in Runs
    BY DigestFacts
  <2>4. CASE registry'[v] = registry[v]
    BY <1>1, <1>5, <2>1, <2>2, <2>3, <2>4 DEF PushedByItsVersion, Digests
  <2>5. CASE registry'[v] # registry[v]
    <3>1. v = v0 /\ registry'[v] = d0
      <4>1. v \in DOMAIN registry /\ v0 \in DOMAIN registry
        BY <1>2, <1>6, DigestFacts DEF PackagesType
      <4> QED
        BY <1>3, <2>5, <4>1
    <3> QED
      BY <1>1, <1>6, <1>7, <2>2, <3>1 DEF PushedByItsVersion, Digests
  <2> QED
    BY <2>4, <2>5
<1> QED
  BY <1>8, <1>9, <1>10 DEF PackagesInvariant

(* What is signed is the digest the tag of the run's version has now.      *)
LEMMA ResolveDigestPackages ==
    ASSUME Pipeline, NEW r \in Runs, ResolveDigest(r)
    PROVE  PackagesInvariant'
<1> DEFINE found == registry[ref[r].version]
<1>1. /\ UNCHANGED <<started, ref, attempt, registry, signed>>
      /\ r <= started /\ job[r]["sign"] = "waiting" /\ job[r]["publish"] = "success"
  BY JobsFacts DEF ResolveDigest, Turn, Needs
<1>2. PackagesType /\ Orderly(r) /\ SignsItsVersion(r)
  BY DEF Pipeline, PackagesInvariant
<1>3. job[r]["resolve"] = "success"
  BY <1>1, <1>2 DEF Orderly, Stage
<1>4. ref[r].version \in Versions /\ ref[r] = Tag(ref[r].version)
  BY <1>2, <1>3 DEF SignsItsVersion
<1>5. found # NoDigest => found \in Digests /\ ref[found[1]] = ref[r]
  BY <1>4 DEF Pipeline, PackagesInvariant, PushedByItsVersion
<1>6. \/ Ends(r, "sign", "failure") /\ UNCHANGED signing
      \/ /\ found # NoDigest
         /\ job' = [job EXCEPT ![r]["sign"] = "running"]
         /\ signing' = [signing EXCEPT ![r] = found]
  BY DEF ResolveDigest
<1> HIDE DEF found
<1>7. /\ job' \in [Runs -> [Jobs -> Statuses]]
      /\ \A q \in Runs : q # r => job'[q] = job[q]
      /\ job'[r]["resolve"] = "success" /\ job'[r]["publish"] = "success"
      /\ job'[r]["sign"] \in {"failure", "running"}
  <2>1. CASE Ends(r, "sign", "failure")
    BY <1>1, <1>2, <1>3, <2>1, EndsFacts, JobsFacts DEF Statuses
  <2>2. CASE job' = [job EXCEPT ![r]["sign"] = "running"]
    BY <1>1, <1>2, <1>3, <2>2, JobsFacts DEF PackagesType, Statuses
  <2> QED
    BY <1>6, <2>1, <2>2
<1>8. job'[r]["sign"] = "running" =>
        found # NoDigest /\ signing' = [signing EXCEPT ![r] = found]
  <2>1. Ends(r, "sign", "failure") => job'[r]["sign"] = "failure"
    BY <1>2, EndsFacts, JobsFacts DEF Statuses
  <2> QED
    BY <1>6, <2>1
<1>9. /\ signing' \in [Runs -> {NoDigest} \cup Digests]
      /\ \A q \in Runs : q # r => signing'[q] = signing[q]
      /\ job'[r]["sign"] = "running" => signing'[r] = found /\ found # NoDigest
  BY <1>2, <1>5, <1>6, <1>8 DEF PackagesType
<1>10. PackagesType'
  BY <1>1, <1>2, <1>7, <1>9 DEF PackagesType, Digests
<1>11. ASSUME NEW q \in Runs PROVE Orderly(q)' /\ SignsItsVersion(q)'
  <2>1. Orderly(q) /\ SignsItsVersion(q) /\ started \in Nat /\ r \in Nat
    BY DigestFacts DEF Pipeline, PackagesInvariant, Runs
  <2>2. CASE q # r
    BY <1>1, <1>7, <1>9, <2>1, <2>2 DEF Orderly, SignsItsVersion, Stage, Digests
  <2>3. CASE q = r
    <3>1. ~(r > started)
      BY <1>1, <2>1
    <3>2. Orderly(r)'
      BY <1>7 DEF Orderly, Stage
    <3>3. SignsItsVersion(r)'
      BY <1>1, <1>4, <1>5, <1>7, <1>9, <3>1 DEF SignsItsVersion, Digests
    <3> QED
      BY <2>3, <3>2, <3>3
  <2> QED
    BY <2>2, <2>3
<1>12. ASSUME NEW v \in Versions PROVE PushedByItsVersion(v)'
  <2>1. PushedByItsVersion(v)
    BY DEF Pipeline, PackagesInvariant
  <2>2. CASE registry[v] # NoDigest /\ registry[v][1] = r
    <3>1. ref[r] = Tag(v)
      BY <2>1, <2>2 DEF PushedByItsVersion
    <3>2. v = ref[r].version
      BY <3>1 DEF Tag
    <3>3. found = registry[v]
      BY <3>2 DEF found
    <3> QED
      BY <1>1, <1>7, <1>9, <2>1, <2>2, <3>3 DEF PushedByItsVersion, Digests
  <2>3. CASE registry[v] # NoDigest /\ registry[v][1] # r
    <3>1. \A d \in Digests : d[1] \in Runs
      BY DigestFacts
    <3> QED
      BY <1>1, <1>7, <1>9, <2>1, <2>3, <3>1 DEF PushedByItsVersion, Digests
  <2>4. CASE registry[v] = NoDigest
    BY <1>1, <2>4 DEF PushedByItsVersion, NoDigest
  <2> QED
    BY <2>2, <2>3, <2>4
<1> QED
  BY <1>10, <1>11, <1>12 DEF PackagesInvariant

LEMMA AttachSignaturePackages ==
    ASSUME Pipeline, NEW r \in Runs, AttachSignature(r)
    PROVE  PackagesInvariant'
<1>1. /\ UNCHANGED <<started, ref, attempt, registry>> /\ job[r]["sign"] = "running"
      /\ signing' = [signing EXCEPT ![r] = NoDigest]
  BY DEF AttachSignature
<1>2. PackagesType /\ Orderly(r) /\ SignsItsVersion(r)
  BY DEF Pipeline, PackagesInvariant
<1>3. job[r]["resolve"] = "success" /\ job[r]["publish"] = "success"
  BY <1>1, <1>2 DEF Orderly, Stage
<1>4. signing[r] \in Digests /\ ref[signing[r][1]] = ref[r]
  BY <1>1, <1>2 DEF SignsItsVersion
<1>5. PICK how \in {"success", "failure"} :
        /\ Ends(r, "sign", how)
        /\ signed' = signed \cup {signing[r]} \/ (signed' = signed /\ how = "failure")
  BY DEF AttachSignature
<1>6. how \in Statuses
  BY DEF Statuses
<1>7. /\ job' \in [Runs -> [Jobs -> Statuses]]
      /\ \A q \in Runs : q # r => job'[q] = job[q]
      /\ job'[r]["resolve"] = "success" /\ job'[r]["publish"] = "success"
      /\ job'[r]["sign"] = how
  BY <1>2, <1>3, <1>5, <1>6, EndsFacts, JobsFacts
<1>8. /\ signing' \in [Runs -> {NoDigest} \cup Digests]
      /\ \A q \in Runs : q # r => signing'[q] = signing[q]
  BY <1>1, <1>2 DEF PackagesType
<1>9. signed \subseteq signed' /\ signed' \subseteq Digests
      /\ (how = "success" => signing[r] \in signed')
  BY <1>2, <1>4, <1>5 DEF PackagesType
<1>10. PackagesType'
  BY <1>1, <1>2, <1>7, <1>8, <1>9 DEF PackagesType, Digests
<1>11. ASSUME NEW q \in Runs PROVE Orderly(q)' /\ SignsItsVersion(q)'
  <2>1. Orderly(q) /\ SignsItsVersion(q)
    BY DEF Pipeline, PackagesInvariant
  <2>2. CASE q # r
    <3>1. Orderly(q)'
      BY <1>7, <2>1, <2>2 DEF Orderly, Stage
    <3>2. SignsItsVersion(q)'
      BY <1>1, <1>7, <1>8, <1>9, <2>1, <2>2 DEF SignsItsVersion, Stage, Digests
    <3> QED
      BY <3>1, <3>2
  <2>3. CASE q = r
    <3>1. ~(r > started)
      BY <1>1, <1>2 DEF SignsItsVersion, Stage
    <3>2. Orderly(r)'
      BY <1>5, <1>7 DEF Orderly, Stage
    <3>3. SignsItsVersion(r)'
      BY <1>1, <1>2, <1>3, <1>4, <1>5, <1>7, <1>9, <3>1 DEF SignsItsVersion
    <3> QED
      BY <2>3, <3>2, <3>3
  <2> QED
    BY <2>2, <2>3
<1>12. ASSUME NEW v \in Versions PROVE PushedByItsVersion(v)'
  <2>1. PushedByItsVersion(v)
    BY DEF Pipeline, PackagesInvariant
  <2>2. CASE registry[v] # NoDigest /\ registry[v][1] = r
    BY <1>1, <1>5, <1>7, <1>9, <2>1, <2>2 DEF PushedByItsVersion, Digests
  <2>3. CASE registry[v] # NoDigest /\ registry[v][1] # r
    <3>1. \A d \in Digests : d[1] \in Runs
      BY DigestFacts
    <3> QED
      BY <1>1, <1>7, <1>8, <1>9, <2>1, <2>3, <3>1 DEF PushedByItsVersion, Digests
  <2>4. CASE registry[v] = NoDigest
    BY <1>1, <2>4 DEF PushedByItsVersion, NoDigest
  <2> QED
    BY <2>2, <2>3, <2>4
<1> QED
  BY <1>10, <1>11, <1>12 DEF PackagesInvariant

(* A re-run goes back to a stage in which the signing job waits.           *)
LEMMA RerunPublishPackages ==
    ASSUME Pipeline, NEW r \in Runs, RerunPublish(r)
    PROVE  PackagesInvariant'
<1>1. /\ UNCHANGED <<started, ref, registry, signing, signed>> /\ r <= started
      /\ attempt' = [attempt EXCEPT ![r] = @ + 1]
      /\ \A j \in Jobs : job[r][j] \in {"success", "failure", "skipped"}
  BY DEF RerunPublish, Over
<1>2. PackagesType /\ Orderly(r) /\ SignsItsVersion(r)
  BY DEF Pipeline, PackagesInvariant
<1>3. PICK again \in {Jobs, {j \in Jobs : job[r][j] # "success"}} :
        /\ again # {}
        /\ job' = [job EXCEPT ![r] = [j \in Jobs |-> IF j \in again THEN "waiting" ELSE @[j]]]
  BY DEF RerunPublish
<1>4. /\ job' \in [Runs -> [Jobs -> Statuses]]
      /\ \A q \in Runs : q # r => job'[q] = job[q]
      /\ \A j \in Jobs : job'[r][j] = IF j \in again THEN "waiting" ELSE job[r][j]
  BY <1>2, <1>3 DEF PackagesType, Statuses
<1>5. /\ job'[r]["sign"] = "waiting" /\ Orderly(r)'
      /\ job'[r]["resolve"] = "success" => job[r]["resolve"] = "success"
  <2>1. CASE again = Jobs
    BY <1>4, <2>1, JobsFacts DEF Orderly, Stage
  <2>2. CASE again = {j \in Jobs : job[r][j] # "success"}
    <3>1. \E j \in Jobs : job[r][j] # "success"
      BY <1>3, <2>2
    <3>2. \/ Stage(r, "failure", "skipped", "skipped")
          \/ Stage(r, "success", "failure", "skipped")
          \/ Stage(r, "success", "success", "failure")
      BY <1>1, <1>2, <3>1, JobsFacts DEF Orderly, Stage
    <3> QED
      BY <1>4, <2>2, <3>2, JobsFacts DEF Orderly, Stage
  <2> QED
    BY <2>1, <2>2
<1>6. PackagesType'
  BY <1>1, <1>2, <1>4 DEF PackagesType, Digests
<1>7. ASSUME NEW q \in Runs PROVE Orderly(q)' /\ SignsItsVersion(q)'
  <2>1. Orderly(q) /\ SignsItsVersion(q) /\ started \in Nat /\ r \in Nat
    BY DigestFacts DEF Pipeline, PackagesInvariant, Runs
  <2>2. CASE q # r
    BY <1>1, <1>4, <2>1, <2>2 DEF Orderly, SignsItsVersion, Stage, Digests
  <2>3. CASE q = r
    <3>1. ~(r > started)
      BY <1>1, <2>1
    <3> QED
      BY <1>1, <1>2, <1>5, <2>3, <3>1 DEF SignsItsVersion
  <2> QED
    BY <2>2, <2>3
<1>8. ASSUME NEW v \in Versions PROVE PushedByItsVersion(v)'
  <2>1. PushedByItsVersion(v)
    BY DEF Pipeline, PackagesInvariant
  <2>2. \A d \in Digests : d[1] \in Runs
    BY DigestFacts
  <2> QED
    BY <1>1, <1>4, <1>5, <2>1, <2>2 DEF PushedByItsVersion, Digests
<1> QED
  BY <1>6, <1>7, <1>8 DEF PackagesInvariant

(* Whatever is changed outside of the publish runs.                        *)
LEMMA QuietPackages == PackagesInvariant /\ UNCHANGED packages => PackagesInvariant'
  BY DEF packages, PackagesInvariant, PackagesType, Digests, Orderly, Stage, SignsItsVersion,
         PushedByItsVersion

LEMMA StepPipeline == Pipeline /\ [Next]_vars => Pipeline'
<1> SUFFICES ASSUME Pipeline, [Next]_vars PROVE PackagesInvariant'
  BY StepGroup DEF Pipeline
<1>1. PackagesInvariant
  BY DEF Pipeline
<1>2. CASE Merge \/ StartPending \/ Decide \/ ReleaseFails \/ UNCHANGED vars
  <2>1. UNCHANGED packages
    BY <1>2 DEF Merge, StartPending, Decide, ReleaseFails, vars, publishing
  <2> QED
    BY <1>1, <2>1, QuietPackages
<1>3. ASSUME NEW c \in Commits, ReleaseByHand(c) PROVE PackagesInvariant'
  <2>1. UNCHANGED packages
    BY <1>3 DEF ReleaseByHand
  <2> QED
    BY <1>1, <2>1, QuietPackages
<1>4. CASE CutTag
  <2>1. StartPublish(Tag(Len(tags) + 1))
    BY <1>4 DEF CutTag, Trigger
  <2>2. Len(tags) + 1 \in Versions
    BY <1>4, CutTagGroup DEF Pipeline
  <2> QED
    BY <2>1, <2>2, StartPublishPackages DEF Refs
<1>5. ASSUME NEW from \in Refs, Dispatch(from) PROVE PackagesInvariant'
  BY <1>5, StartPublishPackages DEF Dispatch
<1>6. ASSUME NEW r \in Runs, PublishStep(r) PROVE PackagesInvariant'
  BY <1>6, ResolveVersionPackages, PublishPackagePackages, ResolveDigestPackages,
     AttachSignaturePackages DEF PublishStep
<1>7. ASSUME NEW r \in Runs, RerunPublish(r) PROVE PackagesInvariant'
  BY <1>7, RerunPublishPackages
<1> QED
  BY <1>2, <1>3, <1>4, <1>5, <1>6, <1>7 DEF Next

LEMMA PipelineAlways == Spec => []Pipeline
<1>1. Init => Pipeline
  BY InitGroup, InitPackages DEF Pipeline
<1> QED
  BY <1>1, StepPipeline, PTL DEF Spec

(* The tag of a version never points to an unsigned package unless the run *)
(* that pushed it is under way or shows a failure, however many runs and   *)
(* re-runs push and sign under that tag at once.                           *)
THEOREM UnsignedShowsAlways == Spec => []UnsignedShows
<1>1. ASSUME Pipeline, NEW v \in Versions,
             registry[v] # NoDigest, registry[v] \notin signed
      PROVE  Conclusion(registry[v][1]) \in {"running", "failure"}
  <2>1. PushedByItsVersion(v)
    BY <1>1 DEF Pipeline, PackagesInvariant
  <2>2. registry[v][1] \in Runs /\ job[registry[v][1]]["sign"] # "success"
    BY <1>1, <2>1, DigestFacts DEF PushedByItsVersion
  <2> DEFINE r == registry[v][1]
  <2>3. Orderly(r)
    BY <1>1, <2>2 DEF Pipeline, PackagesInvariant
  <2>4. \E j \in Jobs : ~Over(job[r][j]) \/ job[r][j] = "failure"
    BY <2>2, <2>3, JobsFacts DEF Orderly, Stage, Over
  <2> QED
    BY <2>4 DEF Conclusion
<1>2. Pipeline => UnsignedShows
  BY <1>1 DEF UnsignedShows
<1> QED
  BY <1>2, PipelineAlways, PTL

(* A run that shows success was started from a version tag, and a package  *)
(* of that version is signed.                                              *)
THEOREM SuccessIsSignedAlways == Spec => []SuccessIsSigned
<1>1. ASSUME Pipeline, NEW r \in 1 .. started, Conclusion(r) = "success"
      PROVE  ref[r].version # 0 /\ \E d \in signed : ref[d[1]] = ref[r]
  <2>1. r \in Runs /\ Orderly(r) /\ SignsItsVersion(r)
    BY <1>1, DigestFacts DEF Pipeline, PackagesInvariant
  <2>2. \A j \in Jobs : Over(job[r][j]) /\ job[r][j] # "failure"
    BY <1>1 DEF Conclusion
  <2>3. job[r]["resolve"] = "success" /\ job[r]["sign"] = "success"
    BY <2>1, <2>2, JobsFacts DEF Orderly, Stage, Over
  <2>4. 0 \notin Versions
    BY BoundsAssumption DEF Versions
  <2> QED
    BY <2>1, <2>3, <2>4 DEF SignsItsVersion
<1>2. Pipeline => SuccessIsSigned
  BY <1>1 DEF SuccessIsSigned
<1> QED
  BY <1>2, PipelineAlways, PTL

-----------------------------------------------------------------------------
Outcomes == {"none", "waiting", "success", "failure", "cancelled"}

AllReleased == \A c \in worth : Released(c)

(* What is not released yet waits for the run of the newest commit, which  *)
(* is in the group unless it failed or a re-run cancelled it.              *)
NewestTakesAll ==
    /\ outcome \in [Commits -> Outcomes]
    /\ \/ AllReleased
       \/ running = main \/ pending = main
       \/ outcome[main] = "failure"
       \/ outcome[main] = "cancelled" /\ rerun

Group == GroupInvariant /\ NewestTakesAll

LEMMA InitNewest == Init => NewestTakesAll
  BY DEF Init, NewestTakesAll, AllReleased, Outcomes

(* Joining replaces what waits; only a re-run is for another commit than   *)
(* the newest.                                                             *)
LEMMA JoinGroupOutcome ==
    ASSUME Group, NEW c \in Commits, JoinGroup(c, outcome)
    PROVE  /\ outcome' \in [Commits -> Outcomes]
           /\ running' = c \/ (pending' = c /\ running' = running)
           /\ \A k \in Commits : k # c =>
                 outcome'[k] = outcome[k] \/ (k = pending /\ outcome'[k] = "cancelled")
           /\ running # 0 => running' = running
<1>1. outcome \in [Commits -> Outcomes]
  BY DEF Group, NewestTakesAll
<1> QED
  BY <1>1 DEF JoinGroup, Outcomes

LEMMA StepNewest == Group /\ [Next]_vars => Group'
<1> SUFFICES ASSUME Group, [Next]_vars PROVE NewestTakesAll'
  BY StepGroup DEF Group
<1>1. /\ outcome \in [Commits -> Outcomes] /\ main \in Nat /\ main <= MaxCommits
      /\ worth \subseteq 1 .. main /\ running \in 0 .. main /\ pending \in 0 .. main
      /\ \A c \in worth : c <= main /\ main \in Commits
  BY BoundsAssumption DEF Group, NewestTakesAll, GroupInvariant, Commits
<1>2. CASE Merge
  <2>1. main' = main + 1 /\ main + 1 \in Commits /\ JoinGroup(main + 1, outcome)
    BY <1>1, <1>2, BoundsAssumption DEF Merge, Commits
  <2> QED
    BY <2>1, JoinGroupOutcome DEF NewestTakesAll
<1>3. ASSUME NEW c \in Commits, ReleaseByHand(c) PROVE NewestTakesAll'
  <2>1. rerun' = TRUE /\ UNCHANGED <<main, worth, tags>> /\ JoinGroup(c, outcome)
    BY <1>3 DEF ReleaseByHand
  <2>2. AllReleased => AllReleased'
    BY <2>1 DEF AllReleased, Released
  <2>3. CASE AllReleased
    BY <2>2, <2>3, <2>1, JoinGroupOutcome DEF NewestTakesAll
  <2>4. CASE ~AllReleased
    <3>1. main \in Commits /\ main # 0
      BY <1>1, <2>4 DEF AllReleased, Commits
    <3>2. CASE running = main
      BY <2>1, <3>1, <3>2, JoinGroupOutcome DEF NewestTakesAll
    <3>3. CASE c = main
      BY <2>1, <3>3, JoinGroupOutcome DEF NewestTakesAll
    <3>4. CASE c # main /\ running # main /\ outcome'[main] = "cancelled"
      BY <2>1, <3>4, JoinGroupOutcome DEF NewestTakesAll
    <3>5. CASE c # main /\ running # main /\ outcome'[main] # "cancelled"
      <4>1. outcome'[main] = outcome[main]
        BY <2>1, <3>1, <3>5, JoinGroupOutcome
      <4>2. CASE pending = main
        <5>1. outcome'[main] = "cancelled"
          BY <2>1, <3>1, <3>5, <4>2 DEF JoinGroup
        <5> QED
          BY <3>5, <5>1
      <4>3. CASE pending # main
        BY <2>1, <2>4, <3>5, <4>1, <4>3, JoinGroupOutcome DEF Group, NewestTakesAll
      <4> QED
        BY <4>2, <4>3
    <3> QED
      BY <3>2, <3>3, <3>4, <3>5
  <2> QED
    BY <2>3, <2>4
<1>4. CASE StartPending
  BY <1>4 DEF StartPending, Group, NewestTakesAll, AllReleased, Released
<1>5. ASSUME NEW how \in {"success", "failure"}, EndRelease(how),
             UNCHANGED <<main, worth, pending, rerun>>, AllReleased => AllReleased',
             running = main => how = "failure" \/ AllReleased', running # 0
      PROVE  NewestTakesAll'
  <2>1. outcome' = [outcome EXCEPT ![running] = how]
    BY <1>5 DEF EndRelease
  <2>2. outcome' \in [Commits -> Outcomes]
    BY <1>1, <2>1 DEF Outcomes
  <2>3. running \in Commits
    BY <1>1, <1>5, BoundsAssumption DEF Commits
  <2>4. CASE running = main
    BY <1>1, <1>5, <2>1, <2>2, <2>3, <2>4 DEF NewestTakesAll
  <2>5. CASE running # main
    <3>1. outcome'[main] = outcome[main]
      BY <1>1, <2>1, <2>5
    <3> QED
      BY <1>5, <2>2, <2>5, <3>1 DEF Group, NewestTakesAll
  <2> QED
    BY <2>4, <2>5
<1>6. CASE Decide
  <2>1. UNCHANGED <<main, worth, pending, tags, rerun>> /\ running # 0
    BY <1>6 DEF Decide
  <2>2. AllReleased => AllReleased'
    BY <2>1 DEF AllReleased, Released
  <2>3. CASE EndRelease("success")
    <3>1. CASE running < main
      BY <1>1, <1>5, <2>1, <2>2, <2>3, <3>1
    <3>2. CASE ~(running < main)
      <4>1. running = main
        BY <1>1, <3>2
      <4>2. AllReleased
        <5>1. running' = 0
          BY <2>3 DEF EndRelease
        <5>2. \A c \in worth : c <= running => Released(c)
          BY <1>6, <2>1, <3>2, <5>1 DEF Decide
        <5> QED
          BY <1>1, <4>1, <5>2 DEF AllReleased
      <4> QED
        BY <1>5, <2>1, <2>2, <2>3, <4>2
    <3> QED
      BY <3>1, <3>2
  <2>4. CASE UNCHANGED <<running, outcome>>
    BY <2>1, <2>2, <2>4 DEF Group, NewestTakesAll
  <2> QED
    BY <1>6, <2>3, <2>4 DEF Decide
<1>7. CASE ReleaseFails
  <2>1. UNCHANGED <<main, worth, pending, tags, rerun>> /\ running # 0 /\ EndRelease("failure")
    BY <1>7 DEF ReleaseFails
  <2>2. AllReleased => AllReleased'
    BY <2>1 DEF AllReleased, Released
  <2> QED
    BY <1>5, <2>1, <2>2
<1>8. CASE CutTag
  <2>1. UNCHANGED <<main, worth, pending, rerun>> /\ running # 0 /\ tags' = Append(tags, running)
    BY <1>8 DEF CutTag
  <2>2. PICK how \in {"success", "failure"} : EndRelease(how)
    BY <1>8 DEF CutTag
  <2>3. tags \in Seq(1 .. main) /\ running \in 1 .. main
    BY <1>1, <2>1 DEF Group, GroupInvariant
  <2>4. /\ DOMAIN tags = 1 .. Len(tags) /\ DOMAIN tags' = 1 .. Len(tags) + 1 /\ Len(tags) \in Nat
        /\ \A v \in 1 .. Len(tags) : tags'[v] = tags[v]
        /\ tags'[Len(tags) + 1] = running
    BY <2>1, <2>3, AppendProperties, LenProperties
  <2>5. AllReleased => AllReleased'
    BY <2>1, <2>4 DEF AllReleased, Released
  <2>6. running = main => AllReleased'
    <3>1. Len(tags) + 1 \in DOMAIN tags'
      BY <2>4
    <3> QED
      BY <1>1, <2>1, <2>4, <3>1 DEF AllReleased, Released
  <2> QED
    BY <1>5, <2>1, <2>2, <2>5, <2>6
<1>9. ASSUME UNCHANGED group PROVE NewestTakesAll'
  BY <1>9 DEF group, Group, NewestTakesAll, AllReleased, Released
<1>10. CASE \/ UNCHANGED vars
            \/ \E from \in Refs : Dispatch(from)
            \/ \E r \in Runs : PublishStep(r) \/ RerunPublish(r)
  <2>1. UNCHANGED group
    BY <1>10 DEF vars, Dispatch, PublishStep, RerunPublish, ResolveVersion, PublishPackage,
                 ResolveDigest, AttachSignature
  <2> QED
    BY <1>9, <2>1
<1> QED
  BY <1>2, <1>3, <1>4, <1>6, <1>7, <1>8, <1>10 DEF Next

(* When the group is idle, whatever warrants a release is in one, unless   *)
(* the run of the newest commit shows a failure or somebody's re-run has   *)
(* cancelled it: the group's cancellations lose nothing.                   *)
THEOREM ReleasedOrFailedAlways == Spec => []ReleasedOrFailed
<1>1. Group => ReleasedOrFailed
  <2> SUFFICES ASSUME Group, running = 0, pending = 0, ~AllReleased
               PROVE  \/ outcome[main] = "failure"
                      \/ outcome[main] = "cancelled" /\ rerun
    BY DEF ReleasedOrFailed, AllReleased
  <2>1. main # 0
    BY DEF Group, GroupInvariant, AllReleased
  <2> QED
    BY <2>1 DEF Group, NewestTakesAll
<1>2. Init => Group
  BY InitGroup, InitNewest DEF Group
<1> QED
  BY <1>1, <1>2, StepNewest, PTL DEF Spec

-----------------------------------------------------------------------------
(* A run has at most one attempt more than there were runs by hand, and    *)
(* what is pushed, signed or about to be is of such an attempt.            *)
Pushed == (1 .. started) \X (1 .. 1 + byHand)

AttemptsCounted ==
    /\ rerun \in BOOLEAN
    /\ \A r \in Runs : attempt[r] \in 1 .. 1 + byHand
    /\ \A v \in Versions : registry[v] \in {NoDigest} \cup Pushed
    /\ registry[0] = NoDigest
    /\ \A r \in Runs : signing[r] \in {NoDigest} \cup Pushed
    /\ signed \subseteq Pushed

Counted == Pipeline /\ NewestTakesAll /\ AttemptsCounted

LEMMA InitCounted == Init => Counted
<1> SUFFICES ASSUME Init
             PROVE  AttemptsCounted
  BY InitGroup, InitPackages, InitNewest DEF Counted, Pipeline
<1>1. Versions \subseteq 0 .. MaxWorth /\ 0 \in 0 .. MaxWorth
  BY BoundsAssumption DEF Versions
<1>2. /\ rerun = FALSE /\ signed = {} /\ registry[0] = NoDigest /\ byHand = 0
      /\ \A v \in Versions : registry[v] = NoDigest
      /\ \A r \in Runs : attempt[r] = 1 /\ signing[r] = NoDigest
  BY <1>1 DEF Init
<1>3. 1 \in 1 .. 1 + byHand
  BY <1>2
<1> QED
  BY <1>2, <1>3 DEF AttemptsCounted

(* What only counts on keeps the count.                                    *)
LEMMA CountGrows ==
    ASSUME Counted, started' \in Nat, byHand' \in Nat, started <= started', byHand <= byHand'
    PROVE  /\ Pushed \subseteq Pushed'
           /\ \A n : n \in 1 .. 1 + byHand => n \in 1 .. 1 + byHand'
<1>1. started \in Nat /\ byHand \in Nat
  BY BoundsAssumption DEF Counted, Pipeline, GroupInvariant
<1>2. ASSUME NEW m \in Nat, NEW n \in Nat, m <= n
      PROVE  \A i : i \in 1 .. m => i \in 1 .. n
  BY <1>2
<1>3. \A i : i \in 1 .. started => i \in 1 .. started'
  BY <1>1, <1>2
<1>4. \A i : i \in 1 .. 1 + byHand => i \in 1 .. 1 + byHand'
  <2>1. \A m, n \in Nat : m <= n => \A i : i \in 1 .. 1 + m => i \in 1 .. 1 + n
    OBVIOUS
  <2> QED
    BY <1>1, <2>1, Zenon
<1> QED
  BY <1>3, <1>4 DEF Pushed

LEMMA StepCounted == Counted /\ [Next]_vars => Counted'
<1> SUFFICES ASSUME Counted, [Next]_vars
             PROVE  AttemptsCounted'
  BY StepPipeline, StepNewest DEF Counted, Pipeline, Group
<1>1. /\ started \in Nat /\ byHand \in Nat /\ AttemptsCounted /\ PackagesType
      /\ 1 \in 1 .. 1 + byHand /\ rerun \in BOOLEAN
      /\ \A r \in Runs : Orderly(r) /\ SignsItsVersion(r)
  BY BoundsAssumption
  DEF Counted, Pipeline, GroupInvariant, PackagesInvariant, AttemptsCounted
<1>2. Versions \subseteq 0 .. MaxWorth /\ 0 \in 0 .. MaxWorth /\ 0 \notin Versions
  BY BoundsAssumption DEF Versions
<1>3. ASSUME UNCHANGED <<attempt, registry, signing, signed>>, rerun' \in BOOLEAN,
             started' \in Nat, byHand' \in Nat, started <= started', byHand <= byHand'
      PROVE  AttemptsCounted'
  <2>1. Pushed \subseteq Pushed' /\ \A n : n \in 1 .. 1 + byHand => n \in 1 .. 1 + byHand'
    BY <1>3, CountGrows
  <2>2. /\ attempt' = attempt /\ registry' = registry /\ signing' = signing
        /\ signed' = signed
    BY <1>3
  <2> HIDE DEF Pushed
  <2> QED
    BY <1>1, <1>3, <2>1, <2>2 DEF AttemptsCounted
<1>4. CASE \/ UNCHANGED vars \/ Merge \/ StartPending \/ Decide \/ ReleaseFails
           \/ \E c \in Commits : ReleaseByHand(c)
  <2>1. /\ UNCHANGED packages
        /\ \/ UNCHANGED <<rerun, byHand>>
           \/ rerun' = TRUE /\ byHand' = byHand + 1
    BY <1>4 DEF vars, group, publishing, Merge, StartPending, Decide, ReleaseFails,
       ReleaseByHand, ByHand
  <2>2. UNCHANGED <<attempt, registry, signing, signed>> /\ started' = started
    BY <2>1 DEF packages
  <2>3. rerun' \in BOOLEAN
    BY <1>1, <2>1
  <2>4. byHand' \in Nat /\ byHand <= byHand' /\ started' \in Nat /\ started <= started'
    BY <1>1, <2>1, <2>2
  <2> QED
    BY <1>3, <2>2, <2>3, <2>4
<1>5. CASE CutTag \/ \E from \in Refs : Dispatch(from)
  <2>1. /\ started' = started + 1 /\ UNCHANGED <<attempt, registry, signing, signed, rerun>>
        /\ byHand' = byHand \/ byHand' = byHand + 1
    BY <1>5 DEF CutTag, Dispatch, Trigger, StartPublish, ByHand, group
  <2>2. /\ started' \in Nat /\ byHand' \in Nat /\ started <= started' /\ byHand <= byHand'
        /\ rerun' \in BOOLEAN
    BY <1>1, <2>1
  <2> QED
    BY <1>3, <2>1, <2>2
<1>6. ASSUME NEW r \in Runs, PublishStep(r)
      PROVE  AttemptsCounted'
  <2>1. /\ UNCHANGED <<started, attempt, byHand, rerun>> /\ Pushed' = Pushed
    BY <1>6 DEF PublishStep, ResolveVersion, PublishPackage, ResolveDigest, AttachSignature,
       group, Pushed
  <2>2. CASE ResolveVersion(r)
    BY <1>1, <2>1, <2>2 DEF ResolveVersion, AttemptsCounted
  <2>3. CASE PublishPackage(r)
    <3>1. r <= started /\ job[r]["resolve"] = "success"
      BY <2>3, JobsFacts DEF PublishPackage, Turn, Needs
    <3>2. ref[r].version \in Versions
      BY <1>1, <3>1 DEF SignsItsVersion
    <3>3. <<r, attempt[r]>> \in Pushed
      <4>1. r \in 1 .. started
        BY <1>1, <3>1, BoundsAssumption DEF Runs
      <4> QED
        BY <1>1, <4>1 DEF AttemptsCounted, Pushed
    <3>4. /\ UNCHANGED <<signing, signed>>
          /\ \/ registry' = [registry EXCEPT ![ref[r].version] = <<r, attempt[r]>>]
             \/ registry' = registry
      BY <2>3 DEF PublishPackage
    <3>5. registry'[0] = registry[0] /\ \A v \in Versions :
              registry'[v] = registry[v] \/ registry'[v] = <<r, attempt[r]>>
      BY <1>1, <1>2, <3>2, <3>4 DEF PackagesType
    <3> QED
      BY <1>1, <2>1, <3>3, <3>4, <3>5 DEF AttemptsCounted
  <2>4. CASE ResolveDigest(r)
    <3>1. UNCHANGED <<registry, signed>>
      BY <2>4 DEF ResolveDigest
    <3>2. /\ job[r]["resolve"] = "success"
      BY <2>4, JobsFacts DEF ResolveDigest, Turn, Needs
    <3>3. registry[ref[r].version] \in {NoDigest} \cup Pushed
      BY <1>1, <3>2 DEF SignsItsVersion, AttemptsCounted
    <3>4. \A q \in Runs : signing'[q] = signing[q] \/ signing'[q] = registry[ref[r].version]
      BY <1>1, <2>4 DEF ResolveDigest, PackagesType
    <3> QED
      BY <1>1, <2>1, <3>1, <3>3, <3>4 DEF AttemptsCounted
  <2>5. CASE AttachSignature(r)
    <3>1. UNCHANGED registry /\ job[r]["sign"] = "running"
      BY <2>5 DEF AttachSignature
    <3>2. signing[r] \in Pushed
      <4>1. signing[r] \in Digests
        BY <1>1, <3>1 DEF SignsItsVersion
      <4>2. NoDigest \notin Digests
        BY <1>1 DEF Digests, NoDigest
      <4> QED
        BY <1>1, <4>1, <4>2 DEF AttemptsCounted
    <3>3. signed' \subseteq signed \cup {signing[r]}
      BY <2>5 DEF AttachSignature
    <3>4. \A q \in Runs : signing'[q] = signing[q] \/ signing'[q] = NoDigest
      BY <1>1, <2>5 DEF AttachSignature, PackagesType
    <3> QED
      BY <1>1, <2>1, <3>1, <3>2, <3>3, <3>4 DEF AttemptsCounted
  <2> QED
    BY <1>6, <2>2, <2>3, <2>4, <2>5 DEF PublishStep
<1>7. ASSUME NEW r \in Runs, RerunPublish(r)
      PROVE  AttemptsCounted'
  <2>1. /\ UNCHANGED <<started, registry, signing, signed, rerun>> /\ byHand' = byHand + 1
        /\ attempt' = [attempt EXCEPT ![r] = @ + 1]
    BY <1>7 DEF RerunPublish, ByHand, group
  <2>2. Pushed \subseteq Pushed' /\ \A n : n \in 1 .. 1 + byHand => n \in 1 .. 1 + byHand'
    BY <1>1, <2>1, CountGrows
  <2>3. \A q \in Runs : attempt'[q] \in 1 .. 1 + byHand'
    BY <1>1, <2>1, <2>2 DEF PackagesType, AttemptsCounted
  <2> QED
    BY <1>1, <2>1, <2>2, <2>3 DEF AttemptsCounted
<1> QED
  BY <1>4, <1>5, <1>6, <1>7 DEF Next

(* Every variable keeps its type, and the bounds on commits, releases and  *)
(* runs by hand bound the tags, the publish runs and their attempts.       *)
THEOREM TypeOKAlways == Spec => []TypeOK
<1>1. ASSUME Counted
      PROVE  TypeOK
  <2>1. /\ GroupInvariant /\ PackagesType /\ AttemptsCounted /\ started \in Nat
        /\ byHand \in Nat /\ byHand <= MaxByHand /\ Len(tags) \in Nat
    <3>1. GroupInvariant /\ PackagesType /\ AttemptsCounted
      BY <1>1 DEF Counted, Pipeline, PackagesInvariant
    <3>2. byHand \in 0 .. MaxByHand /\ started \in Nat
      BY <3>1 DEF GroupInvariant
    <3> QED
      BY <3>1, <3>2, CountingFacts, BoundsAssumption
  <2>2. Len(tags) <= main /\ Len(tags) <= MaxWorth
    <3>1. main \in Nat /\ worth \subseteq 1 .. main /\ Len(tags) <= Cardinality(ReleasedWorth)
      BY <2>1, BoundsAssumption DEF GroupInvariant
    <3>2. Cardinality(worth) <= main
      <4>1. IsFiniteSet(1 .. main) /\ Cardinality(1 .. main) = main
        BY <3>1, FS_Interval
      <4> QED
        BY <3>1, <4>1, FS_Subset
    <3>3. /\ Cardinality(ReleasedWorth) <= Cardinality(worth) /\ Len(tags) <= MaxWorth
          /\ Cardinality(worth) \in Nat /\ Cardinality(ReleasedWorth) \in Nat
      BY <2>1, CountingFacts
    <3> QED
      BY <2>1, <3>1, <3>2, <3>3
  <2>3. started \in 0 .. MaxWorth + MaxByHand
    BY <2>1, CountingFacts, BoundsAssumption
  <2> DEFINE D == (1 .. started) \X (1 .. 1 + MaxByHand)
  <2>4. Pushed \subseteq D /\ 1 .. 1 + byHand \subseteq 1 .. 1 + MaxByHand
    BY <2>1, BoundsAssumption DEF Pushed
  <2>5. attempt \in [Runs -> 1 .. 1 + MaxByHand]
    BY <2>1, <2>4 DEF AttemptsCounted, PackagesType
  <2>6. /\ registry \in [0 .. MaxWorth -> {NoDigest} \cup D] /\ registry[0] = NoDigest
        /\ signing \in [Runs -> {NoDigest} \cup D] /\ signed \subseteq D
    <3>1. \A v \in 0 .. MaxWorth : v = 0 \/ v \in Versions
      BY BoundsAssumption DEF Versions
    <3> HIDE DEF D
    <3> QED
      BY <2>1, <2>4, <3>1 DEF AttemptsCounted, PackagesType
  <2>7. outcome \in [Commits -> {"none", "waiting", "success", "failure", "cancelled"}]
    BY <1>1 DEF Counted, NewestTakesAll, Outcomes
  <2>8. Len(tags) \in 0 .. main
    BY <2>1, <2>2 DEF GroupInvariant
  <2> QED
    BY <2>1, <2>3, <2>5, <2>6, <2>7, <2>8
    DEF TypeOK, GroupInvariant, AttemptsCounted, PackagesType, Statuses
<1> QED
  BY <1>1, InitCounted, StepCounted, PTL DEF Spec

=============================================================================
