------------------------------- MODULE Release -------------------------------
(***************************************************************************)
(* From a merge to a signed package.  Each push to main starts a run of    *)
(* the Release workflow (release.yaml); the runs form a concurrency group  *)
(* that keeps one running and one waiting.  A run may cut a version tag,   *)
(* whose push starts a run of the publish workflow                         *)
(* (publish-provider-package.yml); people start and re-run both by hand.   *)
(* Publish runs are in no group: several may be under way for one tag.     *)
(***************************************************************************)
EXTENDS Naturals, Sequences, FiniteSets

CONSTANTS
    MaxCommits,  \* bound: pushes to main
    MaxWorth,    \* bound: those of them that warrant a release
    MaxByHand    \* bound: runs of either workflow started or re-run by hand

ASSUME BoundsAssumption == MaxCommits \in Nat /\ MaxWorth \in Nat /\ MaxByHand \in Nat

Commits == 1 .. MaxCommits
Versions == 1 .. MaxWorth
Runs == 1 .. MaxWorth + MaxByHand

VARIABLES
    main,      \* commits on the branch
    worth,     \* those that warrant a release
    running,   \* commit of the Release run under way, or 0
    decided,   \* that run is about to cut a tag
    pending,   \* commit of the one that waits, or 0
    outcome,   \* commit -> how its last Release run stands
    tags,      \* version -> commit, in the order of the versions
    rerun,     \* history: a Release run was started or re-run by hand
    started,   \* publish runs so far
    ref,       \* publish run -> what it was started from
    job,       \* publish run -> job -> how it stands
    attempt,   \* publish run -> number of the attempt
    registry,  \* version -> digest under that tag, or NoDigest
    signing,   \* publish run -> digest its signing job is about to sign
    signed,    \* digests with a signature
    byHand

group == <<main, worth, running, decided, pending, outcome, tags, rerun>>
packages == <<started, ref, job, attempt, registry, signing, signed>>
publishing == <<packages, byHand>>
vars == <<group, publishing>>

(* A ref's version is 0 when its name is not a semantic version.           *)
Branch == [type |-> "branch", version |-> 0]
Malformed == [type |-> "tag", version |-> 0]
Tag(v)    == [type |-> "tag", version |-> v]
Refs == {Branch, Malformed} \cup {Tag(v) : v \in Versions}

(* Each push of a package is a digest of its own: <<run, attempt>>.        *)
NoDigest == <<0, 0>>

Jobs == {"resolve", "publish", "sign"}

(* Mutated form: the package is signed as soon as the version is known.    *)
NeedsVersionOnly(j) == IF j = "resolve" THEN {} ELSE {"resolve"}

Needs(j) ==
    IF j = "resolve" THEN {} ELSE IF j = "publish" THEN {"resolve"} ELSE {"resolve", "publish"}

TypeOK ==
    /\ main \in 0 .. MaxCommits /\ worth \subseteq 1 .. main
    /\ running \in 0 .. main /\ pending \in 0 .. main /\ decided \in BOOLEAN
    /\ outcome \in [Commits -> {"none", "waiting", "success", "failure", "cancelled"}]
    /\ tags \in Seq(1 .. main) /\ Len(tags) \in 0 .. main
    /\ rerun \in BOOLEAN /\ byHand \in 0 .. MaxByHand
    /\ started \in 0 .. MaxWorth + MaxByHand
    /\ ref \in [Runs -> Refs]
    /\ job \in [Runs -> [Jobs -> {"waiting", "running", "success", "failure", "skipped"}]]
    /\ attempt \in [Runs -> 1 .. 1 + MaxByHand]
    /\ registry \in [0 .. MaxWorth -> {NoDigest} \cup (1 .. started) \X (1 .. 1 + MaxByHand)]
    /\ registry[0] = NoDigest
    /\ signing \in [Runs -> {NoDigest} \cup (1 .. started) \X (1 .. 1 + MaxByHand)]
    /\ signed \subseteq (1 .. started) \X (1 .. 1 + MaxByHand)

Waiting == [j \in Jobs |-> "waiting"]

Init ==
    /\ main = 0 /\ worth = {} /\ running = 0 /\ decided = FALSE /\ pending = 0
    /\ outcome = [c \in Commits |-> "none"]
    /\ tags = <<>>
    /\ rerun = FALSE
    /\ started = 0 /\ byHand = 0
    /\ ref = [r \in Runs |-> Branch]
    /\ job = [r \in Runs |-> Waiting]
    /\ attempt = [r \in Runs |-> 1]
    /\ registry = [v \in 0 .. MaxWorth |-> NoDigest]
    /\ signing = [r \in Runs |-> NoDigest]
    /\ signed = {}

-----------------------------------------------------------------------------
(* The Release workflow.                                                   *)

(* Mutated form: what waits already is kept, and the newcomer goes.        *)
JoinKeepingOlder(c, before) ==
    IF running = 0 \/ pending = 0
    THEN IF running = 0 /\ pending = 0
         THEN running' = c /\ outcome' = [before EXCEPT ![c] = "waiting"] /\ UNCHANGED pending
         ELSE pending' = c /\ outcome' = [before EXCEPT ![c] = "waiting"] /\ UNCHANGED running
    ELSE outcome' = [before EXCEPT ![c] = "cancelled"] /\ UNCHANGED <<running, pending>>

(* A run for commit c joins the group: the run that is under way goes on,  *)
(* the one that waited is cancelled for it.                                *)
JoinGroup(c, before) ==
    IF running = 0 /\ pending = 0
    THEN running' = c /\ outcome' = [before EXCEPT ![c] = "waiting"] /\ UNCHANGED pending
    ELSE /\ pending' = c
         /\ outcome' = [k \in Commits |-> IF k = c THEN "waiting"
                                          ELSE IF k = pending THEN "cancelled"
                                          ELSE before[k]]
         /\ UNCHANGED running

Merge ==
    /\ main < MaxCommits
    /\ main' = main + 1
    /\ \/ UNCHANGED worth
       \/ Cardinality(worth) < MaxWorth /\ worth' = worth \cup {main + 1}
    /\ JoinGroup(main + 1, outcome)
    /\ UNCHANGED <<decided, tags, rerun, publishing>>

ByHand == byHand < MaxByHand /\ byHand' = byHand + 1

(* A dispatch on the branch, or a re-run of any run that has ended.        *)
ReleaseByHand(c) ==
    /\ c <= main /\ ByHand
    /\ c = main \/ outcome[c] \in {"success", "failure", "cancelled"}
    /\ rerun' = TRUE
    /\ JoinGroup(c, outcome)
    /\ UNCHANGED <<main, worth, decided, tags, packages>>

StartPending ==
    /\ running = 0 /\ pending # 0
    /\ running' = pending /\ pending' = 0
    /\ UNCHANGED <<main, worth, decided, outcome, tags, rerun, publishing>>

(* Commit c is in a release.                                               *)
Released(c) == \E v \in DOMAIN tags : c <= tags[v]

EndRelease(how) ==
    /\ outcome' = [outcome EXCEPT ![running] = how]
    /\ running' = 0 /\ decided' = FALSE

(* A run whose commit is no longer the newest leaves the release to the    *)
(* newer run; so does one that finds nothing to release.                   *)
Decide ==
    /\ running # 0 /\ ~decided
    /\ IF running < main \/ \A c \in worth : c <= running => Released(c)
       THEN EndRelease("success")
       ELSE decided' = TRUE /\ UNCHANGED <<running, outcome>>
    /\ UNCHANGED <<main, worth, pending, tags, rerun, publishing>>

ReleaseFails ==
    /\ running # 0
    /\ EndRelease("failure")
    /\ UNCHANGED <<main, worth, pending, tags, rerun, publishing>>

(* A publish run from a ref.                                               *)
StartPublish(from) ==
    /\ started' = started + 1
    /\ ref' = [ref EXCEPT ![started + 1] = from]
    /\ UNCHANGED <<job, attempt, registry, signing, signed>>

(* Mutated form: the workflow's own token pushes the tag.                  *)
TriggerNothing(v) == UNCHANGED packages

(* An app's token pushes the tag, so that the push starts a workflow.      *)
Trigger(v) == StartPublish(Tag(v))

(* The run may still fail after the tag has been pushed.                   *)
CutTag ==
    /\ running # 0 /\ decided
    /\ tags' = Append(tags, running)
    /\ Trigger(Len(tags) + 1)
    /\ \E how \in {"success", "failure"} : EndRelease(how)
    /\ UNCHANGED <<main, worth, pending, rerun, byHand>>

-----------------------------------------------------------------------------
(* The publish workflow.                                                   *)

(* Started by hand from a branch or a tag, or by a tag pushed by hand that *)
(* is not a version.                                                       *)
Dispatch(from) ==
    /\ ByHand
    /\ from.version \in 0 .. Len(tags)
    /\ StartPublish(from)
    /\ UNCHANGED group

(* A "failure" is every end of a job but success, at whatever point of its *)
(* steps: a command that failed, a timeout, or a run cancelled by hand.    *)
(* What needs the job, and whoever looks at the run, cannot tell more.     *)
Over(status) == status \in {"success", "failure", "skipped"}

(* A job's turn comes when all it needs has succeeded.                     *)
Turn(r, j) ==
    /\ r <= started /\ job[r][j] = "waiting"
    /\ \A n \in Needs(j) : job[r][n] = "success"

(* A job ends; with anything but success, those that need it are skipped.  *)
Ends(r, j, how) ==
    job' = [job EXCEPT ![r] =
               [k \in Jobs |-> IF k = j THEN how
                              ELSE IF j \in Needs(k) /\ how # "success" THEN "skipped"
                              ELSE @[k]]]

(* Mutated forms: a branch is skipped rather than rejected; the name of a  *)
(* tag is taken as it is.                                                  *)
SkippedUnlessTag(from) ==
    IF from.type # "tag" THEN {"skipped"}
    ELSE IF from.version = 0 THEN {"failure"} ELSE {"success", "failure"}
AcceptedIfTag(from) == IF from.type # "tag" THEN {"failure"} ELSE {"success", "failure"}

(* A ref that is not a tag fails the job, and so does a tag that is not a  *)
(* version; any job may fail of something else.                            *)
ResolveEnds(from) ==
    IF from.type # "tag" THEN {"failure"}
    ELSE IF from.version = 0 THEN {"failure"} ELSE {"success", "failure"}

ResolveVersion(r) ==
    /\ Turn(r, "resolve")
    /\ \E how \in ResolveEnds(ref[r]) : Ends(r, "resolve", how)
    /\ UNCHANGED <<group, started, ref, attempt, registry, signing, signed, byHand>>

(* The tag of the registry moves to the new digest; the job may fail or be *)
(* cancelled before that or after.                                         *)
PublishPackage(r) ==
    /\ Turn(r, "publish")
    /\ \/ /\ registry' = [registry EXCEPT ![ref[r].version] = <<r, attempt[r]>>]
          /\ \E how \in {"success", "failure"} : Ends(r, "publish", how)
       \/ UNCHANGED registry /\ Ends(r, "publish", "failure")
    /\ UNCHANGED <<group, started, ref, attempt, signing, signed, byHand>>

(* cosign resolves the tag to the digest it has now...                     *)
ResolveDigest(r) ==
    /\ Turn(r, "sign")
    /\ IF registry[ref[r].version] = NoDigest
       THEN Ends(r, "sign", "failure") /\ UNCHANGED signing
       ELSE /\ job' = [job EXCEPT ![r]["sign"] = "running"]
            /\ signing' = [signing EXCEPT ![r] = registry[ref[r].version]]
    /\ UNCHANGED <<group, started, ref, attempt, registry, signed, byHand>>

(* ...and signs that; the job may end otherwise before that or after.      *)
AttachSignature(r) ==
    /\ job[r]["sign"] = "running"
    /\ \/ /\ signed' = signed \cup {signing[r]}
          /\ \E how \in {"success", "failure"} : Ends(r, "sign", how)
       \/ UNCHANGED signed /\ Ends(r, "sign", "failure")
    /\ signing' = [signing EXCEPT ![r] = NoDigest]
    /\ UNCHANGED <<group, started, ref, attempt, registry, byHand>>

(* All the jobs of a run that has ended run again, or those that did not   *)
(* succeed.                                                                *)
RerunPublish(r) ==
    /\ r <= started /\ ByHand
    /\ \A j \in Jobs : Over(job[r][j])
    /\ attempt' = [attempt EXCEPT ![r] = @ + 1]
    /\ \E again \in {Jobs, {j \in Jobs : job[r][j] # "success"}} :
          /\ again # {}
          /\ job' = [job EXCEPT ![r] = [j \in Jobs |-> IF j \in again THEN "waiting" ELSE @[j]]]
    /\ UNCHANGED <<group, started, ref, registry, signing, signed>>

PublishStep(r) ==
    \/ ResolveVersion(r) \/ PublishPackage(r) \/ ResolveDigest(r) \/ AttachSignature(r)

Next ==
    \/ Merge \/ StartPending \/ Decide \/ ReleaseFails \/ CutTag
    \/ \E c \in Commits : ReleaseByHand(c)
    \/ \E from \in Refs : Dispatch(from)
    \/ \E r \in Runs : PublishStep(r) \/ RerunPublish(r)

(* Jobs whose turn it is get a runner.                                     *)
Fairness == \A r \in Runs : WF_vars(PublishStep(r))

Spec == Init /\ [][Next]_vars

FairSpec == Spec /\ Fairness

-----------------------------------------------------------------------------
Conclusion(r) ==
    IF \E j \in Jobs : ~Over(job[r][j]) THEN "running"
    ELSE IF \E j \in Jobs : job[r][j] = "failure" THEN "failure" ELSE "success"

(* When the group is idle, whatever warrants a release is in one, or the   *)
(* run of the newest commit shows a failure; the cancellations of the      *)
(* group lose nothing unless somebody re-ran an older run meanwhile.       *)
ReleasedOrFailed ==
    running = 0 /\ pending = 0 =>
        \/ \A c \in worth : Released(c)
        \/ outcome[main] = "failure"
        \/ outcome[main] = "cancelled" /\ rerun

(* A tag of the registry points to a digest without a signature only while *)
(* the run that pushed the digest is under way or shows that it failed or  *)
(* was cancelled, however many runs push and sign under that tag at once.  *)
UnsignedShows ==
    \A v \in Versions :
        registry[v] # NoDigest /\ registry[v] \notin signed =>
            Conclusion(registry[v][1]) \in {"running", "failure"}

(* A run that shows success has been started from a version tag, and a     *)
(* package of that version is signed: no run succeeds of publishing        *)
(* nothing.                                                                *)
SuccessIsSigned ==
    \A r \in 1 .. started :
        Conclusion(r) = "success" =>
            ref[r].version # 0 /\ \E d \in signed : ref[d[1]] = ref[r]

(* For each version tag there comes a signed package, or a run for it that *)
(* shows a failure.                                                        *)
EveryTagConcludes ==
    \A v \in Versions :
        v <= Len(tags) ~>
            \/ registry[v] \in signed
            \/ \E r \in Runs : ref[r] = Tag(v) /\ Conclusion(r) = "failure"

=============================================================================
