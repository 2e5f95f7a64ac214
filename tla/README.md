# Verification of provider-upjet-unifi

TLA+ models, TLC runs and TLAPS proofs for the logic of this repository: a
Crossplane provider for UniFi generated with Upjet. `PROJECT.json` maps every
definition to the lines it models and lists the hazards the properties are for.

## 1. Inventory

The repository is about 97 000 lines of generated Go (API types, deep copies,
56 controllers that differ in their kind, reference resolvers), about 2 400
lines of hand-written Go including tests, and the scripts and workflows that
gate and publish it. What behaves is in the following parts.

| Part | Source | State it keeps | Operations |
|---|---|---|---|
| Provider-config resolution | `internal/clients/unifi.go` | none between calls; writes one ProviderConfigUsage per managed resource | `TerraformSetupBuilder` = resolve reference, Get, Track, extract credentials, unmarshal, forward known keys |
| Provider-config controllers | `internal/controller/{cluster,namespaced}/providerconfig/config.go` | finalizer and user count on each ProviderConfig | `Setup`, `SetupGated`, the reconcile of Crossplane's runtime |
| Start-up (SafeStart) | `cmd/provider/main.go`, `internal/controller/*/zz_setup.go`, `zz_controller.go` | set of controllers in the manager, gate | `canWatchCRD`, `Setup`, `SetupGated`, the released functions |
| Managed-resource controllers | `internal/controller/*/*/*/zz_controller.go` | spec, external name and external object of each resource | `Setup`, `SetupGated`; the reconcile is the runtime's and Upjet's |
| Reference resolution | `apis/*/*/v1alpha1/zz_generated.resolvers.go`, `zz_*_terraformed.go`, `config/unifi/config.go` | resolved ids in the spec | `ResolveReferences`, `GetMergedParameters` |
| Configuration tables | `config/provider.go`, `config/external_name.go`, `config/unifi/config.go` | the tables that generator and controllers share | `GetProvider`, `GetProviderNamespaced`, `Configure`, `ExternalNameConfigured` |
| Generator | `apis/generate.go`, `cmd/generator/main.go` | generated types, CRDs, list | the commands of `make generate` in order |
| Write-only descriptions | `config/write_only.go` | attribute descriptions of a schema | `describeWriteOnly`, `withoutSentencesNaming` |
| CRD, schema and example gates | `scripts/crddiff.sh`, `scripts/version_diff.sh`, `hack/validate-examples.sh` | verdict | one pass over the inputs each |
| Continuous integration | `.github/workflows/ci.yml` | results of the jobs, required check | detect-noop, the jobs, `require-checks-in-pr`, runs and re-runs |
| End-to-end workflow | `.github/workflows/e2e.yaml` | running jobs of a pull request | select, uptest |
| Release workflows | `.github/workflows/release.yaml`, `publish-provider-package.yml`, `scripts/release-version.sh` | version tags, registry tags, signatures | release; resolve, publish, sign |
| Housekeeping, build, packaging | `stale-issues.yaml`, `Makefile`, `cluster/test/setup.sh`, `hack/prepare.sh` | none | commands in a row |

How they interact. The managed-resource reconcilers call the setup function of
`internal/clients` at every connect; it reads the ProviderConfig the reference
denotes, writes the usage and reads the Secret. The provider-config controllers
watch those usages and hold the finalizer until none is left. Start-up decides
whether each controller exists at all, and when. Reference resolution makes one
managed resource wait for the id of another. The tables determine, by way of
the generator, which kinds, references and descriptions the generated parts
have. CI runs the gates; release and publish decide what reaches users.

What is hard. Between any two API calls of a connect anybody may edit or delete
what was read; the reads lag behind in an informer cache; the two
provider-config kinds of the namespaced group share one usage kind; the two
scopes share one manager and one gate; an error behind the gate is only logged;
an id that was resolved may belong to an object that has gone; `make generate`
may stop between any two of its commands; jobs of overlapping workflow runs end
in any order, cancel one another and are re-run; a skipped job reads as success.

What makes each part correct:

- resolution of provider configs: credentials only of a ProviderConfig that
  counts the resource; Secrets of the resource's own namespace; failures leave
  nothing behind that blocks anybody for ever;
- provider-config controllers: a ProviderConfig does not go while a visible use
  of it is left, and does go after;
- start-up: with SafeStart an incomplete installation never ends the process;
  without it nothing runs by halves; no controller is lost unnoticed; every
  controller runs in the end;
- references: an external object points at objects of the right kind and lacks
  nothing that is wired; values somebody set stay; resources come up and go in
  any order; what is to follow a referent does;
- tables and generator: what was generated is what the tables say, nothing is
  overwritten, and nothing is published that the list lacks;
- gates and CI: a verdict of success means every input was compared and none
  broke, a green required check that every job succeeded on that tree;
- release: what warrants a release gets one or a failure shows; what is
  published is signed or a failure shows.

## 2. Plan

Done: provider configs with the abstract `UsageProtection`; start-up; the
gates and CI; the end-to-end workflow; references; the tables and the
generator; the release workflows; proofs of every invariant the passing runs
check, of the action properties and of the refinement.

Left, in the order of what it would add: lemmas about a step towards the liveness
properties (that what they wait for is enabled cannot be proved, that nothing
takes it back can); nested blocks in `Generation`.

## 3. The modules and the code

| Module | Models | Proofs in |
|---|---|---|
| `ProviderConfigTypes`, `ProviderConfigState`, `Clients`, `ProviderConfigController`, composed by `ProviderConfigSystem` | provider configs | `ProviderConfigProofs` |
| `UsageProtection` | abstract: what the provider-config subsystem promises | `ProviderConfigProofs` |
| `SafeStart` | start-up | `SafeStartProofs` |
| `ReferenceTable` | the maintained table of references, and every generated resolver | `ReferenceTableProofs` |
| `References` | reconciles of resources that refer to one another | `ReferencesProofs` |
| `Generation` | `make generate` over the tables; takes in `ReferenceTable`, instantiates `WriteOnly` | `GenerationProofs` |
| `WriteOnly` | `describeWriteOnly` over one block | `GenerationProofs` |
| `CRDDiff` | `scripts/crddiff.sh` | `ChecksProofs` |
| `ExampleGate` | `hack/validate-examples.sh` | `ChecksProofs` |
| `Checks` | `ci.yml`; extends `CRDDiff`, instantiates `ExampleGate` | `ChecksProofs` |
| `EndToEnd` | `e2e.yaml` | `EndToEndProofs` |
| `Release` | `release.yaml` and `publish-provider-package.yml` | `ReleaseProofs` |
| `MC*` | values for model checking | – |

Definitions named as mutated forms, and the operators they stand beside, exist
to show that a plausible mistake in the code would be seen; see `PROJECT.json`.

### Provider configs

`pc` = ProviderConfig of the three kinds, `usage` = ProviderConfigUsage per
resource, `cache` = the informer's view of it, `conn` = the local variables of
one connect call, `rec` = those of one reconcile. `StartConnect`, `GetConfig`,
`Track` and `ExtractCredentials` are one API call each and read what is there at
their own time; `ConnectFails`: a call fails and what was done stays; `Operate`:
the managed reconciler uses the setup; `ListUsages`, `SettleConfig`: the
reconcile of crossplane-runtime with the kinds the two files give it.
`rec[c].missed` is a history variable: the resources whose usage a reconcile
could not have seen when it listed them. `rec[c].current` is the API server's
optimistic concurrency: a write based on an object that has changed since fails.

`UsageProtection` knows users, ProviderConfigs that are unprotected, protected
or closing, and which users the protectors see. It says nothing of calls,
references, counts or memory. The mapping of `ProviderConfigSystem`: `States`
reads life and finalizer off `pc`; `using` is `usage`; `visible` is `cache`;
`vacant` are the ProviderConfigs whose reconcile has listed no user and whose
write no other write has overtaken. Memory, references and Secrets are stutters.

### Start-up

`SafeStart` is `main` from the precheck on, the aggregators `zz_setup.go` of both
scopes and the set-up functions behind them. A kind stands for a CRD, a setup
function for an entry of an aggregator, a controller for what the function adds
to the manager. Each call of a setup function adds one controller, so that an
error between the two controllers of the namespaced provider configs is there.
With SafeStart the gate's own CRD reconciler is added first (`GateSetupFails`) and
syncs once the manager runs (`GateSyncs`, `synced`); if the provider may not list
and watch CRDs then, the sync fails and the process ends, as with any cache. The
gate (`gate`) lags behind the API server (`crds`), and a released function runs at
some later time, in any order.

### References

`ReferenceTable` has, per kind, the fields of its generated `ResolveReferences`
in the order it goes through them, and separately the `references` table of
`config/unifi/config.go`. `References` reconciles: `Begin` reads the resource
into memory (`work`); `KeepValue`, `Resolve` and `ResolveFails` are one call of
the resolver each, first for spec.forProvider, then for spec.initProvider;
`Persist` writes what changed; `AddFinalizer`, `Create`, `Update` and `Delete`
are the rest of the managed reconciler, with `GetMergedParameters` deciding what
the external object gets. A referent is identified by its name and the number of
external objects the name has had (`gen`), so that a replaced referent has
another id. `emptied` is a history variable: the fields a user cleared.

Abstractions: of a block that may repeat there is one element; create is one step
with the recording of the external name; late initialisation and the resolution
policy Optional are left out. What a call reads is used some steps later, as a
value of a lagging cache is. A value with the policy IfNotPresent goes on naming
a referent that was replaced, and a list that has values does not follow
references that are added: both are how the runtime's resolver decides (`Kept`)
and the properties only speak of the policy Always there.

### Tables, generator and write-only descriptions

`Generation` runs the commands of `apis/generate.go` one after another; `Fail`
stops after any of them and `EditTables` changes the tables between runs. `types`
holds one file per scope, group and kind; `Emit` overwrites. Resources are taken
in any order (`Include`), which is the order of Go's map iteration; the include
list is only ever used as a set. The list of generated resources is sorted JSON
in the code and a set here. How Upjet derives a kind from a name is external
(`DefaultKind`). The documentation scraper and angryjet write nothing the
properties look at. Not in the model: the files `zz_generated.managed*.go`, which
`apis/generate.go:11` keeps; those of a group whose last resource went would stay
behind without their types (no group has lost its last resource).

`WriteOnly` visits the attributes of one block in any order and describes them in
place; `Generation` runs it at the resource that has such a block.

### Gates and CI

`CRDDiff` and `ExampleGate` follow their scripts command by command under
`set -e`; what exists, what is valid and which commands fail is any combination.
`Checks` runs them as jobs of `ci.yml` beside the others, whose commands are a
result each. `verified` and `gatePassed` are history variables: what the runs were
for in which every job succeeded, and whether `crddiff.sh` has passed for a pull
request. A dispatch is to `ci.yml` what a push is. A run may be cancelled at any
moment, inside a script too (`CancelRun`); a job that times out counts as failed.
GitHub's part: a job runs when all it needs succeeded, a skipped job
reads as success, and `skip-duplicate-actions` makes a run for a pull request a
no-op when an earlier run of that tree succeeded or the change is ignorable. A
script runs as a block: it reads its inputs, the label included, when its step
starts and writes nothing others read before it ends, so no order of steps is
lost. On a re-run its inputs are chosen anew, which allows more than GitHub does.

### End-to-end and release

`EndToEnd` has a workflow run per review and lets jobs wait for runners as long as
they please. `Release` has the concurrency group of `release.yaml`, which keeps
one run under way and one waiting and cancels what waited before, the tag a run
may cut, and the publish runs such a tag or a person starts, in no group and so
any number at once for one tag. A run that is no longer at the head of main
leaves the release to the newer one: that is semantic-release's and external.
Every push of a package is a digest of its own, the tag moves, and cosign resolves
the tag (`ResolveDigest`) before it signs (`AttachSignature`). Version tags pushed
by hand are left out. The failure of a publish job stands for every end but success,
before or after the tag has moved or the signature is there: a run cancelled by
hand and a timeout are such ends.

### What is external

The map marks the definitions that stand for code outside the repository:
crossplane-runtime (usage tracker, provider-config and managed reconcilers, gate,
reference resolver), controller-runtime (informer cache, unique names, a cache
that does not sync ends the manager), the API server (optimistic concurrency,
finalizers, garbage collection, what an open watch delivers), upjet (default kinds), GitHub (concurrency
groups, triggers, re-runs, cancellation, labels, permissions), and the action
`aggregate-job-checks`, which is taken to fail on a job that failed or was cancelled.

## 4. The runs

| Run | Bounds | Checks |
|---|---|---|
| `config_lifecycle` | two legacy resources, one ProviderConfig, 2 user actions, 1 failure | `ListCoversUse`, `ManagedIsCounted`, `NoRemovalUnderUse`: two resources track while the reconciler is between list and write; `KeepsPromise`: the refinement |
| `config_isolation` | one namespaced resource, a namespaced and a shared ProviderConfig of one name, Secrets in two namespaces, 2 user actions, 1 failure | `SecretConfined`, `UsedIsTracked`: the reference moves between the two kinds and the secretRef points anywhere |
| `config_progress` | the same two ProviderConfigs, one namespace, 2 user actions, fair | `DeletionOfMRCompletes`, `DeletionOfConfigCompletes`, `UsageConverges` |
| `safe_start` | one managed-resource kind per scope, five controllers, seven kinds, 1 change, 1 failure | `AddedOnlyWhenServed`, `AllOrNothing`, `NoSilentLoss`, `GateCanWatch` and, fair, `EveryControllerComesUp` |
| `references` | every referring field of every kind on its own, by reference with the policy Always and by selector without; a device, its port profile and their network; a policy with a zone and networks; lists, selectors and both parts of a spec with two referents; 2 external objects per name, 2 edits, deletions or interruptions | `CreatedResolved`, `OnlyEmptyIsFilled`, `TypeOK` and, fair, `ComesUp`, `AlwaysFollows`, `DeletionCompletes` |
| `generation` | four resources, one of them taken out of the tables and put back; blocks over five names; failure at any command, any number of times | `TreeIsAPI`, `CRDsAreListed`, `OrderIndependent`, `RestIsKept`, `AdviceIsGone` |
| `checks` | two CRDs, two files, two of the four build jobs, three runs or re-runs, 1 failure of a script's command per run of the script | `GreenIsVerified`, `ExamplesPassMeansWork`, `PassIsChecked`, `AcceptedIsPrinted`, `VerdictIsDeserved`, `CIType` |
| `release` | three commits of which one warrants a release, two runs started or re-run by hand | `ReleasedOrFailed`, `UnsignedShows`, `SuccessIsSigned`, `TypeOK` and, fair, `EveryTagConcludes` |
| `e2e` | three reviews by two people, one push, one change of permission, fair | `TestedIsReviewed`, `OneTestAtATime`, `OnlyRequestsCancel`, `SomeTestEnds` |
| `crddiff_lookup` | two CRDs, failing lookups | finding 1 |
| `examples_enumeration` | two files, failing enumeration | finding 2 |
| `e2e_order` | two reviews | finding 3 |

`PassIsChecked` in `checks` holds without failing lookups, and fails with them in
`crddiff_lookup`.

Why the bounds are enough. The protocol of a ProviderConfig relates one resource
and one ProviderConfig at a time; a second resource gives the list something to
miss, a second ProviderConfig somewhere to move to, and two user actions reach
every order of a delete, an edit and a create around one connect. One failure
or restart reaches every state a failure leaves behind, since a restart forgets
everything in memory. The setup functions of two managed resources differ in
their kind only, so one of each scope shows every interaction of the shared
manager and gate. A resolver treats its fields one after another and alike, so
each field alone shows its kinds, and two or three together show an early return,
a chain and two sources of one field; two external objects per name are a
replacement. Three runs of CI are a failure, its re-run and another run of the
tree, a cancelled one among them. Two CRDs give the script's loop a first and a last element. Three commits
give the group one run under way, one waiting and one that displaces it; two
publish runs are enough to overwrite one another's tag, the third is a re-run.
The safety properties are proved for all bounds besides.

`config_progress` has no failures or restarts: after either, what is left of
memory is the idle state that a connect call with unreadable credentials and a
reconcile with a conflict also leave, and these are in the run.

Every run switches deadlock checking off, since users, CRDs, runs and scripts may
have come to the end of what they do.

### Fairness

`ProviderConfigSystem` assumes weak fairness of each connect call (the managed
reconciler polls, `--poll`, and retries with backoff), each reconcile of a
ProviderConfig (resync, `--sync`, and retries after conflicts), of watch events
and of garbage collection. `References` assumes weak fairness of each resource's
reconcile, for the same reason. Users, failures and interruptions are not fair.
`SafeStart` assumes that the process, its goroutines and the manager run on, that
the gate's controller gets its events as long as the provider may list and watch
CRDs (`WF_vars(CanWatch /\ SetGate(k))`; without access events may still come from a
watch that is open, and nothing says they do), that kubelet restarts and that the
package manager installs the CRDs. `EndToEnd` and `Release` only assume that GitHub gives
a runner to the jobs whose turn it is. `Checks` and `Generation` assume nothing.

## 5. What is proved

The theorems hold for every value of the constants that their modules' named
assumptions allow; `FailsClosed`, `AcceptedIsPrintedAlways` and `FailsClosedInCI`
state one further hypothesis. Each argument is an inductive invariant.

The assumptions, which TLC evaluates in the runs, are of three kinds. Bounds are
natural numbers (`BoundsAssumption`, `FaultsAssumption`). Names that stand for
different things differ: the foreign id and the missing one are not ids of external
objects of the cluster (`NamesAssumption`), no build job of `ci.yml` is called like
one of the jobs modelled by name (`JobsAssumption`), no managed resource kind like a
provider-config kind (`KindsAssumption`). Inputs have the form the code gives them:
tables are subsets of the tables of the repository, which edits take from and put
back (`ConfigsAssumption` of `Generation`), names have at least one word and
descriptions are sentences of clauses (`BlockAssumption`), setups are wired along
the table of references (`SetupsAssumption`). Resources and ProviderConfigs have the
kinds and scopes of the API (`ScopeAssumption`, `ConfigsAssumption`).

`ProviderConfigProofs`: `Safe`. `TypeOK` alone is not inductive: `Track` writes what
a connect call resolved, and it is a ProviderConfig only because `GetConfig` found
it, which is `ResolvedExists`. `UsedIsTracked` follows at `Track` and survives since
only the same connect call or the garbage collector, once the resource is gone,
changes the usage. From it follows `ManagedIsCounted` when `Operate` makes a
resource managed. `ListCoversUse` needs the history `missed`; with it the action
property `NoRemovalUnderUse` follows: a finalized ProviderConfig only disappears in
`SettleConfig`, with an empty list. Theorems: `TypeCorrect`, `SafeAlways`,
`UsedIsTrackedAlways`, `SecretConfinedAlways`, `ManagedIsCountedAlways`,
`ListCoversUseAlways`, `NoRemovalUnderUseAlways`.

The same module has `KeepsPromiseAlways`, the refinement. Initial states map to
initial states; every write to a ProviderConfig voids what was found about it, which
is `Becomes` of the promise (`WriteBecomes`); connects, users and restarts map to
one step each or to a stutter. A finalized ProviderConfig goes only in
`SettleConfig`, whose `current` and empty list are just `vacant`.

`SafeStartProofs`: `StartUp` adds to the checked properties what a process knows in
each phase: before the precheck has ended nothing is set up (`AsksFirst`); without
SafeStart nothing waits (`UngatedDirect`); a function that is done has added all it
adds (`DoneAdded`); the gate only shows what is served, and releases only what is
complete (`GateServed`, `ReleasedServed`). That a failed call costs one setup at most is a count of its own
(`StepNoSilentLoss`): only `ReleasedFails` adds to `Lost`, and then to `faults`.
Theorems: `StartUpAlways`, `TypeCorrect`,
`AddedOnlyWhenServedAlways`, `AllOrNothingAlways`, `NoSilentLossAlways`,
`GateCanWatchAlways`.

`ReferenceTableProofs`: `TableAgrees`, that each generated resolver has the fields
of the maintained table, all and no other, each with the kind named there. On it
rests, in `ReferencesProofs`, the lemma that every wired field has its call and
every call asks for the right kind. `ResolvedFirst` then says of a resource what
each phase of its reconcile knows: while it resolves, what it has come to is not
empty and of the right kind, and what it read as set and is empty by now a user has
emptied; once resolved, that goes for all of it; from its creation on, for the
external object. The second half is needed since `Persist` writes only what changed,
over whatever the spec has become. `Filled` says that what a reconcile has changed
in memory it found empty, or that the field's policy is Always. `Typed` strengthens
the type invariant: a resource without an external object has had room for one since
it was created, and one with an id has an object to update. Theorems:
`CreatedResolvedAlways`, `TypeOKAlways` and, on the first two invariants, the action
property `OnlyEmptyIsFilledAlways`, for any resources, wiring and number of
replacements.

`GenerationProofs`, on the tables: `FilesAreOwn`, that no two resources share a
generated file in any scope, by what `KindOf` makes of every name of a group
(`KindsDiffer`). On the tree: `TreeInv` says that a run under way has removed the
CRDs, that the types are what it has emitted so far, and that before the CRDs are
written this is all of the API. `FilesAreOwn` is what keeps an emitted type from
overwriting another, and `TableAgrees` what makes the API of the tables the API of
the resolvers. On descriptions: `BlockInv` says what each description is, given
which attributes have been visited. A description depends on at most one visit, so
no order shows: no two attributes have a write-only form in common (`OneBase`), and
the visit of its form leaves a description that was rewritten as it is
(`RewrittenStays`). What is done to a description is a fold over its sentences; what
`FlattenSeq` yields for every sequence is proved by induction over its length. The
library states induction with an operator as a parameter, which the provers cannot
instantiate, so `IntervalInduction` derives it for sets of numbers from the
pigeonhole theorem on finite sets. Theorems: `TreeIsAPIAlways`,
`CRDsAreListedAlways`, `OrderIndependentAlways`, `RestIsKeptAlways`,
`AdviceIsGoneAlways`, for any tables and edits, any failures, any block and any
descriptions.

`ChecksProofs`, on the two scripts alone: `Closed` says of every CRD the loop is
done with how it was settled. `FailsClosed` and `AcceptedIsPrintedAlways` assume
that git's lookups do not fail; finding 1 shows why they have to. `Deserving` says
that, as long as no command has failed, the script's variable `failed` is set
exactly if one of the CRDs the loop is done with breaks the API;
`VerdictIsDeservedAlways` follows without that assumption. `Account` says that what
was enumerated is still to do, skipped, validated or failed: `PassMeansWorkAlways`,
for any files and failures.

On the composition, two lemmas carry the scripts' invariants over unchanged: to each
script every step of the workflow is a step of its own, a fresh start, or nothing
(`ReportScript`, `ExamplesScript`). So follow `FailsClosedInCI`,
`VerdictIsDeservedInCI`, `ExamplesPassMeansWorkAlways` and `CITypeAlways`, for any
number of runs and re-runs. `Green` says why a job is skipped: there was nothing to
do, or something it needs was not a success. The needs of a job are at most two
deep, so without a failure or a cancellation, and with something to do, nothing is
skipped (`SkipsHaveARoot`): as the required check waits for every job, the one that
detects duplicates included, skips that read as success cannot pass a tree by
themselves. `PassedByScript` says that in a pull request the gate's job only succeeds
when its script has; `GreenIsVerifiedAlways` follows, with the exception of trees
that were green on a branch.

`EndToEndProofs`: `Testing`. A test exists only for a requested review of the head
its event recorded, and who enters the group leaves nothing else active in it.
Theorems: `TestedIsReviewedAlways`, `OneTestAtATimeAlways`,
`OnlyRequestsCancelAlways`.

`ReleaseProofs`: two invariants over the two halves of the module. `Group` is
`GroupInvariant`, that a decision is for a commit no tag has released, so that the
tags are no more than the commits worth one, and `NewestTakesAll`, that what is not
released yet waits for the run of the newest commit, which is in the group unless it
failed or a re-run by hand cancelled it. `Pipeline` is `GroupInvariant` with
`PackagesInvariant`: the jobs of a publish run are in one of the stages their needs
allow, and a digest that a version tag points to was pushed by a run for that
version, whose signing job has not succeeded while the digest is unsigned. `Counted`
adds that a run has at most one attempt more than there were steps by hand, and that
whatever was pushed or signed is of such an attempt. Theorems:
`ReleasedOrFailedAlways`, `UnsignedShowsAlways`, `SuccessIsSignedAlways`,
`TypeOKAlways`.

Only model-checked: liveness under fairness, which is out of the prover's reach:
`ENABLED` cannot be expanded. No `RECURSIVE` operator is declared. Of the 3 runs
that expect a violation the properties are false of the code (section 6). Conversely
the type invariants of the provider configs and of start-up are proved and not in
any run.

## 6. Findings

1. `scripts/crddiff.sh:55`: whatever makes `git cat-file -e` fail makes the CRD a
   new one, and the gate passes without a comparison, although its header says
   that it fails closed. Run `crddiff_lookup`.
2. `hack/validate-examples.sh:72`: the list of manifests comes from a process
   substitution whose status nobody sees. When find or sort ends early, the rest
   slips through, although the comments exclude just that. Run
   `examples_enumeration`.
3. `.github/workflows/e2e.yaml:102`: jobs join the concurrency group in the order
   in which their select jobs end, so an older request can cancel a newer one's
   test, although the comment says that the newer supersedes. Run `e2e_order`.

A smaller one without a run: when mktemp fails (`scripts/crddiff.sh:49`) the
status is 1, "a breaking change", where the header promises 2. It stops the gate
all the same.

## 7. What is not protected, by design of the code

The properties are worded around these cases; the models contain them.

- A usage written after the reconciler listed the usages, or not yet in its
  cache, does not keep a ProviderConfig (`NoRemovalUnderUse` excepts `missed`).
- A ProviderConfig whose controller has not run yet has no finalizer and goes at
  once when it is deleted.
- When a reference moves to a ProviderConfig that does not exist, the old usage
  stays and keeps the old ProviderConfig from going.
- With SafeStart a CRD removed after its controller was released may end the
  process, as without it.
- A re-run of an older Release run by hand may cancel the run of the newest commit
  that waits, and then leaves the release to it (`ReleasedOrFailed` excepts
  `rerun`).
- A run of publish may sign what another run for the same version pushed; what the
  tag points to may be unsigned for as long as a run of it shows a failure.

- When access to CRDs is withdrawn after the gate's CRD reconciler has synced, the
  gate (`cmd/provider/main.go:226`) is blind: what still waits behind it waits until
  somebody restarts the process. `EveryControllerComesUp` excepts these functions
  (`Blind`) and those that were lost. What was added before comes up; access
  withdrawn between precheck and sync ends the process, and the next one starts
  without SafeStart.
- A released setup that fails is lost until a restart
  (`providerconfig/config.go:38` logs it). `NoSilentLoss` says that it is the only
  one a failed call costs.
- Runs of CI for a push or by hand compare no CRDs
  (`.github/workflows/ci.yml:80`), and a pull request of a tree with such a
  successful run is not run again (`ci.yml:36`): its required check is green and
  the gate has not looked at its CRDs. `GreenIsVerified` says that the gate has
  passed except after such a run. As a tree is compared to one base and duplicates
  are detected by the tree alone, the pull request in which it passed may have had
  another base.

## 8. What is not modelled

- Generated types, deep copies, schemas and CRDs: nine lines of ten of the
  repository, and the reason why the map covers a small part of it by lines. They
  copy fields and take no decision. What decides in the generated code is
  modelled: resolvers, `GetMergedParameters`, the controllers' set-up, the
  aggregators. The cluster-scoped copies differ from the namespaced ones in
  imports, and the 56 controllers and types in names; one of them is mapped.
- Upjet's asynchronous operations, late initialisation and drift detection, and
  Terraform: not in this repository.
- `version_diff.sh` beyond what ends it without a comparison: its report has no
  effect.
- Housekeeping, build recipes, packaging and the test set-up: commands in a row.
- Flags, logging, metrics and the webhooks of `main`.
