-------------------------------- MODULE Checks --------------------------------
(***************************************************************************)
(* Continuous integration of one state of the tree (.github/workflows/     *)
(* ci.yml): the jobs of a run, what they wait for and when they are        *)
(* skipped, the two gates that two of them run step by step (CRDDiff,      *)
(* ExampleGate), the check that a pull request is blocked on, re-runs of   *)
(* what failed or was cancelled, further runs of the same tree, and the    *)
(* label that accepts breaking changes.                                    *)
(***************************************************************************)
EXTENDS CRDDiff

CONSTANTS
    Files,      \* files under examples/
    BuildJobs,  \* lint, check-diff, unit-tests, local-deploy
    MaxRuns     \* bound: runs and re-runs

VARIABLES
    event,      \* what the run is for: "pull_request", or "push" or a dispatch
    ignorable,  \* the change touches nothing but texts and images
    label,      \* the pull request has the label "breaking change"
    result,     \* job -> how it stands
    noop,       \* output of detect-noop
    required,   \* the required check
    runs,
    succeeded,  \* a run of this tree has succeeded
    verified,   \* history: what the runs were for in which every job did
    gatePassed, \* history: scripts/crddiff.sh has passed for a pull request of this tree
    examples, excluded, valid, exStep, manifests, exTodo,
    validated, skipped, failures, exExit, exFaults

Examples == INSTANCE ExampleGate WITH
    step <- exStep, todo <- exTodo, exit <- exExit, faults <- exFaults

run == <<event, ignorable, label, result, noop, required, runs, succeeded, verified, gatePassed>>
exVars == <<examples, excluded, valid, exStep, manifests, exTodo, validated, skipped,
            failures, exExit, exFaults>>
ciVars == <<vars, run, exVars>>

DetectNoop == "detect-noop"
Report == "report-breaking-changes"
Renovate == "validate-renovate-config"
ExamplesJob == "validate-examples"
Publish == "publish-artifacts"
NamedJobs == {DetectNoop, Report, Renovate, ExamplesJob, Publish}
Jobs == NamedJobs \cup BuildJobs

ASSUME JobsAssumption == BuildJobs \cap NamedJobs = {} /\ MaxRuns \in Nat \ {0}

Needs(j) ==
    IF j \in {DetectNoop, Renovate} THEN {}
    ELSE IF j = Publish THEN {DetectNoop, Report} \cup BuildJobs
    ELSE {DetectNoop}

(* Mutated form: an entry of the list is missing.                          *)
AggregatedWithoutDetection == Jobs \ {DetectNoop}

(* What the required check looks at.                                       *)
Aggregated == Jobs

Over(j) == result[j] \in {"success", "failure", "cancelled", "skipped"}

(* A job that times out counts as failed; it is no success either way.     *)
Broke(j) == result[j] \in {"failure", "cancelled"}

NoSetting == [base |-> FALSE, tool |-> FALSE, accept |-> FALSE]

(* The script of report-breaking-changes before it starts, on its inputs.  *)
LoadReport(a, b, t, k, s) ==
    /\ args' = a /\ atBase' = b /\ inTree' = t /\ broken' = k /\ setting' = s
    /\ step' = "arguments" /\ todo' = a /\ crd' = NoCRD /\ failed' = 0
    /\ compared' = {} /\ reported' = {} /\ exit' = Running /\ faults' = 0

(* The same for the script of validate-examples.                           *)
LoadExamples(fs, ex, ok) ==
    /\ examples' = fs /\ excluded' = ex /\ valid' = ok
    /\ exStep' = "prepare" /\ manifests' = {} /\ exTodo' = {} /\ validated' = {}
    /\ skipped' = {} /\ failures' = {} /\ exExit' = Running /\ exFaults' = 0

CIInit ==
    /\ event \in {"pull_request", "push"}
    /\ ignorable \in BOOLEAN
    /\ label = FALSE
    /\ result = [j \in Jobs |-> "waiting"]
    /\ noop = FALSE
    /\ required = "waiting"
    /\ runs = 1
    /\ succeeded = FALSE
    /\ verified = {}
    /\ gatePassed = FALSE
    /\ args = {} /\ atBase = {} /\ inTree = {} /\ broken = {} /\ setting = NoSetting
    /\ step = "arguments" /\ todo = {} /\ crd = NoCRD /\ failed = 0
    /\ compared = {} /\ reported = {} /\ exit = Running /\ faults = 0
    /\ examples = {} /\ excluded = {} /\ valid = {}
    /\ exStep = "prepare" /\ manifests = {} /\ exTodo = {} /\ validated = {}
    /\ skipped = {} /\ failures = {} /\ exExit = Running /\ exFaults = 0

Scripts == <<vars, exVars>>

(* A script reads what it was started with and writes what nothing else    *)
(* reads before it ends: its steps are a block that no other step is in.   *)
Idle == result[Report] # "running" /\ result[ExamplesJob] # "running"

-----------------------------------------------------------------------------
(* A job's turn comes when what it needs is over.                          *)
Ready(j) == result[j] = "waiting" /\ \A n \in Needs(j) : Over(n)
Turn(j) == Idle /\ Ready(j)

(* A condition that does not ask otherwise asks for success of all that is *)
(* needed; all but detect-noop and validate-renovate-config also ask that  *)
(* there is something to do.                                               *)
Condition(j) ==
    /\ \A n \in Needs(j) : result[n] = "success"
    /\ Needs(j) # {} => ~noop

Ends(j, outcome) ==
    /\ result' = [result EXCEPT ![j] = outcome]
    /\ UNCHANGED <<event, ignorable, label, required, runs, succeeded, verified>>

SkipJob(j) ==
    /\ Turn(j) /\ ~Condition(j)
    /\ Ends(j, "skipped")
    /\ UNCHANGED <<noop, gatePassed, Scripts>>

(* A pull request that touches nothing that counts, or whose tree has been *)
(* through a run before, is not run again.                                 *)
DetectNoopChanges ==
    /\ Turn(DetectNoop)
    /\ \/ Ends(DetectNoop, "success") /\ noop' = (event = "pull_request" /\ (ignorable \/ succeeded))
       \/ Ends(DetectNoop, "failure") /\ UNCHANGED noop
    /\ UNCHANGED <<gatePassed, Scripts>>

(* Jobs that run commands; what they build or test is a result.            *)
RunJob(j) ==
    /\ j \in BuildJobs \cup {Renovate}
    /\ Turn(j) /\ Condition(j)
    /\ \E outcome \in {"success", "failure"} : Ends(j, outcome)
    /\ UNCHANGED <<noop, gatePassed, Scripts>>

PublishArtifacts ==
    /\ Turn(Publish) /\ Condition(Publish)
    /\ \E outcome \in {"success", "failure"} : Ends(Publish, outcome)
    /\ UNCHANGED <<noop, gatePassed, Scripts>>

(* The label is read when the step runs.  What the script is given then is *)
(* whatever the tree, the base and the tool are.                           *)
StartReport ==
    /\ Turn(Report) /\ Condition(Report)
    /\ event = "pull_request"
    /\ \E a, b, t \in SUBSET CRDs, base, tool \in BOOLEAN : \E k \in SUBSET (b \cap t) :
          LoadReport(a, b, t, k, [base |-> base, tool |-> tool, accept |-> label])
    /\ Ends(Report, "running")
    /\ UNCHANGED <<noop, gatePassed, exVars>>

(* Mutated form: the step of the script is skipped in a pull request too.  *)
ReportSkipsScript ==
    /\ Turn(Report) /\ Condition(Report)
    /\ Ends(Report, "failure") \/ Ends(Report, "success")
    /\ UNCHANGED <<noop, gatePassed, Scripts>>

(* The checkout, the fetch of the base or the look at the labels fails.    *)
(* Without a pull request there is nothing to compare with: the job passes *)
(* and the gate has not run.                                               *)
ReportWithoutScript ==
    /\ Turn(Report) /\ Condition(Report)
    /\ \/ Ends(Report, "failure")
       \/ event # "pull_request" /\ Ends(Report, "success")
    /\ UNCHANGED <<noop, gatePassed, Scripts>>

ReportStep ==
    /\ result[Report] = "running"
    /\ Next
    /\ UNCHANGED <<run, exVars>>

(* scripts/version_diff.sh: without a provider, its resources on both      *)
(* sides and a list of names there is nothing to compare.                  *)
VersionDiff(schemas) == IF schemas = {"provider", "base", "bumped", "list"} THEN 0 ELSE 255

FinishReport ==
    /\ result[Report] = "running" /\ exit # Running
    /\ \E schemas \in {{"provider", "base", "bumped", "list"}, {"provider", "base", "bumped"}} :
          Ends(Report, IF exit = 0 /\ VersionDiff(schemas) = 0 THEN "success" ELSE "failure")
    /\ gatePassed' = (gatePassed \/ exit = 0)
    /\ LoadReport({}, {}, {}, {}, NoSetting)
    /\ UNCHANGED <<noop, exVars>>

StartExamples ==
    /\ Turn(ExamplesJob) /\ Condition(ExamplesJob)
    /\ \E fs \in SUBSET Files : \E ex, ok \in SUBSET fs : LoadExamples(fs, ex, ok)
    /\ Ends(ExamplesJob, "running")
    /\ UNCHANGED <<noop, gatePassed, vars>>

ExamplesStep ==
    /\ result[ExamplesJob] = "running"
    /\ Examples!Next
    /\ UNCHANGED <<run, vars>>

FinishExamples ==
    /\ result[ExamplesJob] = "running" /\ exExit # Running
    /\ Ends(ExamplesJob, IF exExit = 0 THEN "success" ELSE "failure")
    /\ LoadExamples({}, {}, {})
    /\ UNCHANGED <<noop, gatePassed, vars>>

-----------------------------------------------------------------------------
(* The run is cancelled by hand, at whatever step its scripts are: jobs    *)
(* that run or could are cancelled, those that need them then skipped.     *)
CancelRun ==
    /\ required = "waiting"
    /\ LET stopped == {j \in Jobs : result[j] = "running" \/ Ready(j)}
       IN /\ stopped # {}
          /\ result' = [j \in Jobs |-> IF j \in stopped THEN "cancelled" ELSE result[j]]
    /\ LoadReport({}, {}, {}, {}, NoSetting) /\ LoadExamples({}, {}, {})
    /\ UNCHANGED <<event, ignorable, label, noop, required, runs, succeeded, verified, gatePassed>>

(* The required check runs always, and fails of any job in its list that   *)
(* failed or was cancelled, or of its own.                                 *)
Aggregate ==
    /\ required = "waiting"
    /\ \A j \in Jobs : Over(j)
    /\ \/ required' = IF \E j \in Aggregated : Broke(j) THEN "failure" ELSE "success"
       \/ required' = "failure"
    /\ succeeded' = (succeeded \/ (required' = "success" /\ \A j \in Jobs : ~Broke(j)))
    /\ verified' = verified \cup IF \A j \in Jobs : result[j] = "success" THEN {event} ELSE {}
    /\ UNCHANGED <<event, ignorable, label, result, noop, runs, gatePassed, Scripts>>

Another == required # "waiting" /\ runs < MaxRuns /\ runs' = runs + 1 /\ required' = "waiting"

(* The same tree again, as a pull request or on a branch.                  *)
NewRun ==
    /\ Another
    /\ event' \in {"pull_request", "push"}
    /\ result' = [j \in Jobs |-> "waiting"]
    /\ noop' = FALSE
    /\ UNCHANGED <<ignorable, label, succeeded, verified, gatePassed, Scripts>>

(* A re-run takes the failed and cancelled jobs and those that need them.  *)
Rerun ==
    /\ Another
    /\ LET again == {j \in Jobs : Broke(j) \/ (result[j] = "skipped" /\ ~noop)}
       IN /\ again # {} \/ required = "failure"
          /\ result' = [j \in Jobs |-> IF j \in again THEN "waiting" ELSE result[j]]
    /\ UNCHANGED <<event, ignorable, label, noop, succeeded, verified, gatePassed, Scripts>>

SetLabel ==
    /\ Idle
    /\ label' = ~label
    /\ UNCHANGED <<event, ignorable, result, noop, required, runs, succeeded, verified, gatePassed, Scripts>>

CINext ==
    \/ \E j \in Jobs : SkipJob(j) \/ RunJob(j)
    \/ DetectNoopChanges \/ PublishArtifacts
    \/ StartReport \/ ReportWithoutScript \/ ReportStep \/ FinishReport
    \/ StartExamples \/ ExamplesStep \/ FinishExamples
    \/ CancelRun \/ Aggregate \/ NewRun \/ Rerun \/ SetLabel

CISpec == CIInit /\ [][CINext]_ciVars

-----------------------------------------------------------------------------
CIType ==
    /\ event \in {"pull_request", "push"} /\ {ignorable, label, noop, succeeded, gatePassed} \subseteq BOOLEAN
    /\ result \in [Jobs -> {"waiting", "running", "success", "failure", "cancelled", "skipped"}]
    /\ verified \subseteq {"pull_request", "push"}
    /\ required \in {"waiting", "success", "failure"}
    /\ runs \in 1 .. MaxRuns
    /\ TypeOK /\ Examples!TypeOK

(* The required check is green, where the change touches something that    *)
(* counts, only over a tree that has been through every job with success   *)
(* in one run of it, this one, a re-run or an earlier one; and for which   *)
(* the gate on breaking changes has passed in a pull request, unless that  *)
(* run was on a branch: it compares no CRDs, and a pull request of a tree  *)
(* that was green on a branch is not run again.  Skipped jobs read as      *)
(* success, so nothing else keeps a run of skipped jobs from passing.      *)
GreenIsVerified ==
    required = "success" /\ ~ignorable =>
        /\ verified # {}
        /\ "push" \notin verified => gatePassed

(* A pass of the example gate, in whatever run.                            *)
ExamplesPassMeansWork == Examples!PassMeansWork

=============================================================================
