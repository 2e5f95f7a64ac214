---------------------------- MODULE ExampleGate ----------------------------
(***************************************************************************)
(* The gate on the example manifests (hack/validate-examples.sh): one run  *)
(* against a disposable API server that has the generated CRDs.  The       *)
(* script runs under `set -e`, but reads the list of manifests from a      *)
(* process substitution, whose status nobody sees: when find or sort       *)
(* fails, the loop gets what was printed until then.                       *)
(***************************************************************************)
EXTENDS Naturals

CONSTANTS
    Files,     \* files under examples/
    Failing,   \* what may fail: "prepare", "enumerate", "apply"
    MaxFaults  \* bound on the failures of one run

VARIABLES
    examples,   \* the files there are
    excluded,   \* those the script lists with a reason
    valid,      \* those the API server accepts
    step,       \* "prepare", "enumerate", "validate", "end"
    manifests,  \* the files enumerated
    todo,       \* those the loop has not come to
    validated, skipped, failures,
    exit,       \* exit status, or Running
    faults

inputs == <<examples, excluded, valid>>
vars == <<inputs, step, manifests, todo, validated, skipped, failures, exit, faults>>

Running == 999

TypeOK ==
    /\ examples \subseteq Files /\ excluded \subseteq examples /\ valid \subseteq examples
    /\ step \in {"prepare", "enumerate", "validate", "end"}
    /\ manifests \subseteq examples /\ todo \subseteq manifests
    /\ validated \subseteq valid \ excluded
    /\ skipped \subseteq excluded
    /\ failures \subseteq examples \ excluded
    /\ exit \in {Running, 0, 1} /\ (step = "end" <=> exit # Running)
    /\ faults \in 0..MaxFaults

Init ==
    /\ examples \in SUBSET Files
    /\ excluded \in SUBSET examples
    /\ valid \in SUBSET examples
    /\ step = "prepare"
    /\ manifests = {} /\ todo = {} /\ validated = {} /\ skipped = {} /\ failures = {}
    /\ exit = Running
    /\ faults = 0

Fault(call) == call \in Failing /\ faults < MaxFaults /\ faults' = faults + 1

Exit(code) == exit' = code /\ step' = "end"
GoTo(s) == step' = s /\ UNCHANGED exit

-----------------------------------------------------------------------------
(* Directories, kubectl, cluster, namespace and CRDs: any failure ends the *)
(* run.                                                                    *)
Prepare ==
    /\ step = "prepare"
    /\ \/ GoTo("enumerate") /\ UNCHANGED faults
       \/ Exit(1) /\ Fault("prepare")
    /\ UNCHANGED <<inputs, manifests, todo, validated, skipped, failures>>

(* What the loop over find's output reads.                                 *)
Found(listed) ==
    \/ listed = examples /\ UNCHANGED faults
    \/ listed # examples /\ Fault("enumerate")

(* An empty list is an error; a short one is not noticed.                  *)
Enumerate ==
    /\ step = "enumerate"
    /\ \E listed \in SUBSET examples :
        /\ Found(listed)
        /\ manifests' = listed
        /\ todo' = listed
        /\ IF listed = {} THEN Exit(1) ELSE GoTo("validate")
    /\ UNCHANGED <<inputs, validated, skipped, failures>>

SkipManifest(f) ==
    /\ step = "validate" /\ f \in todo \cap excluded
    /\ todo' = todo \ {f}
    /\ skipped' = skipped \cup {f}
    /\ UNCHANGED <<inputs, step, manifests, validated, failures, exit, faults>>

(* Mutated form: an error of kubectl other than a rejection is not one.    *)
AcceptedUnlessRejected(f) ==
    \/ f \in valid /\ UNCHANGED faults
    \/ f \notin valid /\ Fault("apply")

(* kubectl succeeds when the server was reached and accepts the manifest.  *)
Accepted(f) == f \in valid /\ UNCHANGED faults
Rejected(f) == (f \notin valid /\ UNCHANGED faults) \/ Fault("apply")

Validate(f) ==
    /\ step = "validate" /\ f \in todo \ excluded
    /\ todo' = todo \ {f}
    /\ \/ Accepted(f) /\ validated' = validated \cup {f} /\ UNCHANGED failures
       \/ Rejected(f) /\ failures' = failures \cup {f} /\ UNCHANGED validated
    /\ UNCHANGED <<inputs, step, manifests, skipped, exit>>

(* Mutated form: nothing looked at is nothing wrong.                       *)
VerdictOfNothing == IF failures # {} THEN 1 ELSE 0

Verdict == IF validated = {} \/ failures # {} THEN 1 ELSE 0

Conclude ==
    /\ step = "validate" /\ todo = {}
    /\ Exit(Verdict)
    /\ UNCHANGED <<inputs, manifests, todo, validated, skipped, failures, faults>>

Next ==
    \/ Prepare \/ Enumerate \/ Conclude
    \/ \E f \in Files : SkipManifest(f) \/ Validate(f)

Spec == Init /\ [][Next]_vars

-----------------------------------------------------------------------------
(* "Anything under examples/ that is neither validated nor listed here     *)
(* fails the run, so a new example can never slip through unchecked."      *)
NothingSlipsThrough == exit = 0 => examples \subseteq validated \cup excluded

(* Whatever fails, a pass means that every file the run enumerated is      *)
(* excluded or was accepted by the server, and that at least one was.      *)
PassMeansWork ==
    exit = 0 => validated # {} /\ manifests \subseteq (validated \cap valid) \cup excluded

=============================================================================
