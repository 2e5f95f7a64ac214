------------------------------ MODULE CRDDiff ------------------------------
(***************************************************************************)
(* The gate on breaking changes of the published CRDs                      *)
(* (scripts/crddiff.sh): one run over the CRDs a change has touched.  The  *)
(* script runs under `set -e`: a command that fails where no `if` or `||`  *)
(* takes its status ends the run with that status.  Git, mktemp and the    *)
(* crddiff tool are not part of the source; their calls may fail.          *)
(***************************************************************************)
EXTENDS Naturals

CONSTANTS
    CRDs,      \* paths of CRDs
    NoCRD,     \* the loop variable before the loop
    Failing,   \* the calls that may fail: "mktemp", "lookup", "fetch", "tool"
    MaxFaults  \* bound on the failures of one run

ASSUME FaultsAssumption == MaxFaults \in Nat /\ NoCRD \notin CRDs

VARIABLES
    args,      \* the CRDs to check
    atBase,    \* those of all the CRDs that exist at the base revision
    inTree,    \* those in the working tree
    broken,    \* those whose schema in the tree breaks the one at the base
    setting,   \* whether the base resolves, the tool runs, breaking is accepted
    step,      \* where the script is
    todo,      \* CRDs the loop has left
    crd,       \* the loop's CRD
    failed,    \* the script's variable
    compared,  \* CRDs the tool has compared to the end
    reported,  \* CRDs a breaking change was printed for
    exit,      \* exit status, or Running
    faults

inputs == <<args, atBase, inTree, broken, setting>>
vars == <<inputs, step, todo, crd, failed, compared, reported, exit, faults>>

Running == 999

TypeOK ==
    /\ args \subseteq CRDs /\ atBase \subseteq CRDs
    /\ inTree \subseteq CRDs /\ broken \subseteq atBase \cap inTree
    /\ setting \in [base : BOOLEAN, tool : BOOLEAN, accept : BOOLEAN]
    /\ step \in {"arguments", "base", "tool", "mktemp", "loop", "fetch", "compare", "end"}
    /\ todo \subseteq args /\ crd \in args \cup {NoCRD}
    /\ failed \in {0, 1}
    /\ compared \subseteq args \cap atBase \cap inTree
    /\ reported \subseteq args
    /\ exit \in {Running, 0, 1, 2, 128} /\ (step = "end" <=> exit # Running)
    /\ faults \in 0..MaxFaults

Init ==
    /\ args \in SUBSET CRDs
    /\ atBase \in SUBSET CRDs
    /\ inTree \in SUBSET CRDs
    /\ broken \in SUBSET (atBase \cap inTree)
    /\ setting \in [base : BOOLEAN, tool : BOOLEAN, accept : BOOLEAN]
    /\ step = "arguments"
    /\ todo = args
    /\ crd = NoCRD
    /\ failed = 0
    /\ compared = {}
    /\ reported = {}
    /\ exit = Running
    /\ faults = 0

Fault(call) == call \in Failing /\ faults < MaxFaults /\ faults' = faults + 1

Exit(code) == exit' = code /\ step' = "end"
GoTo(s) == step' = s /\ UNCHANGED exit

-----------------------------------------------------------------------------
(* Nothing modified is nothing to check; a base or a tool that is not      *)
(* there stops the gate.                                                   *)
Prepare ==
    /\ \/ /\ step = "arguments"
          /\ IF args = {} THEN Exit(0) ELSE GoTo("base")
       \/ /\ step = "base"
          /\ IF setting.base THEN GoTo("tool") ELSE Exit(2)
       \/ /\ step = "tool"
          /\ IF setting.tool THEN GoTo("mktemp") ELSE Exit(2)
    /\ UNCHANGED <<inputs, todo, crd, failed, compared, reported, faults>>

MakeWorkDir ==
    /\ step = "mktemp"
    /\ \/ GoTo("loop") /\ UNCHANGED faults
       \/ Exit(1) /\ Fault("mktemp")
    /\ UNCHANGED <<inputs, todo, crd, failed, compared, reported>>

(* Mutated form: every CRD is taken to be at the base.                     *)
FoundAlways(c, found) == found /\ UNCHANGED faults

(* Does c exist at the base?  Whatever makes git fail reads as no.         *)
FoundAtBase(c, found) ==
    \/ found = (c \in atBase) /\ UNCHANGED faults
    \/ ~found /\ c \in atBase /\ Fault("lookup")

(* Mutated form: a removed CRD is printed and nothing more.                *)
RemovedIsPrinted(c) == reported' = reported \cup {c} /\ UNCHANGED failed

Removed(c) == reported' = reported \cup {c} /\ failed' = 1

(* The loop takes its next CRD; the order of the arguments is not fixed.   *)
Examine(c) ==
    /\ step = "loop" /\ c \in todo
    /\ crd' = c
    /\ todo' = todo \ {c}
    /\ \E found \in BOOLEAN :
        /\ FoundAtBase(c, found)
        /\ \/ c \notin inTree /\ ~found /\ Exit(2) /\ UNCHANGED <<failed, reported>>
           \/ c \notin inTree /\ found /\ Removed(c) /\ GoTo("loop")
           \/ c \in inTree /\ ~found /\ GoTo("loop") /\ UNCHANGED <<failed, reported>>
           \/ c \in inTree /\ found /\ GoTo("fetch") /\ UNCHANGED <<failed, reported>>
    /\ UNCHANGED <<inputs, compared>>

(* Write the base version to a file: the shell fails to open the file, or  *)
(* git fails.                                                              *)
FetchBase ==
    /\ step = "fetch"
    /\ \/ GoTo("compare") /\ UNCHANGED faults
       \/ Fault("fetch") /\ \E code \in {1, 128} : Exit(code)
    /\ UNCHANGED <<inputs, todo, crd, failed, compared, reported>>

(* Mutated form: whatever the tool fails of is a breaking change.          *)
ToolFailureIsBreaking ==
    reported' = reported \cup {crd} /\ failed' = 1 /\ GoTo("loop")

(* A failure of the tool without a report in its format stops the gate.    *)
ToolFailure == Exit(2) /\ UNCHANGED <<failed, reported>>

Compare ==
    /\ step = "compare"
    /\ \/ /\ Fault("tool")
          /\ ToolFailure
          /\ UNCHANGED compared
       \/ /\ compared' = compared \cup {crd}
          /\ IF crd \in broken THEN reported' = reported \cup {crd} /\ failed' = 1
                               ELSE UNCHANGED <<failed, reported>>
          /\ GoTo("loop")
          /\ UNCHANGED faults
    /\ UNCHANGED <<inputs, todo, crd>>

(* Mutated form: nothing is ever accepted.                                *)
VerdictUnaccepted == IF failed = 1 THEN 1 ELSE 0

Verdict == IF failed = 1 /\ ~setting.accept THEN 1 ELSE 0

Conclude ==
    /\ step = "loop" /\ todo = {}
    /\ Exit(Verdict)
    /\ UNCHANGED <<inputs, todo, crd, failed, compared, reported, faults>>

Next == Prepare \/ MakeWorkDir \/ (\E c \in CRDs : Examine(c)) \/ FetchBase \/ Compare \/ Conclude

Spec == Init /\ [][Next]_vars

-----------------------------------------------------------------------------
New(c) == c \in inTree \ atBase
RemovedFromTree(c) == c \in atBase \ inTree
BreaksAPI(c) == RemovedFromTree(c) \/ c \in broken

(* "The gate fails closed": it only passes when every CRD to check is new, *)
(* or was compared to the end, or has gone and that was accepted.          *)
PassIsChecked ==
    exit = 0 =>
        \A c \in args : New(c) \/ c \in compared \/ (RemovedFromTree(c) /\ setting.accept)

(* Accepting breaking changes passes only what was printed: whenever the   *)
(* gate passes, each change that breaks the API is in its output, and it   *)
(* was told to accept them.                                                *)
AcceptedIsPrinted ==
    exit = 0 => \A c \in args : BreaksAPI(c) => c \in reported /\ setting.accept

(* The verdict the CRDs and the setting deserve.                           *)
Deserved ==
    IF args = {} THEN 0
    ELSE IF ~setting.base \/ ~setting.tool \/ args \ (atBase \cup inTree) # {} THEN 2
    ELSE IF setting.accept \/ \A c \in args : ~BreaksAPI(c) THEN 0
    ELSE 1

(* In a run in which every command worked, the status is the deserved one  *)
(* whatever the order of the CRDs: a CRD on neither side stops the gate    *)
(* even after a breaking change and even when breaking changes are         *)
(* accepted.                                                               *)
VerdictIsDeserved == step = "end" /\ faults = 0 => exit = Deserved

(* What the run has established of a CRD it is done with.                  *)
Settled(c) ==
    \/ New(c)
    \/ c \in compared /\ (c \in broken => c \in reported)
    \/ RemovedFromTree(c) /\ c \in reported

(* The inductive invariant of a run whose lookups do not fail.             *)
LoopInvariant ==
    /\ step \in {"arguments", "base", "tool", "mktemp"} => todo = args /\ reported = {} /\ failed = 0
    /\ step \in {"fetch", "compare"} => crd \in atBase \cap inTree
    /\ \A c \in args \ todo : Settled(c) \/ (c = crd /\ step \in {"fetch", "compare"})
                                        \/ (step = "end" /\ exit # 0)
    /\ reported # {} => failed = 1
    /\ exit = 0 => todo = {} /\ (failed = 1 => setting.accept)

Closed == TypeOK /\ LoopInvariant

=============================================================================
