---------------------------- MODULE ChecksProofs ----------------------------
(***************************************************************************)
(* Proofs about CRDDiff, ExampleGate and Checks, which composes them.      *)
(*                                                                         *)
(* CRDDiff, for any set of CRDs and any number of failures: as long as     *)
(* git's lookups work the gate fails closed.  The inductive invariant says *)
(* of every CRD the loop has left behind that it is new, compared, or      *)
(* reported as removed, unless the run has ended otherwise.                *)
(***************************************************************************)
EXTENDS Checks, TLAPS

(* What the tool compares is on both sides: git's lookup may miss a CRD    *)
(* but does not invent one.                                                *)
Typed == TypeOK /\ (step \in {"fetch", "compare"} => crd \in atBase \cap inTree)

LEMMA InitTyped == Init => Typed
<1> SUFFICES ASSUME Init PROVE Typed
  OBVIOUS
<1>1. /\ args \subseteq CRDs /\ atBase \subseteq CRDs
      /\ inTree \subseteq CRDs /\ broken \subseteq atBase \cap inTree
      /\ setting \in [base : BOOLEAN, tool : BOOLEAN, accept : BOOLEAN]
  BY DEF Init
<1>2. /\ step = "arguments" /\ todo = args /\ crd = NoCRD /\ failed = 0
      /\ compared = {} /\ reported = {} /\ exit = 999
      /\ faults \in 0..MaxFaults
  BY FaultsAssumption DEF Init, Running
<1> QED
  BY <1>1, <1>2 DEF Typed, TypeOK, Running

(* Every command keeps the types, whatever fails.                          *)
LEMMA StepTyped == Typed /\ [Next]_vars => Typed'
<1> SUFFICES ASSUME Typed, [Next]_vars PROVE Typed'
  OBVIOUS
<1> USE FaultsAssumption DEF Typed, Fault, Exit, GoTo, Running
<1>1. CASE Prepare
  BY <1>1 DEF Prepare, inputs, TypeOK
<1>2. CASE MakeWorkDir
  BY <1>2 DEF MakeWorkDir, inputs, TypeOK
<1>3. ASSUME NEW c \in CRDs, Examine(c) PROVE Typed'
  <2>1. faults' \in 0..MaxFaults
    BY <1>3 DEF Examine, FoundAtBase, TypeOK
  <2>2. todo' \subseteq args' /\ crd' \in args' /\ UNCHANGED <<inputs, compared>>
    BY <1>3 DEF Examine, inputs, TypeOK
  <2>3. reported' \subseteq args' /\ failed' \in {0, 1}
    BY <1>3 DEF Examine, Removed, inputs, TypeOK
  <2>4. \/ step' = "loop" /\ exit' = exit
        \/ step' = "fetch" /\ exit' = exit /\ c \in atBase \cap inTree
        \/ step' = "end" /\ exit' = 2
    BY <1>3 DEF Examine, FoundAtBase
  <2>5. exit = 999 /\ crd' = c
    BY <1>3 DEF Examine, TypeOK
  <2> QED
    BY <2>1, <2>2, <2>3, <2>4, <2>5 DEF inputs, TypeOK
<1>4. CASE FetchBase
  BY <1>4 DEF FetchBase, inputs, TypeOK
<1>5. CASE Compare
  <2>1. UNCHANGED <<inputs, todo, crd>> /\ crd \in args \cap atBase \cap inTree
    BY <1>5 DEF Compare, TypeOK
  <2>2. compared' \subseteq args \cap atBase \cap inTree /\ reported' \subseteq args
    BY <1>5, <2>1 DEF Compare, ToolFailure, TypeOK
  <2>3. failed' \in {0, 1} /\ faults' \in 0..MaxFaults
    BY <1>5 DEF Compare, ToolFailure, TypeOK
  <2>4. \/ step' = "loop" /\ exit' = 999
        \/ step' = "end" /\ exit' = 2
    BY <1>5 DEF Compare, ToolFailure, TypeOK
  <2> QED
    BY <2>1, <2>2, <2>3, <2>4 DEF inputs, TypeOK
<1>6. CASE Conclude
  BY <1>6 DEF Conclude, Verdict, inputs, TypeOK
<1>7. CASE UNCHANGED vars
  BY <1>7 DEF vars, inputs, TypeOK
<1> QED
  BY <1>1, <1>2, <1>3, <1>4, <1>5, <1>6, <1>7 DEF Next

(* The invariant holds before the script's first command.                  *)
LEMMA InitClosed == Init => Closed
<1> SUFFICES ASSUME Init PROVE Closed
  OBVIOUS
<1>1. /\ step = "arguments" /\ todo = args /\ crd = NoCRD /\ failed = 0
      /\ compared = {} /\ reported = {} /\ exit = 999
  BY DEF Init, Running
<1> QED
  BY <1>1, InitTyped DEF Typed, LoopInvariant, Closed

(* Every command keeps it, if git only says no of what is not there.       *)
LEMMA StepClosed ==
    ASSUME "lookup" \notin Failing
    PROVE  Closed /\ [Next]_vars => Closed'
<1> SUFFICES ASSUME Closed, [Next]_vars PROVE LoopInvariant'
  BY StepTyped DEF Closed, Typed, LoopInvariant
<1> USE FaultsAssumption DEF Closed, Fault, Exit, GoTo, Running
<1>1. CASE Prepare
  <2>1. todo' = args' /\ reported' = {} /\ step' \notin {"fetch", "compare"}
    BY <1>1 DEF Prepare, inputs, LoopInvariant
  <2>2. failed' = 0 /\ (exit' = 0 => args' = {})
    BY <1>1 DEF Prepare, inputs, LoopInvariant, TypeOK
  <2> QED
    BY <2>1, <2>2 DEF LoopInvariant
<1>2. CASE MakeWorkDir
  BY <1>2 DEF MakeWorkDir, inputs, TypeOK, LoopInvariant, Settled, New, RemovedFromTree
<1>3. ASSUME NEW c \in CRDs, Examine(c) PROVE LoopInvariant'
  BY <1>3 DEF Examine, FoundAtBase, Removed, inputs, TypeOK, LoopInvariant, Settled, New, RemovedFromTree
<1>4. CASE FetchBase
  BY <1>4 DEF FetchBase, inputs, TypeOK, LoopInvariant, Settled, New, RemovedFromTree
<1>5. CASE Compare
  BY <1>5 DEF Compare, ToolFailure, inputs, TypeOK, LoopInvariant, Settled, New, RemovedFromTree
<1>6. CASE Conclude
  BY <1>6 DEF Conclude, Verdict, inputs, TypeOK, LoopInvariant, Settled, New, RemovedFromTree
<1>7. CASE UNCHANGED vars
  BY <1>7 DEF vars, inputs, TypeOK, LoopInvariant, Settled, New, RemovedFromTree
<1> QED
  BY <1>1, <1>2, <1>3, <1>4, <1>5, <1>6, <1>7 DEF Next

-----------------------------------------------------------------------------
LEMMA ClosedIsChecked == Closed => PassIsChecked
<1> SUFFICES ASSUME Closed, exit = 0, NEW c \in args
             PROVE  New(c) \/ c \in compared \/ (RemovedFromTree(c) /\ setting.accept)
  BY DEF Closed, PassIsChecked
<1>1. step = "end" /\ todo = {} /\ (failed = 1 => setting.accept)
  BY DEF Closed, TypeOK, LoopInvariant, Running
<1>2. Settled(c)
  BY <1>1 DEF Closed, LoopInvariant
<1> QED
  BY <1>1, <1>2 DEF Closed, LoopInvariant, Settled

LEMMA ClosedIsPrinted == Closed => AcceptedIsPrinted
<1> SUFFICES ASSUME Closed, exit = 0, NEW c \in args, BreaksAPI(c)
             PROVE  c \in reported /\ setting.accept
  BY DEF AcceptedIsPrinted
<1>1. step = "end" /\ todo = {} /\ (failed = 1 => setting.accept)
  BY DEF Closed, TypeOK, LoopInvariant, Running
<1>2. Settled(c)
  BY <1>1 DEF Closed, LoopInvariant
<1>3. ~New(c) /\ (c \in compared => c \in inTree)
  BY DEF BreaksAPI, New, RemovedFromTree, Closed, TypeOK
<1>4. c \in reported
  BY <1>2, <1>3 DEF Settled, BreaksAPI, RemovedFromTree
<1> QED
  BY <1>1, <1>4 DEF Closed, LoopInvariant

(* As long as git's lookups work, the variables stay in their types and    *)
(* the gate fails closed: whatever else fails, however often, status 0     *)
(* means that every CRD to check is new, was compared to the end, or has   *)
(* gone and that was accepted.                                             *)
THEOREM FailsClosed ==
    ASSUME "lookup" \notin Failing
    PROVE  Spec => [](TypeOK /\ PassIsChecked)
<1>1. Closed => TypeOK /\ PassIsChecked
  BY ClosedIsChecked DEF Closed
<1>2. Closed /\ [Next]_vars => Closed'
  BY StepClosed
<1> QED
  BY <1>1, <1>2, InitClosed, PTL DEF Spec

(* And every breaking change it passes was printed and accepted.           *)
THEOREM AcceptedIsPrintedAlways ==
    ASSUME "lookup" \notin Failing
    PROVE  Spec => []AcceptedIsPrinted
<1>1. Closed /\ [Next]_vars => Closed'
  BY StepClosed
<1> QED
  BY <1>1, ClosedIsPrinted, InitClosed, PTL DEF Spec

-----------------------------------------------------------------------------
(* The CRDs whose turn in the loop is over.                                *)
Done == IF step \in {"fetch", "compare"} THEN (args \ todo) \ {crd} ELSE args \ todo

(* What a run in which every command worked so far has come to.            *)
Faithful ==
    /\ step \notin {"arguments", "end"} => args # {}
    /\ step \notin {"arguments", "base", "end"} => setting.base
    /\ step \in {"mktemp", "loop", "fetch", "compare"} => setting.tool
    /\ step \in {"arguments", "base", "tool", "mktemp"} => todo = args
    /\ step \in {"fetch", "compare"} => crd \in (args \ todo) \cap atBase \cap inTree
    /\ step # "end" => args \ todo \subseteq atBase \cup inTree
    /\ failed = 1 <=> \E c \in Done : BreaksAPI(c)
    /\ step = "end" => exit = Deserved

Steps == {"arguments", "base", "tool", "mktemp", "loop", "fetch", "compare", "end"}

Deserving ==
    /\ todo \subseteq args /\ broken \subseteq atBase \cap inTree
    /\ failed \in {0, 1} /\ faults \in Nat /\ step \in Steps
    /\ faults = 0 => Faithful

(* A command that fails is counted.                                        *)
LEMMA StepCounts ==
    Deserving /\ Next =>
        /\ UNCHANGED inputs
        /\ todo' \subseteq todo /\ failed' \in {0, 1} /\ step' \in Steps
        /\ (faults' = faults \/ faults' = faults + 1)
<1> SUFFICES ASSUME Deserving, Next PROVE
        /\ UNCHANGED inputs
        /\ todo' \subseteq todo /\ failed' \in {0, 1} /\ step' \in Steps
        /\ (faults' = faults \/ faults' = faults + 1)
  OBVIOUS
<1> USE DEF Deserving, Steps, Fault, Exit, GoTo
<1>1. CASE Prepare
  BY <1>1 DEF Prepare
<1>2. CASE MakeWorkDir
  BY <1>2 DEF MakeWorkDir
<1>3. ASSUME NEW c \in CRDs, Examine(c) PROVE
        /\ UNCHANGED inputs
        /\ todo' \subseteq todo /\ failed' \in {0, 1} /\ step' \in Steps
        /\ (faults' = faults \/ faults' = faults + 1)
  BY <1>3 DEF Examine, FoundAtBase, Removed
<1>4. CASE FetchBase
  BY <1>4 DEF FetchBase
<1>5. CASE Compare
  BY <1>5 DEF Compare, ToolFailure
<1>6. CASE Conclude
  BY <1>6 DEF Conclude
<1> QED
  BY <1>1, <1>2, <1>3, <1>4, <1>5, <1>6 DEF Next

(* As long as none has failed, each step keeps to what the CRDs and the    *)
(* setting deserve.                                                        *)
LEMMA StepFaithful ==
    Deserving /\ Next /\ faults = 0 /\ faults' = 0 => Faithful'
<1> SUFFICES ASSUME Deserving, Next, faults = 0, faults' = 0 PROVE Faithful'
  OBVIOUS
<1>1. /\ Faithful /\ UNCHANGED inputs
      /\ todo \subseteq args /\ failed \in {0, 1} /\ broken \subseteq atBase \cap inTree
  BY StepCounts DEF Deserving
<1>2. UNCHANGED <<args, atBase, inTree, broken, setting>>
  BY <1>1 DEF inputs
<1>3. /\ Deserved' = Deserved
      /\ \A c : BreaksAPI(c)' <=> BreaksAPI(c)
  BY <1>2 DEF Deserved, BreaksAPI, RemovedFromTree
<1> USE DEF Fault, Exit, GoTo
<1>4. CASE Prepare
  <2>1. todo = args /\ UNCHANGED <<todo, failed>> /\ step \in {"arguments", "base", "tool"}
    BY <1>1, <1>4 DEF Prepare, Faithful
  <2>2. Done = {} /\ Done' = {}
    BY <1>2, <1>4, <2>1 DEF Prepare, Done
  <2>3. step' = "end" => exit' = Deserved'
    BY <1>1, <1>2, <1>4 DEF Prepare, Deserved, Faithful
  <2> QED
    BY <1>1, <1>2, <1>4, <2>1, <2>2, <2>3 DEF Prepare, Faithful
<1>5. CASE MakeWorkDir
  <2>1. step = "mktemp" /\ step' = "loop" /\ UNCHANGED <<todo, failed, crd>>
    BY <1>5 DEF MakeWorkDir
  <2>2. Done' = Done /\ todo = args
    BY <1>1, <1>2, <2>1 DEF Done, Faithful
  <2> QED
    BY <1>1, <1>2, <1>3, <2>1, <2>2 DEF Faithful
<1>6. ASSUME NEW c \in CRDs, Examine(c) PROVE Faithful'
  <2>1. step = "loop" /\ c \in todo /\ c \in args /\ crd' = c /\ todo' = todo \ {c}
    BY <1>1, <1>6 DEF Examine
  <2>2. /\ args # {} /\ setting.base /\ setting.tool
        /\ args \ todo \subseteq atBase \cup inTree
        /\ failed = 1 <=> \E d \in args \ todo : BreaksAPI(d)
    BY <1>1, <2>1 DEF Faithful, Done
  <2>3. args' \ todo' = (args \ todo) \cup {c}
    BY <1>2, <2>1
  <2>4. \/ c \notin inTree /\ c \notin atBase /\ step' = "end" /\ exit' = 2 /\ UNCHANGED failed
        \/ c \notin inTree /\ c \in atBase /\ failed' = 1 /\ step' = "loop"
        \/ c \in inTree /\ c \notin atBase /\ step' = "loop" /\ UNCHANGED failed
        \/ c \in inTree /\ c \in atBase /\ step' = "fetch" /\ UNCHANGED failed
    <3>1. PICK found \in BOOLEAN :
            /\ FoundAtBase(c, found)
            /\ \/ c \notin inTree /\ ~found /\ Exit(2) /\ UNCHANGED <<failed, reported>>
               \/ c \notin inTree /\ found /\ Removed(c) /\ GoTo("loop")
               \/ c \in inTree /\ ~found /\ GoTo("loop") /\ UNCHANGED <<failed, reported>>
               \/ c \in inTree /\ found /\ GoTo("fetch") /\ UNCHANGED <<failed, reported>>
      BY <1>6 DEF Examine
    <3>2. found = (c \in atBase)
      BY <3>1 DEF FoundAtBase
    <3> QED
      BY <3>1, <3>2 DEF Removed
  <2>5. CASE step' = "end"
    <3>1. exit' = Deserved'
      BY <1>3, <2>1, <2>2, <2>4, <2>5 DEF Deserved
    <3>2. ~BreaksAPI(c) /\ UNCHANGED failed /\ Done' = (args \ todo) \cup {c}
      BY <1>1, <2>3, <2>4, <2>5 DEF BreaksAPI, RemovedFromTree, Done
    <3>3. failed' = 1 <=> \E d \in Done' : BreaksAPI(d)'
      BY <1>3, <2>2, <3>2
    <3> QED
      BY <2>5, <3>1, <3>3 DEF Faithful
  <2>6. CASE step' = "loop"
    <3>1. Done' = (args \ todo) \cup {c}
      BY <2>3, <2>6 DEF Done
    <3>2. BreaksAPI(c) <=> c \notin inTree
      BY <1>1, <2>4, <2>6 DEF BreaksAPI, RemovedFromTree
    <3>3. failed' = 1 <=> \E d \in Done' : BreaksAPI(d)'
      BY <1>3, <2>2, <2>4, <2>6, <3>1, <3>2
    <3> QED
      BY <1>2, <2>2, <2>3, <2>4, <2>6, <3>3 DEF Faithful
  <2>7. CASE step' = "fetch"
    <3>1. Done' = args \ todo
      BY <2>1, <2>3, <2>7 DEF Done
    <3>2. failed' = 1 <=> \E d \in Done' : BreaksAPI(d)'
      BY <1>3, <2>2, <2>4, <2>7, <3>1
    <3> QED
      BY <1>2, <2>1, <2>2, <2>3, <2>4, <2>7, <3>2 DEF Faithful
  <2> QED
    BY <2>4, <2>5, <2>6, <2>7
<1>7. CASE FetchBase
  <2>1. step = "fetch" /\ step' = "compare" /\ UNCHANGED <<todo, failed, crd>>
    BY <1>7 DEF FetchBase
  <2>2. Done' = Done
    BY <1>2, <2>1 DEF Done
  <2> QED
    BY <1>1, <1>2, <1>3, <2>1, <2>2 DEF Faithful
<1>8. CASE Compare
  <2>1. /\ step = "compare" /\ step' = "loop" /\ UNCHANGED <<todo, crd>>
        /\ crd \in broken => failed' = 1
        /\ crd \notin broken => UNCHANGED failed
    BY <1>8 DEF Compare
  <2>2. Done = (args \ todo) \ {crd} /\ Done' = Done \cup {crd}
    BY <1>1, <1>2, <2>1 DEF Done, Faithful
  <2>3. BreaksAPI(crd) <=> crd \in broken
    BY <1>1, <2>1 DEF Faithful, BreaksAPI, RemovedFromTree
  <2>4. failed' = 1 <=> \E d \in Done' : BreaksAPI(d)'
    BY <1>1, <1>3, <2>1, <2>2, <2>3 DEF Faithful
  <2> QED
    BY <1>1, <1>2, <2>1, <2>4 DEF Faithful
<1>9. CASE Conclude
  <2>1. /\ step = "loop" /\ todo = {} /\ step' = "end" /\ exit' = Verdict
        /\ UNCHANGED <<todo, failed>>
    BY <1>9 DEF Conclude
  <2>2. Done = args /\ Done' = args
    BY <1>2, <2>1 DEF Done
  <2>3. exit' = Deserved'
    BY <1>1, <1>3, <2>1, <2>2 DEF Faithful, Deserved, Verdict
  <2> QED
    BY <1>1, <1>3, <2>1, <2>2, <2>3 DEF Faithful
<1> QED
  BY <1>4, <1>5, <1>6, <1>7, <1>8, <1>9 DEF Next

(* Nothing is claimed once a command has failed.                           *)
LEMMA StepDeserving == Deserving /\ [Next]_vars => Deserving'
<1>1. ASSUME Deserving, UNCHANGED vars PROVE Deserving'
  BY <1>1 DEF vars, inputs, Deserving, Faithful, Done, BreaksAPI, RemovedFromTree, Deserved
<1>2. ASSUME Deserving, Next PROVE Deserving'
  <2>1. /\ UNCHANGED inputs /\ faults \in Nat
        /\ todo' \subseteq todo /\ failed' \in {0, 1} /\ step' \in Steps
        /\ (faults' = faults \/ faults' = faults + 1)
    BY <1>2, StepCounts DEF Deserving
  <2>2. faults' \in Nat /\ (faults' = 0 => faults = 0)
    BY <2>1
  <2>3. faults' = 0 => Faithful'
    BY <1>2, <2>2, StepFaithful
  <2> QED
    BY <1>2, <2>1, <2>2, <2>3 DEF Deserving, inputs
<1> QED
  BY <1>1, <1>2

LEMMA InitDeserving == Init => Deserving
<1> SUFFICES ASSUME Init PROVE Deserving
  OBVIOUS
<1>1. /\ step = "arguments" /\ todo = args /\ failed = 0 /\ faults = 0
      /\ broken \subseteq atBase \cap inTree
  BY DEF Init
<1>2. Done = {}
  BY <1>1 DEF Done
<1> QED
  BY <1>1, <1>2 DEF Deserving, Faithful, Steps

(* A run in which every command worked ends with the status the CRDs and   *)
(* the setting deserve, for any CRDs in any order.                         *)
THEOREM VerdictIsDeservedAlways == Spec => []VerdictIsDeserved
<1>1. Deserving => VerdictIsDeserved
  BY DEF Deserving, Faithful, VerdictIsDeserved
<1> QED
  BY <1>1, InitDeserving, StepDeserving, PTL DEF Spec

-----------------------------------------------------------------------------
(* ExampleGate, for any set of files and any number of failures: the loop  *)
(* keeps every enumerated file among those to do, the validated, the       *)
(* failed and the skipped, and the verdict is taken when none is left.     *)

(* Every file the run enumerated is somewhere.                             *)
Accounted == manifests \subseteq exTodo \cup validated \cup failures \cup skipped

(* A run that ended with status 0 has come to the last file.               *)
CameToTheEnd == exExit = 0 => exTodo = {} /\ failures = {} /\ validated # {}

Account == Examples!TypeOK /\ Accounted /\ CameToTheEnd

(* The invariant holds before the script's first command.                  *)
LEMMA InitAccounts == Examples!Init => Account
  BY FaultsAssumption
  DEF Examples!Init, Account, Examples!TypeOK, Accounted, CameToTheEnd, Examples!Running

(* Every step of the script keeps it.                                      *)
LEMMA StepAccounts == Account /\ [Examples!Next]_(Examples!vars) => Account'
<1> SUFFICES ASSUME Account, [Examples!Next]_(Examples!vars) PROVE Account'
  OBVIOUS
<1> USE FaultsAssumption DEF Account, Examples!TypeOK, Accounted, CameToTheEnd, Examples!inputs,
                             Examples!Fault, Examples!Exit, Examples!GoTo, Examples!Running
<1>1. CASE Examples!Prepare
  BY <1>1 DEF Examples!Prepare
<1>2. CASE Examples!Enumerate
  <2>1. PICK listed \in SUBSET examples :
          /\ Examples!Found(listed)
          /\ manifests' = listed
          /\ exTodo' = listed
          /\ IF listed = {} THEN Examples!Exit(1) ELSE Examples!GoTo("validate")
    BY <1>2 DEF Examples!Enumerate
  <2>2. exFaults' \in 0..MaxFaults
    BY <2>1 DEF Examples!Found
  <2>3. exExit' # 0 /\ (exStep' = "end" <=> exExit' # 999)
        /\ exStep' \in {"validate", "end"} /\ exExit' \in {999, 1}
    BY <1>2, <2>1 DEF Examples!Enumerate
  <2> QED
    BY <1>2, <2>1, <2>2, <2>3 DEF Examples!Enumerate
<1>3. ASSUME NEW f \in Files, Examples!SkipManifest(f) PROVE Account'
  BY <1>3 DEF Examples!SkipManifest
<1>4. ASSUME NEW f \in Files, Examples!Validate(f) PROVE Account'
  <2>1. exExit # 0 /\ f \in examples \ excluded /\ exTodo' = exTodo \ {f}
        /\ UNCHANGED <<Examples!inputs, exStep, manifests, skipped, exExit>>
    BY <1>4 DEF Examples!Validate
  <2>2. CASE Examples!Accepted(f) /\ validated' = validated \cup {f} /\ UNCHANGED failures
    BY <2>1, <2>2 DEF Examples!Accepted
  <2>3. CASE Examples!Rejected(f) /\ failures' = failures \cup {f} /\ UNCHANGED validated
    BY <2>1, <2>3 DEF Examples!Rejected
  <2> QED
    BY <1>4, <2>2, <2>3 DEF Examples!Validate
<1>5. CASE Examples!Conclude
  BY <1>5 DEF Examples!Conclude, Examples!Verdict
<1>6. CASE UNCHANGED Examples!vars
  BY <1>6 DEF Examples!vars
<1> QED
  BY <1>1, <1>2, <1>3, <1>4, <1>5, <1>6 DEF Examples!Next

LEMMA AccountMeansWork == Account => Examples!PassMeansWork
BY DEF Account, Examples!TypeOK, Accounted, CameToTheEnd, Examples!PassMeansWork

(* Whatever fails, a run that passes has validated something, and every    *)
(* file it enumerated is excluded or was accepted by the server.           *)
THEOREM PassMeansWorkAlways == Examples!Spec => []Examples!PassMeansWork
BY AccountMeansWork, InitAccounts, StepAccounts, PTL DEF Examples!Spec

-----------------------------------------------------------------------------
(* Checks: what composes the two scripts.  The variables of a run; a label *)
(* is read or not whatever the scripts do.                                 *)
RunType ==
    /\ event \in {"pull_request", "push"} /\ ignorable \in BOOLEAN /\ label \in BOOLEAN
    /\ noop \in BOOLEAN /\ succeeded \in BOOLEAN /\ gatePassed \in BOOLEAN
    /\ verified \subseteq {"pull_request", "push"}
    /\ result \in [Jobs -> {"waiting", "running", "success", "failure", "cancelled", "skipped"}]
    /\ required \in {"waiting", "success", "failure"}
    /\ runs \in 1 .. MaxRuns

(* What an ending job leaves alone.                                        *)
LEMMA EndsTyped ==
    ASSUME RunType, NEW j \in Jobs,
           NEW outcome \in {"running", "success", "failure", "skipped"},
           Ends(j, outcome), noop' \in BOOLEAN, gatePassed' \in BOOLEAN
    PROVE  RunType'
BY DEF RunType, Ends

LEMMA JobsAreNamed ==
    /\ DetectNoop \in Jobs /\ Report \in Jobs /\ Renovate \in Jobs
    /\ ExamplesJob \in Jobs /\ Publish \in Jobs /\ BuildJobs \subseteq Jobs
    /\ \A j \in BuildJobs : j \notin NamedJobs
BY JobsAssumption DEF Jobs, NamedJobs

LEMMA StepRunType == RunType /\ [CINext]_ciVars => RunType'
<1> SUFFICES ASSUME RunType, [CINext]_ciVars PROVE RunType'
  OBVIOUS
<1>1. ASSUME NEW j \in Jobs, SkipJob(j) \/ RunJob(j) PROVE RunType'
  BY <1>1, EndsTyped DEF SkipJob, RunJob, RunType
<1>2. CASE DetectNoopChanges
  <2>1. noop' \in BOOLEAN /\ gatePassed' \in BOOLEAN /\ \E outcome \in {"success", "failure"} : Ends(DetectNoop, outcome)
    BY <1>2 DEF DetectNoopChanges, RunType
  <2> QED
    BY <2>1, EndsTyped, JobsAreNamed
<1>3. CASE PublishArtifacts
  BY <1>3, EndsTyped, JobsAreNamed DEF PublishArtifacts, RunType
<1>4. CASE StartReport \/ ReportWithoutScript \/ FinishReport
  BY <1>4, EndsTyped, JobsAreNamed DEF StartReport, ReportWithoutScript, FinishReport, RunType
<1>5. CASE StartExamples \/ FinishExamples
  BY <1>5, EndsTyped, JobsAreNamed DEF StartExamples, FinishExamples, RunType
<1>6. CASE ReportStep \/ ExamplesStep
  BY <1>6 DEF ReportStep, ExamplesStep, run, RunType
<1>7. CASE Aggregate \/ CancelRun
  BY <1>7 DEF Aggregate, CancelRun, RunType
<1>8. CASE NewRun \/ Rerun
  <2>1. runs' \in 1 .. MaxRuns /\ required' = "waiting"
    BY <1>8, JobsAssumption DEF NewRun, Rerun, Another, RunType
  <2>2. result' \in [Jobs -> {"waiting", "running", "success", "failure", "cancelled", "skipped"}]
    BY <1>8 DEF NewRun, Rerun, RunType
  <2> QED
    BY <1>8, <2>1, <2>2 DEF NewRun, Rerun, RunType
<1>9. CASE SetLabel
  BY <1>9 DEF SetLabel, RunType
<1>10. CASE UNCHANGED ciVars
  BY <1>10 DEF ciVars, run, RunType
<1> QED
  BY <1>1, <1>2, <1>3, <1>4, <1>5, <1>6, <1>7, <1>8, <1>9, <1>10 DEF CINext

LEMMA InitRunType == CIInit => RunType
<1> SUFFICES ASSUME CIInit PROVE RunType
  OBVIOUS
<1>1. /\ label \in BOOLEAN /\ noop \in BOOLEAN /\ succeeded \in BOOLEAN
      /\ gatePassed \in BOOLEAN /\ verified = {}
  BY DEF CIInit
<1>2. /\ event \in {"pull_request", "push"} /\ ignorable \in BOOLEAN
      /\ result = [j \in Jobs |-> "waiting"] /\ required = "waiting" /\ runs = 1
  BY DEF CIInit
<1> QED
  BY <1>1, <1>2, JobsAssumption DEF RunType

-----------------------------------------------------------------------------
(* For a script every step of the workflow is a step of its own, a fresh   *)
(* start, or nothing.                                                      *)
LEMMA LoadReportStarts ==
    ASSUME NEW a \in SUBSET CRDs, NEW b \in SUBSET CRDs, NEW t \in SUBSET CRDs,
           NEW k \in SUBSET (b \cap t),
           NEW s \in [base : BOOLEAN, tool : BOOLEAN, accept : BOOLEAN],
           LoadReport(a, b, t, k, s)
    PROVE  Init'
BY DEF LoadReport, Init

LEMMA ReportScript == RunType /\ [CINext]_ciVars => [Next]_vars \/ Init'
<1> SUFFICES ASSUME RunType, [CINext]_ciVars PROVE [Next]_vars \/ Init'
  OBVIOUS
<1>1. CASE StartReport
  BY <1>1, LoadReportStarts DEF StartReport, RunType
<1>2. CASE FinishReport \/ CancelRun
  BY <1>2, LoadReportStarts DEF FinishReport, CancelRun, NoSetting
<1>3. CASE ReportStep
  BY <1>3 DEF ReportStep
<1>4. ASSUME NEW j \in Jobs, SkipJob(j) \/ RunJob(j) PROVE UNCHANGED vars
  BY <1>4 DEF SkipJob, RunJob, Scripts
<1>5. CASE DetectNoopChanges \/ PublishArtifacts \/ ReportWithoutScript
  BY <1>5 DEF DetectNoopChanges, PublishArtifacts, ReportWithoutScript, Scripts
<1>6. CASE StartExamples \/ ExamplesStep \/ FinishExamples
  BY <1>6 DEF StartExamples, ExamplesStep, FinishExamples
<1>7. CASE Aggregate \/ NewRun \/ Rerun \/ SetLabel
  BY <1>7 DEF Aggregate, NewRun, Rerun, SetLabel, Scripts
<1>8. CASE UNCHANGED ciVars
  BY <1>8 DEF ciVars
<1> QED
  BY <1>1, <1>2, <1>3, <1>4, <1>5, <1>6, <1>7, <1>8 DEF CINext

LEMMA LoadExamplesStarts ==
    ASSUME NEW fs \in SUBSET Files, NEW ex \in SUBSET fs, NEW ok \in SUBSET fs,
           LoadExamples(fs, ex, ok)
    PROVE  Examples!Init'
BY DEF LoadExamples, Examples!Init, Running, Examples!Running

LEMMA ExamplesScript ==
    [CINext]_ciVars => [Examples!Next]_(Examples!vars) \/ Examples!Init'
<1> SUFFICES ASSUME [CINext]_ciVars PROVE [Examples!Next]_(Examples!vars) \/ Examples!Init'
  OBVIOUS
<1>1. CASE StartExamples
  BY <1>1, LoadExamplesStarts DEF StartExamples
<1>2. CASE FinishExamples \/ CancelRun
  BY <1>2, LoadExamplesStarts DEF FinishExamples, CancelRun
<1>3. CASE ExamplesStep
  BY <1>3 DEF ExamplesStep
<1>4. UNCHANGED exVars => UNCHANGED Examples!vars
  BY DEF exVars, Examples!vars, Examples!inputs
<1>5. ASSUME NEW j \in Jobs, SkipJob(j) \/ RunJob(j) PROVE UNCHANGED exVars
  BY <1>5 DEF SkipJob, RunJob, Scripts
<1>6. CASE DetectNoopChanges \/ PublishArtifacts \/ ReportWithoutScript
  BY <1>4, <1>6 DEF DetectNoopChanges, PublishArtifacts, ReportWithoutScript, Scripts
<1>7. CASE StartReport \/ ReportStep \/ FinishReport
  BY <1>4, <1>7 DEF StartReport, ReportStep, FinishReport
<1>8. CASE Aggregate \/ NewRun \/ Rerun \/ SetLabel
  BY <1>4, <1>8 DEF Aggregate, NewRun, Rerun, SetLabel, Scripts
<1>9. CASE UNCHANGED ciVars
  BY <1>4, <1>9 DEF ciVars
<1> QED
  BY <1>1, <1>2, <1>3, <1>4, <1>5, <1>6, <1>7, <1>8, <1>9 DEF CINext

LEMMA CIInitStarts == CIInit => Init /\ Examples!Init
BY DEF CIInit, Init, Examples!Init, NoSetting, Examples!Running, Running

(* Where no script runs in CI, it is as it starts: so what the scripts     *)
(* keep on their own they keep as jobs.                                    *)
LEMMA InitTypedNext == Init' => Typed'
BY InitTyped, PTL

LEMMA InitAccountsNext == Examples!Init' => Account'
BY InitAccounts, PTL

LEMMA InitClosedNext == Init' => Closed'
BY InitClosed, PTL

LEMMA InitDeservingNext == Init' => Deserving'
BY InitDeserving, PTL

(* The variables of a run and of both scripts stay in their types.         *)
THEOREM CITypeAlways == CISpec => []CIType
<1>1. CIInit => RunType /\ Typed /\ Account
  BY InitRunType, InitTyped, InitAccounts, CIInitStarts
<1>2. RunType /\ [CINext]_ciVars => RunType'
  BY StepRunType
<1>3. RunType /\ Typed /\ [CINext]_ciVars => Typed'
  BY ReportScript, StepTyped, InitTypedNext
<1>4. Account /\ [CINext]_ciVars => Account'
  BY ExamplesScript, StepAccounts, InitAccountsNext
<1>5. RunType /\ Typed /\ Account => CIType
  BY DEF RunType, Typed, Account, CIType
<1> QED
  BY <1>1, <1>2, <1>3, <1>4, <1>5, PTL DEF CISpec

(* The example gate only passes in CI when it accepted a manifest and      *)
(* rejected none it listed, in whatever run or re-run.                     *)
THEOREM ExamplesPassMeansWorkAlways == CISpec => []ExamplesPassMeansWork
<1>1. CIInit => Account
  BY InitAccounts, CIInitStarts
<1>2. Account /\ [CINext]_ciVars => Account'
  BY ExamplesScript, StepAccounts, InitAccountsNext
<1>3. Account => ExamplesPassMeansWork
  BY AccountMeansWork DEF ExamplesPassMeansWork
<1> QED
  BY <1>1, <1>2, <1>3, PTL DEF CISpec

(* As a job of CI the breaking-change gate fails closed under the same     *)
(* assumption as on its own, whatever label is set or taken away when.     *)
THEOREM FailsClosedInCI ==
    ASSUME "lookup" \notin Failing
    PROVE  CISpec => [](PassIsChecked /\ AcceptedIsPrinted)
<1>1. CIInit => RunType /\ Closed
  BY InitRunType, InitClosed, CIInitStarts
<1>2. RunType /\ [CINext]_ciVars => RunType'
  BY StepRunType
<1>3. RunType /\ Closed /\ [CINext]_ciVars => Closed'
  BY ReportScript, StepClosed, InitClosedNext
<1>4. Closed => PassIsChecked /\ AcceptedIsPrinted
  BY ClosedIsChecked, ClosedIsPrinted
<1> QED
  BY <1>1, <1>2, <1>3, <1>4, PTL DEF CISpec

(* And, if its commands work, gives the verdict its CRDs and the label     *)
(* deserve, without any assumption.                                        *)
THEOREM VerdictIsDeservedInCI == CISpec => []VerdictIsDeserved
<1>1. CIInit => RunType /\ Deserving
  BY InitRunType, InitDeserving, CIInitStarts
<1>2. RunType /\ [CINext]_ciVars => RunType'
  BY StepRunType
<1>3. RunType /\ Deserving /\ [CINext]_ciVars => Deserving'
  BY ReportScript, StepDeserving, InitDeservingNext
<1>4. Deserving => VerdictIsDeserved
  BY DEF Deserving, Faithful, VerdictIsDeserved
<1> QED
  BY <1>1, <1>2, <1>3, <1>4, PTL DEF CISpec

-----------------------------------------------------------------------------
(* What a skipped job shows: there was nothing to do, or something it      *)
(* needs was not a success.                                                *)
SkippedForCause ==
    \A j \in Jobs : result[j] = "skipped" =>
        noop \/ \E n \in Needs(j) : Broke(n) \/ result[n] = "skipped"

(* Nothing to do is what this attempt's detection has said, of a change    *)
(* that touches nothing that counts or of a tree that a run has been over. *)
NoopIsKnown == noop => result[DetectNoop] = "success" /\ (ignorable \/ succeeded)

(* In a pull request the job of the gate is a success of the script.       *)
PassedByScript == event = "pull_request" /\ result[Report] = "success" => gatePassed

Verified == verified # {} /\ ("push" \notin verified => gatePassed)

Green ==
    /\ SkippedForCause /\ NoopIsKnown /\ PassedByScript
    /\ verified # {} => Verified
    /\ succeeded => Verified \/ ignorable
    /\ GreenIsVerified

LEMMA NeedsAreJobs == \A j \in Jobs : Needs(j) \subseteq Jobs
BY JobsAreNamed DEF Needs

(* Without a failure, and with something to do, nothing is skipped: the    *)
(* needs of a job are at most two deep.                                    *)
LEMMA SkipsHaveARoot ==
    ASSUME Green, ~noop, \A j \in Jobs : ~Broke(j)
    PROVE  \A j \in Jobs : result[j] # "skipped"
<1>1. \A j \in Jobs : result[j] = "skipped" => \E n \in Needs(j) : result[n] = "skipped"
  BY NeedsAreJobs DEF Green, SkippedForCause
<1>2. \A j \in {DetectNoop, Renovate} : result[j] # "skipped"
  BY <1>1, JobsAreNamed DEF Needs
<1>3. \A j \in Jobs \ {Publish} : result[j] # "skipped"
  <2>1. \A j \in Jobs \ {Publish} : Needs(j) \subseteq {DetectNoop}
    BY DEF Needs
  <2> QED
    BY <1>1, <1>2, <2>1
<1>4. Publish \notin Needs(Publish)
  BY JobsAreNamed DEF Needs, NamedJobs, Publish, DetectNoop, Report, Renovate
<1> QED
  BY <1>1, <1>3, <1>4, NeedsAreJobs

(* A job whose turn has come is not one it needs, and what it needs stays  *)
(* as it is when it ends.                                                  *)
LEMMA EndsGreen ==
    ASSUME RunType, Green, NEW j \in Jobs, NEW outcome, Ends(j, outcome),
           result[j] \in {"waiting", "running"},
           outcome = "skipped" => \/ noop
                                  \/ \E n \in Needs(j) : Broke(n) \/ result[n] = "skipped",
           j = DetectNoop => NoopIsKnown' /\ ~noop,
           j # DetectNoop => noop' = noop,
           gatePassed => gatePassed',
           PassedByScript'
    PROVE  Green'
<1>1. result' = [result EXCEPT ![j] = outcome]
      /\ UNCHANGED <<event, ignorable, required, succeeded, verified>>
  BY DEF Ends
<1>2. \A i \in Jobs : i # j => result'[i] = result[i]
  BY <1>1 DEF RunType
<1>3. result'[j] = outcome
  BY <1>1 DEF RunType
<1>4. noop => noop'
  OBVIOUS
<1>5. SkippedForCause'
  <2> SUFFICES ASSUME NEW i \in Jobs, result'[i] = "skipped", ~noop
               PROVE  \E n \in Needs(i) : result'[n] \in {"failure", "cancelled", "skipped"}
    BY <1>4 DEF SkippedForCause, Needs, Broke
  <2>1. PICK n \in Needs(i) : result[n] \in {"failure", "cancelled", "skipped"}
    BY <1>2, <1>3 DEF Green, SkippedForCause, Broke
  <2> QED
    BY <1>2, <2>1, NeedsAreJobs
<1>6. NoopIsKnown'
  BY <1>1, <1>2, JobsAreNamed DEF Green, NoopIsKnown
<1>7. Verified => Verified'
  BY <1>1 DEF Verified
<1> QED
  BY <1>1, <1>5, <1>6, <1>7 DEF Green, GreenIsVerified, Verified

LEMMA StepGreen == RunType /\ Green /\ [CINext]_ciVars => Green'
<1> SUFFICES ASSUME RunType, Green, [CINext]_ciVars PROVE Green'
  OBVIOUS
<1>1. ASSUME NEW j \in Jobs, SkipJob(j) PROVE Green'
  <2>1. /\ Needs(j) # {} /\ Ends(j, "skipped") /\ result[j] = "waiting"
        /\ UNCHANGED <<noop, gatePassed>>
        /\ noop \/ \E n \in Needs(j) : Broke(n) \/ result[n] = "skipped"
    BY <1>1 DEF SkipJob, Turn, Ready, Condition, Over, Broke
  <2>2. j # DetectNoop
    BY <2>1 DEF Needs
  <2>3. PassedByScript'
    BY <2>1, JobsAreNamed DEF Ends, RunType, Green, PassedByScript
  <2> QED
    BY <2>1, <2>2, <2>3, EndsGreen
<1>2. ASSUME NEW j \in Jobs, RunJob(j) PROVE Green'
  <2>1. /\ j \in BuildJobs \cup {Renovate} /\ result[j] = "waiting"
        /\ UNCHANGED <<noop, gatePassed>>
        /\ \E outcome \in {"success", "failure"} : Ends(j, outcome)
    BY <1>2 DEF RunJob, Turn, Ready
  <2>2. j # DetectNoop /\ j # Report
    BY <2>1, JobsAreNamed DEF NamedJobs, DetectNoop, Renovate, Report
  <2>3. PassedByScript'
    BY <2>1, <2>2, JobsAreNamed DEF Ends, RunType, Green, PassedByScript
  <2> QED
    BY <2>1, <2>2, <2>3, EndsGreen
<1>3. CASE DetectNoopChanges
  <2>1. PICK outcome \in {"success", "failure"} :
          /\ Ends(DetectNoop, outcome)
          /\ \/ outcome = "success" /\ noop' = (event = "pull_request" /\ (ignorable \/ succeeded))
             \/ outcome = "failure" /\ noop' = noop
    BY <1>3 DEF DetectNoopChanges
  <2>2. result[DetectNoop] = "waiting" /\ ~noop /\ gatePassed' = gatePassed
    BY <1>3 DEF DetectNoopChanges, Turn, Ready, Green, NoopIsKnown
  <2>3. result'[DetectNoop] = outcome /\ UNCHANGED <<event, ignorable, succeeded>>
    BY <2>1, JobsAreNamed DEF Ends, RunType
  <2>4. NoopIsKnown'
    BY <2>1, <2>2, <2>3 DEF NoopIsKnown
  <2>5. PassedByScript'
    BY <2>1, <2>2, JobsAreNamed DEF Ends, RunType, Green, PassedByScript, DetectNoop, Report
  <2> QED
    BY <2>1, <2>2, <2>4, <2>5, JobsAreNamed, EndsGreen
<1>4. CASE PublishArtifacts \/ StartExamples \/ FinishExamples
  <2>1. PICK j \in {Publish, ExamplesJob} :
          /\ UNCHANGED <<noop, gatePassed>> /\ result[j] \in {"waiting", "running"}
          /\ \E outcome \in {"success", "failure", "running"} : Ends(j, outcome)
    BY <1>4 DEF PublishArtifacts, StartExamples, FinishExamples, Turn, Ready
  <2>2. j # DetectNoop /\ j # Report /\ j \in Jobs
    BY <2>1, JobsAreNamed DEF DetectNoop, Publish, Report, ExamplesJob
  <2>3. PassedByScript'
    BY <2>1, <2>2, JobsAreNamed DEF Ends, RunType, Green, PassedByScript
  <2> QED
    BY <2>1, <2>2, <2>3, EndsGreen
<1>5. CASE StartReport \/ ReportWithoutScript \/ FinishReport
  <2>1. PICK outcome \in {"success", "failure", "running"} :
          /\ Ends(Report, outcome)
          /\ outcome = "success" => event # "pull_request" \/ gatePassed'
    BY <1>5 DEF StartReport, ReportWithoutScript, FinishReport
  <2>2. /\ noop' = noop /\ result[Report] \in {"waiting", "running"}
        /\ gatePassed => gatePassed'
    <3>1. noop' = noop /\ result[Report] \in {"waiting", "running"}
      BY <1>5 DEF StartReport, ReportWithoutScript, FinishReport, Turn, Ready
    <3>2. gatePassed' = gatePassed \/ gatePassed' = (gatePassed \/ exit = 0)
      BY <1>5 DEF StartReport, ReportWithoutScript, FinishReport
    <3>3. gatePassed => gatePassed'
      BY <3>2, Zenon DEF RunType
    <3> QED
      BY <3>1, <3>3
  <2>3. Report # DetectNoop
    BY DEF DetectNoop, Report
  <2>4. PassedByScript'
    BY <2>1, JobsAreNamed DEF Ends, RunType, PassedByScript
  <2> QED
    BY <2>1, <2>2, <2>3, <2>4, JobsAreNamed, EndsGreen
<1>6. CASE ReportStep \/ ExamplesStep \/ SetLabel \/ UNCHANGED ciVars
  <2>1. UNCHANGED <<event, result, noop, ignorable, required, succeeded, verified, gatePassed>>
    BY <1>6 DEF ReportStep, ExamplesStep, SetLabel, ciVars, run
  <2> QED
    BY <2>1 DEF Green, GreenIsVerified, Verified, PassedByScript, NoopIsKnown,
                SkippedForCause, Needs, Broke
<1>7. CASE Aggregate
  <2>1. UNCHANGED <<event, result, noop, ignorable, gatePassed>> /\ \A j \in Jobs : Over(j)
    BY <1>7 DEF Aggregate
  <2>2. /\ (succeeded' => succeeded \/ \A j \in Jobs : ~Broke(j))
        /\ verified' = verified \cup IF \A j \in Jobs : result[j] = "success" THEN {event} ELSE {}
        /\ (required' = "success" => \A j \in Jobs : ~Broke(j))
    BY <1>7 DEF Aggregate, Aggregated
  <2>3. verified' # {} => Verified'
    <3>1. CASE \A j \in Jobs : result[j] = "success"
      <4>1. verified' = verified \cup {event} /\ gatePassed' = gatePassed
        BY <2>1, <2>2, <3>1
      <4>2. event = "push" \/ gatePassed
        BY <3>1, JobsAreNamed DEF Green, PassedByScript, RunType
      <4> QED
        BY <4>1, <4>2 DEF Verified
    <3>2. CASE ~\A j \in Jobs : result[j] = "success"
      <4>1. verified' = verified /\ gatePassed' = gatePassed
        BY <2>1, <2>2, <3>2
      <4> QED
        BY <4>1 DEF Green, Verified
    <3> QED
      BY <3>1, <3>2
  <2>4. verified # {} => verified' # {}
    BY <2>2
  <2>5. (\A j \in Jobs : ~Broke(j)) => Verified' \/ ignorable
    <3> SUFFICES ASSUME \A j \in Jobs : ~Broke(j) PROVE verified' # {} \/ ignorable
      BY <2>3
    <3>1. CASE noop
      BY <2>4, <3>1 DEF Green, NoopIsKnown, Verified
    <3>2. CASE ~noop
      <4>1. \A j \in Jobs : result[j] = "success"
        BY <2>1, <3>2, SkipsHaveARoot DEF Over, Broke
      <4> QED
        BY <2>2, <4>1
    <3> QED
      BY <3>1, <3>2
  <2>6. SkippedForCause' /\ NoopIsKnown' /\ PassedByScript'
    <3>1. succeeded => succeeded'
      BY <1>7, Zenon DEF Aggregate
    <3>2. noop' = noop /\ ignorable' = ignorable /\ result' = result
      BY <2>1
    <3>3. NoopIsKnown'
      BY <3>1, <3>2 DEF Green, NoopIsKnown
    <3> QED
      BY <2>1, <3>3 DEF Green, SkippedForCause, PassedByScript, Needs, Broke
  <2>7. succeeded' => Verified' \/ ignorable'
    <3>1. CASE succeeded
      <4>1. verified # {} \/ ignorable
        BY <3>1 DEF Green, Verified
      <4> QED
        BY <2>1, <2>3, <2>4, <4>1
    <3>2. CASE ~succeeded
      BY <2>1, <2>2, <2>5, <3>2
    <3> QED
      BY <3>1, <3>2
  <2>8. GreenIsVerified'
    BY <2>1, <2>2, <2>5 DEF GreenIsVerified, Verified
  <2> QED
    BY <2>3, <2>6, <2>7, <2>8 DEF Green
<1>8. CASE NewRun
  <2>1. /\ ~noop' /\ required' = "waiting"
        /\ UNCHANGED <<ignorable, succeeded, verified, gatePassed>>
        /\ \A j \in Jobs : result'[j] = "waiting"
    BY <1>8 DEF NewRun, Another
  <2> QED
    BY <2>1, JobsAreNamed
    DEF Green, GreenIsVerified, Verified, NoopIsKnown, SkippedForCause, PassedByScript
<1>9. CASE Rerun
  <2>1. /\ required' = "waiting"
        /\ UNCHANGED <<event, noop, ignorable, succeeded, verified, gatePassed>>
    BY <1>9 DEF Rerun, Another
  <2>2. \A j \in Jobs :
          \/ result'[j] = "waiting" /\ (Broke(j) \/ ~noop)
          \/ result'[j] = result[j] /\ ~Broke(j) /\ (result[j] = "skipped" => noop)
    BY <1>9 DEF Rerun
  <2>3. SkippedForCause'
    BY <2>1, <2>2 DEF SkippedForCause
  <2>4. NoopIsKnown'
    BY <2>1, <2>2, JobsAreNamed DEF Green, NoopIsKnown, Broke
  <2>5. PassedByScript'
    BY <2>1, <2>2, JobsAreNamed DEF Green, PassedByScript
  <2> QED
    BY <2>1, <2>3, <2>4, <2>5 DEF Green, GreenIsVerified, Verified
<1>10. CASE CancelRun
  <2>1. UNCHANGED <<event, noop, ignorable, required, succeeded, verified, gatePassed>>
    BY <1>10 DEF CancelRun
  <2>2. \A j \in Jobs :
          \/ result'[j] = "cancelled" /\ result[j] \in {"waiting", "running"}
          \/ result'[j] = result[j]
    BY <1>10 DEF CancelRun, Ready
  <2>3. SkippedForCause'
    <3> SUFFICES ASSUME NEW j \in Jobs, result'[j] = "skipped", ~noop
                 PROVE  \E n \in Needs(j) : result'[n] \in {"failure", "cancelled", "skipped"}
      BY <2>1 DEF SkippedForCause, Needs, Broke
    <3>1. PICK n \in Needs(j) : result[n] \in {"failure", "cancelled", "skipped"}
      BY <2>2 DEF Green, SkippedForCause, Broke
    <3> QED
      BY <2>2, <3>1, NeedsAreJobs
  <2>4. NoopIsKnown'
    BY <2>1, <2>2, JobsAreNamed DEF Green, NoopIsKnown
  <2>5. PassedByScript'
    BY <2>1, <2>2, JobsAreNamed DEF Green, PassedByScript
  <2> QED
    BY <2>1, <2>3, <2>4, <2>5 DEF Green, GreenIsVerified, Verified
<1> QED
  BY <1>1, <1>2, <1>3, <1>4, <1>5, <1>6, <1>7, <1>8, <1>9, <1>10 DEF CINext

(* The required check is only green, of a change that touches something    *)
(* that counts, over a tree that every job has passed in one of its runs,  *)
(* and for which the gate's script has passed in a pull request unless a   *)
(* run on a branch was such a one: for any build jobs and any number of    *)
(* runs, cancelled or not, re-runs and labels.                             *)
THEOREM GreenIsVerifiedAlways == CISpec => []GreenIsVerified
<1>1. CIInit => RunType /\ Green
  <2> SUFFICES ASSUME CIInit PROVE Green
    BY InitRunType
  <2>1. /\ ~noop /\ ~succeeded /\ verified = {} /\ required = "waiting"
        /\ \A j \in Jobs : result[j] = "waiting"
    BY DEF CIInit
  <2> QED
    BY <2>1, JobsAreNamed DEF Green, GreenIsVerified, NoopIsKnown, SkippedForCause, PassedByScript
<1>2. RunType /\ [CINext]_ciVars => RunType'
  BY StepRunType
<1>3. RunType /\ Green /\ [CINext]_ciVars => Green'
  BY StepGreen
<1>4. Green => GreenIsVerified
  BY DEF Green
<1> QED
  BY <1>1, <1>2, <1>3, <1>4, PTL DEF CISpec

=============================================================================
