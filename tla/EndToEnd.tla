----------------------------- MODULE EndToEnd -----------------------------
(***************************************************************************)
(* The end-to-end workflow (.github/workflows/e2e.yaml) of one pull        *)
(* request.  Every submitted review is an event with a workflow run of its *)
(* own: a select job decides whether it asks for a test, and an uptest job *)
(* tests the reviewed commit.  The uptest jobs of a pull request are in    *)
(* one concurrency group with cancel-in-progress.  Jobs wait for runners,  *)
(* so the select jobs of two runs may end in either order; commits are     *)
(* pushed and permissions change meanwhile.                                *)
(***************************************************************************)
EXTENDS Naturals, Sequences

CONSTANTS
    Reviewers,
    MaxReviews,  \* bound on the reviews
    MaxPushes,   \* bound on the pushes after the first commit
    MaxChanges   \* bound on the changes of a permission

ASSUME BoundsAssumption == MaxReviews \in Nat /\ MaxPushes \in Nat /\ MaxChanges \in Nat

Commits == 0..MaxPushes

(* The /test-examples line of a review: there is none (the workflow does   *)
(* not even start), it is quoted or has a path outside examples/, or it is *)
(* fine.                                                                   *)
Commands == {"absent", "malformed", "good"}

VARIABLES
    head,     \* the pull request's head
    writers,  \* the reviewers with write or admin permission
    reviews,  \* the events in the order of their submission
    select,   \* per review: "skipped", "waiting", "refused", "requested"
    uptest,   \* per review: "none", "queued", "running", "done", "failed", "cancelled"
    tested,   \* per review: the commit uptest checked out
    changes

vars == <<head, writers, reviews, select, uptest, tested, changes>>

NoCommit == MaxPushes + 1

Init ==
    /\ head = 0
    /\ writers \in SUBSET Reviewers
    /\ reviews = <<>> /\ select = <<>> /\ uptest = <<>> /\ tested = <<>>
    /\ changes = 0

-----------------------------------------------------------------------------
Push ==
    /\ head < MaxPushes
    /\ head' = head + 1
    /\ UNCHANGED <<writers, reviews, select, uptest, tested, changes>>

ChangePermission(w) ==
    /\ changes < MaxChanges
    /\ changes' = changes + 1
    /\ writers' = IF w \in writers THEN writers \ {w} ELSE writers \cup {w}
    /\ UNCHANGED <<head, reviews, select, uptest, tested>>

(* A review is on a commit its author saw, which the head may have left.   *)
(* The event records both.                                                 *)
Submit(w, commit, command) ==
    /\ Len(reviews) < MaxReviews
    /\ commit <= head
    /\ reviews' = Append(reviews,
           [reviewer |-> w, reviewed |-> commit, head |-> head, command |-> command])
    /\ select' = Append(select, IF command = "absent" THEN "skipped" ELSE "waiting")
    /\ uptest' = Append(uptest, "none")
    /\ tested' = Append(tested, NoCommit)
    /\ UNCHANGED <<head, writers, changes>>

(* The checks of the select job, all of them.                              *)
Accepts(r) ==
    /\ reviews[r].reviewer \in writers
    /\ reviews[r].command = "good"
    /\ reviews[r].reviewed = reviews[r].head

Active(r) == uptest[r] \in {"queued", "running"}

(* Mutated form: the group is the workflow's, so every run cancels.        *)
AfterRefusal(r) == [q \in DOMAIN uptest |-> IF Active(q) THEN "cancelled" ELSE uptest[q]]

(* Mutated form: the job is in no concurrency group.                       *)
JoinGroupAlone(r) == [uptest EXCEPT ![r] = "queued"]

(* Mutated form: the run itself is in the group of its job.                *)
JoinOwnGroup(r) ==
    [q \in DOMAIN uptest |-> IF q = r \/ Active(q) THEN "cancelled" ELSE uptest[q]]

(* The job of review r enters the group: it cancels what is in it.         *)
JoinGroup(r) ==
    [q \in DOMAIN uptest |-> IF q = r THEN "queued"
                             ELSE IF Active(q) THEN "cancelled" ELSE uptest[q]]

(* Mutated form: a refused review cancels too.                             *)
RefusedCancels(r) ==
    /\ select[r] = "waiting" /\ ~Accepts(r)
    /\ select' = [select EXCEPT ![r] = "refused"]
    /\ uptest' = AfterRefusal(r)
    /\ UNCHANGED <<head, writers, reviews, tested, changes>>

(* A refusal writes no paths, and the uptest job is skipped.               *)
Refuse(r) ==
    /\ select[r] = "waiting" /\ ~Accepts(r)
    /\ select' = [select EXCEPT ![r] = "refused"]
    /\ UNCHANGED <<head, writers, reviews, uptest, tested, changes>>

Request(r) ==
    /\ select[r] = "waiting" /\ Accepts(r)
    /\ select' = [select EXCEPT ![r] = "requested"]
    /\ uptest' = JoinGroup(r)
    /\ UNCHANGED <<head, writers, reviews, tested, changes>>

(* Mutated form: the checkout takes the head of the pull request.          *)
HeadNow(r) == head

(* The commit the uptest job checks out.                                   *)
CheckedOut(r) == reviews[r].reviewed

Run(r) ==
    /\ uptest[r] = "queued"
    /\ uptest' = [uptest EXCEPT ![r] = "running"]
    /\ tested' = [tested EXCEPT ![r] = CheckedOut(r)]
    /\ UNCHANGED <<head, writers, reviews, select, changes>>

(* A path without manifests, a vendor check or a test may fail the job.    *)
Finish(r) ==
    /\ uptest[r] = "running"
    /\ \E result \in {"done", "failed"} : uptest' = [uptest EXCEPT ![r] = result]
    /\ UNCHANGED <<head, writers, reviews, select, tested, changes>>

Jobs(r) == Refuse(r) \/ Request(r) \/ Run(r) \/ Finish(r)

Next ==
    \/ Push
    \/ \E w \in Reviewers : ChangePermission(w)
    \/ \E w \in Reviewers, commit \in Commits, command \in Commands : Submit(w, commit, command)
    \/ \E r \in DOMAIN reviews : Jobs(r)

Spec == Init /\ [][Next]_vars

(* Runners take up every job in the end.                                   *)
FairSpec == Spec /\ WF_vars(\E r \in DOMAIN reviews : Jobs(r))

-----------------------------------------------------------------------------
(* What is tested is the commit its reviewer saw, which was the head then, *)
(* whatever has been pushed between the review and the checkout.           *)
TestedIsReviewed ==
    \A r \in DOMAIN reviews : tested[r] # NoCommit =>
        tested[r] = reviews[r].reviewed /\ tested[r] = reviews[r].head

(* Two tests of a pull request never run at once.                          *)
OneTestAtATime ==
    \A q, r \in DOMAIN reviews : Active(q) /\ Active(r) => q = r

(* A review that requests nothing cancels nothing: as long as there is     *)
(* only one request, it is not cancelled, however many reviews follow.     *)
OnlyRequestsCancel ==
    \A r \in DOMAIN reviews : uptest[r] = "cancelled" =>
        \E q \in DOMAIN reviews : q # r /\ select[q] = "requested"

(* Requests do not cancel each other for ever: once there was one, and     *)
(* reviews have ceased, a test ends that nobody cancelled.                 *)
SomeTestEnds ==
    (\E r \in DOMAIN reviews : select[r] = "requested")
        ~> (\E r \in DOMAIN reviews : uptest[r] \in {"done", "failed"})

(* "A newer test request on the same pull request supersedes one still     *)
(* running": what cancels a test is a review submitted after its own.      *)
NewerSupersedes ==
    \A r \in DOMAIN reviews : uptest[r] = "cancelled" =>
        \E q \in DOMAIN reviews : q > r /\ select[q] = "requested"

=============================================================================
