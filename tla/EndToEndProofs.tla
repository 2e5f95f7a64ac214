--------------------------- MODULE EndToEndProofs ---------------------------
(***************************************************************************)
(* Proofs about EndToEnd, for any number of reviewers, reviews, pushes and *)
(* changes of permissions.  A job of uptest exists only for a review whose *)
(* checks have passed, and the checks compare the reviewed commit with the *)
(* head the event recorded; entering the group leaves nothing else in it.  *)
(***************************************************************************)
EXTENDS EndToEnd, SequenceTheorems, TLAPS

Review == [reviewer : Reviewers, reviewed : Nat, head : Nat, command : Commands]

Statuses ==
    {"none", "skipped", "waiting", "refused", "requested",
     "queued", "running", "done", "failed", "cancelled"}

(* One entry per review in every list.                                     *)
Shape ==
    /\ head \in Nat
    /\ reviews \in Seq(Review)
    /\ select \in Seq(Statuses) /\ Len(select) = Len(reviews)
    /\ uptest \in Seq(Statuses) /\ Len(uptest) = Len(reviews)
    /\ tested \in Seq(Nat) /\ Len(tested) = Len(reviews)

(* A test was requested, of the head its review was on.                    *)
RequestedBefore ==
    \A r \in DOMAIN reviews :
        /\ uptest[r] # "none" =>
              select[r] = "requested" /\ reviews[r].reviewed = reviews[r].head
        /\ tested[r] # NoCommit =>
              uptest[r] # "none" /\ tested[r] = reviews[r].reviewed

Testing == Shape /\ RequestedBefore /\ OneTestAtATime /\ OnlyRequestsCancel

LEMMA InitTesting == Init => Testing
  BY DEF Init, Testing, Shape, RequestedBefore, OneTestAtATime, OnlyRequestsCancel, Active

(* A review adds an entry to every list and changes no other.              *)
LEMMA SubmitTesting ==
    ASSUME Testing, NEW w \in Reviewers, NEW commit \in Commits, NEW command \in Commands,
           Submit(w, commit, command)
    PROVE  Testing'
<1> DEFINE n == Len(reviews)
           event == [reviewer |-> w, reviewed |-> commit, head |-> head, command |-> command]
           status == IF command = "absent" THEN "skipped" ELSE "waiting"
<1>1. /\ head \in Nat /\ reviews \in Seq(Review)
      /\ select \in Seq(Statuses) /\ Len(select) = n
      /\ uptest \in Seq(Statuses) /\ Len(uptest) = n
      /\ tested \in Seq(Nat) /\ Len(tested) = n
  BY DEF Testing, Shape
<1>2. event \in Review /\ status \in Statuses /\ NoCommit \in Nat
  <2>1. commit \in Nat /\ NoCommit \in Nat
    BY BoundsAssumption DEF Commits, NoCommit
  <2>2. event \in Review
    BY <1>1, <2>1 DEF Review
  <2>3. status \in Statuses
    BY DEF Statuses
  <2> QED
    BY <2>1, <2>2, <2>3
<1>3. /\ reviews' = Append(reviews, event) /\ select' = Append(select, status)
      /\ uptest' = Append(uptest, "none") /\ tested' = Append(tested, NoCommit)
      /\ head' = head
  BY DEF Submit
<1> HIDE DEF event, status
<1>4. Shape'
  <2>1. reviews' \in Seq(Review) /\ Len(reviews') = n + 1
    BY <1>1, <1>2, <1>3, AppendProperties
  <2>2. select' \in Seq(Statuses) /\ Len(select') = n + 1
    BY <1>1, <1>2, <1>3, AppendProperties
  <2>3. uptest' \in Seq(Statuses) /\ Len(uptest') = n + 1
    <3>1. "none" \in Statuses
      BY DEF Statuses
    <3> QED
      BY <1>1, <1>3, <3>1, AppendProperties
  <2>4. tested' \in Seq(Nat) /\ Len(tested') = n + 1
    BY <1>1, <1>2, <1>3, AppendProperties
  <2> QED
    BY <1>1, <1>3, <2>1, <2>2, <2>3, <2>4 DEF Shape
<1>5. /\ DOMAIN reviews = 1 .. n /\ DOMAIN reviews' = 1 .. n + 1 /\ n \in Nat
      /\ \A r \in 1 .. n : /\ reviews'[r] = reviews[r] /\ select'[r] = select[r]
                           /\ uptest'[r] = uptest[r] /\ tested'[r] = tested[r]
      /\ uptest'[n + 1] = "none" /\ tested'[n + 1] = NoCommit
  BY <1>1, <1>2, <1>3
<1>6. \A r \in 1 .. n + 1 : r \in 1 .. n \/ r = n + 1
  BY <1>5
<1> HIDE DEF n
<1>7. NoCommit' = NoCommit
  BY DEF NoCommit
<1>8. RequestedBefore'
  BY <1>5, <1>6, <1>7 DEF RequestedBefore, Testing
<1>9. OneTestAtATime'
  BY <1>5, <1>6 DEF OneTestAtATime, Active, Testing
<1>10. OnlyRequestsCancel'
  <2> SUFFICES ASSUME NEW r \in 1 .. n + 1, uptest'[r] = "cancelled"
               PROVE  \E q \in 1 .. n + 1 : q # r /\ select'[q] = "requested"
    BY <1>5 DEF OnlyRequestsCancel
  <2>1. r \in 1 .. n /\ uptest[r] = "cancelled"
    BY <1>5, <1>6
  <2>2. PICK q \in 1 .. n : q # r /\ select[q] = "requested"
    BY <1>5, <2>1 DEF OnlyRequestsCancel, Testing
  <2>3. q \in 1 .. n + 1
    BY <1>5
  <2> QED
    BY <1>5, <2>2, <2>3
<1> QED
  BY <1>4, <1>8, <1>9, <1>10 DEF Testing

(* The jobs of a review: a request empties the group before it joins.      *)
LEMMA JobsTesting ==
    ASSUME Testing, NEW r \in DOMAIN reviews, Jobs(r)
    PROVE  Testing'
<1>1. /\ head \in Nat /\ reviews \in Seq(Review) /\ DOMAIN reviews = 1 .. Len(reviews)
      /\ select \in Seq(Statuses) /\ Len(select) = Len(reviews)
      /\ uptest \in Seq(Statuses) /\ Len(uptest) = Len(reviews)
      /\ tested \in Seq(Nat) /\ Len(tested) = Len(reviews)
      /\ DOMAIN select = DOMAIN reviews /\ DOMAIN uptest = DOMAIN reviews
      /\ DOMAIN tested = DOMAIN reviews
  BY DEF Testing, Shape
<1>2. UNCHANGED <<head, reviews>> /\ NoCommit' = NoCommit /\ DOMAIN reviews' = DOMAIN reviews
  BY DEF Jobs, Refuse, Request, Run, Finish, NoCommit
<1>3. CASE Refuse(r)
  <2>1. select' = [select EXCEPT ![r] = "refused"] /\ UNCHANGED <<uptest, tested>>
        /\ select[r] = "waiting"
    BY <1>3 DEF Refuse
  <2>2. Shape'
    <3>1. select' \in Seq(Statuses) /\ Len(select') = Len(reviews)
      BY <1>1, <2>1, ExceptSeq DEF Statuses
    <3> QED
      BY <1>1, <1>2, <2>1, <3>1 DEF Shape
  <2>3. \A q \in DOMAIN reviews : select[q] = "requested" => select'[q] = "requested"
    BY <1>1, <2>1
  <2> QED
    BY <1>1, <1>2, <2>1, <2>2, <2>3
    DEF Testing, RequestedBefore, OneTestAtATime, OnlyRequestsCancel, Active
<1>4. CASE Request(r)
  <2>1. /\ select' = [select EXCEPT ![r] = "requested"] /\ UNCHANGED tested
        /\ uptest' = JoinGroup(r) /\ Accepts(r) /\ select[r] = "waiting"
    BY <1>4 DEF Request
  <2>2. \A q \in DOMAIN reviews :
          uptest'[q] = IF q = r THEN "queued" ELSE IF Active(q) THEN "cancelled" ELSE uptest[q]
    BY <1>1, <2>1 DEF JoinGroup
  <2>3. DOMAIN uptest' = DOMAIN reviews
    BY <1>1, <2>1 DEF JoinGroup
  <2>4. \A q \in DOMAIN reviews : uptest'[q] \in Statuses
    BY <1>1, <2>2, ElementOfSeq DEF Statuses
  <2>5. uptest' \in Seq(Statuses) /\ Len(uptest') = Len(reviews)
    <3>1. uptest' = [q \in 1 .. Len(reviews) |->
                       IF q = r THEN "queued" ELSE IF Active(q) THEN "cancelled" ELSE uptest[q]]
      BY <1>1, <2>1 DEF JoinGroup
    <3>2. Len(reviews) \in Nat
      BY <1>1
    <3>3. uptest' \in [1 .. Len(reviews) -> Statuses]
      BY <1>1, <2>4, <3>1
    <3> QED
      BY <3>2, <3>3
  <2>6. Shape'
    <3>1. select' \in Seq(Statuses) /\ Len(select') = Len(reviews)
      BY <1>1, <2>1, ExceptSeq DEF Statuses
    <3> QED
      BY <1>1, <1>2, <2>1, <2>5, <3>1 DEF Shape
  <2>7. \A q \in DOMAIN reviews : q # r => select'[q] = select[q]
    BY <1>1, <2>1
  <2>8. select'[r] = "requested" /\ reviews[r].reviewed = reviews[r].head
    BY <1>1, <2>1 DEF Accepts
  <2>9. RequestedBefore'
    <3> SUFFICES ASSUME NEW q \in DOMAIN reviews
                 PROVE  /\ uptest'[q] # "none" =>
                             select'[q] = "requested" /\ reviews[q].reviewed = reviews[q].head
                        /\ tested[q] # NoCommit =>
                             uptest'[q] # "none" /\ tested[q] = reviews[q].reviewed
      BY <1>2, <2>1 DEF RequestedBefore
    <3>1. CASE q = r
      BY <2>2, <2>8, <3>1 DEF RequestedBefore, Testing
    <3>2. CASE q # r
      BY <2>2, <2>7, <3>2 DEF RequestedBefore, Testing, Active
    <3> QED
      BY <3>1, <3>2
  <2>10. OneTestAtATime'
    BY <1>2, <2>2 DEF OneTestAtATime, Active
  <2>11. OnlyRequestsCancel'
    <3> SUFFICES ASSUME NEW q \in DOMAIN reviews, uptest'[q] = "cancelled"
                 PROVE  \E p \in DOMAIN reviews : p # q /\ select'[p] = "requested"
      BY <1>2 DEF OnlyRequestsCancel
    <3>1. q # r
      BY <2>2
    <3> QED
      BY <2>8, <3>1
  <2> QED
    BY <2>6, <2>9, <2>10, <2>11 DEF Testing
<1>5. CASE Run(r)
  <2>1. /\ uptest' = [uptest EXCEPT ![r] = "running"]
        /\ tested' = [tested EXCEPT ![r] = reviews[r].reviewed]
        /\ UNCHANGED select /\ uptest[r] = "queued"
    BY <1>5 DEF Run, CheckedOut
  <2>2. reviews[r].reviewed \in Nat
    <3>1. reviews[r] \in Review
      BY <1>1, ElementOfSeq
    <3> QED
      BY <3>1 DEF Review
  <2>3. Shape'
    <3>1. uptest' \in Seq(Statuses) /\ Len(uptest') = Len(reviews)
      BY <1>1, <2>1, ExceptSeq DEF Statuses
    <3>2. tested' \in Seq(Nat) /\ Len(tested') = Len(reviews)
      BY <1>1, <2>1, <2>2, ExceptSeq
    <3> QED
      BY <1>1, <1>2, <2>1, <3>1, <3>2 DEF Shape
  <2>4. \A q \in DOMAIN reviews :
          /\ uptest'[q] = IF q = r THEN "running" ELSE uptest[q]
          /\ tested'[q] = IF q = r THEN reviews[r].reviewed ELSE tested[q]
    BY <1>1, <2>1
  <2> QED
    BY <1>1, <1>2, <2>1, <2>3, <2>4
    DEF Testing, RequestedBefore, OneTestAtATime, OnlyRequestsCancel, Active
<1>6. CASE Finish(r)
  <2>1. PICK result \in {"done", "failed"} : uptest' = [uptest EXCEPT ![r] = result]
    BY <1>6 DEF Finish
  <2>2. UNCHANGED <<select, tested>> /\ uptest[r] = "running"
    BY <1>6 DEF Finish
  <2>3. Shape'
    <3>1. uptest' \in Seq(Statuses) /\ Len(uptest') = Len(reviews)
      BY <1>1, <2>1, ExceptSeq DEF Statuses
    <3> QED
      BY <1>1, <1>2, <2>2, <3>1 DEF Shape
  <2>4. \A q \in DOMAIN reviews : uptest'[q] = IF q = r THEN result ELSE uptest[q]
    BY <1>1, <2>1
  <2> QED
    BY <1>1, <1>2, <2>1, <2>2, <2>3, <2>4
    DEF Testing, RequestedBefore, OneTestAtATime, OnlyRequestsCancel, Active
<1> QED
  BY <1>3, <1>4, <1>5, <1>6 DEF Jobs

(* Pushes and permissions touch no list.                                   *)
LEMMA StepTesting == Testing /\ [Next]_vars => Testing'
<1> SUFFICES ASSUME Testing, [Next]_vars PROVE Testing'
  OBVIOUS
<1> USE DEF Testing, Shape, RequestedBefore, OneTestAtATime, OnlyRequestsCancel, Active
<1>1. CASE Push
  BY <1>1 DEF Push, NoCommit
<1>2. ASSUME NEW w \in Reviewers, ChangePermission(w) PROVE Testing'
  BY <1>2 DEF ChangePermission, NoCommit
<1>3. ASSUME NEW w \in Reviewers, NEW commit \in Commits, NEW command \in Commands,
             Submit(w, commit, command)
      PROVE  Testing'
  BY <1>3, SubmitTesting
<1>4. ASSUME NEW r \in DOMAIN reviews, Jobs(r) PROVE Testing'
  BY <1>4, JobsTesting
<1>5. CASE UNCHANGED vars
  BY <1>5 DEF vars, NoCommit
<1> QED
  BY <1>1, <1>2, <1>3, <1>4, <1>5 DEF Next

LEMMA TestingAlways == Spec => []Testing
  BY InitTesting, StepTesting, PTL DEF Spec

(* What is tested is the commit its reviewer saw, which was the head when  *)
(* the review was submitted, whatever was pushed since.                    *)
THEOREM TestedIsReviewedAlways == Spec => []TestedIsReviewed
<1>1. Testing => TestedIsReviewed
  BY DEF Testing, RequestedBefore, TestedIsReviewed
<1> QED
  BY <1>1, TestingAlways, PTL

(* Two tests of one pull request never run at once.                        *)
THEOREM OneTestAtATimeAlways == Spec => []OneTestAtATime
<1>1. Testing => OneTestAtATime
  BY DEF Testing
<1> QED
  BY <1>1, TestingAlways, PTL

(* A review that requests nothing cancels nothing.                         *)
THEOREM OnlyRequestsCancelAlways == Spec => []OnlyRequestsCancel
<1>1. Testing => OnlyRequestsCancel
  BY DEF Testing
<1> QED
  BY <1>1, TestingAlways, PTL

=============================================================================
