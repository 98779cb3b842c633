--------------------------- MODULE PlatformProofs ---------------------------
(***************************************************************************)
(* Theorems about the platform, for every set of requests, rows, keys,     *)
(* tokens and definitions.  Approvals, accounts, signing keys,             *)
(* authorization, customer-managed keys and the audit trail have their     *)
(* inductive invariants here, each with a lemma that its steps keep it;    *)
(* those of the other services are in ServicesProofs.  Then they are put   *)
(* together for PlatformSpec, in which one component moves at a time, and  *)
(* the last section adds the types of every component.                     *)
(***************************************************************************)
EXTENDS MCPlatform, ServicesProofs

-----------------------------------------------------------------------------
(* Approvals *)

ApprovalSteps == [assignees : SUBSET Approvers, escalate : {NoRole} \cup SUBSET Approvers,
                  status : StepStatuses]

ApprovalStatuses == {"none", "pending", "approved", "rejected"}
ApprovalRecord == [status : ApprovalStatuses, step : Nat, version : Nat, steps : Seq(ApprovalSteps)]

\* The approval's record, and the version it was created from.
ApprovalSound ==
    /\ DOMAIN policy = {"active", "versions"} /\ policy.versions # <<>>
    /\ approval \in ApprovalRecord
    /\ approval.status # "none" =>
          /\ approval.step \in 1..Len(approval.steps)
          /\ approval.version \in 1..Len(policy.versions)
          /\ Len(approval.steps) = Len(policy.versions[approval.version])
    /\ approval.status = "none" => decisions = <<>> /\ answered = "none"

\* What a request has read: a step of the approval, and for an escalation the
\* role of that step.
DecidingSound ==
    \A x \in ApprovalTxns :
        /\ deciding[x].op \in {"idle", "decide", "answer", "escalate"}
        /\ deciding[x].op \in {"decide", "escalate"} =>
              approval.status # "none" /\ deciding[x].step \in 1..Len(approval.steps)
        /\ deciding[x].op = "escalate" =>
              /\ deciding[x].role = approval.steps[deciding[x].step].escalate
              /\ deciding[x].seen = "pending"
        /\ deciding[x].op = "answer" =>
              /\ approval.status # "none"
              /\ deciding[x].outcome \in {"approved", "rejected"}
              /\ ~overtaken => approval.status = deciding[x].outcome

ApprovalsIInv ==
    /\ ApprovalsTypeOK
    /\ ApprovalSound
    /\ DecidingSound
    /\ SubjectDecidedOnce
    /\ PendingStepIsOpen


\* What changing one step of a sequence of steps does.
LEMMA StepSet ==
    ASSUME NEW s \in Seq(ApprovalSteps), NEW k \in 1..Len(s), NEW st \in ApprovalSteps
    PROVE  /\ [s EXCEPT ![k] = st] \in Seq(ApprovalSteps)
           /\ Len([s EXCEPT ![k] = st]) = Len(s)
           /\ [s EXCEPT ![k] = st][k] = st
           /\ \A j \in 1..Len(s) : j # k => [s EXCEPT ![k] = st][j] = s[j]
  OBVIOUS

\* The UPDATE of an approval together with the status of one of its steps.
Updated(a, w, k, v) == [a EXCEPT !.status = w, !.steps[k].status = v]

\* Updated sets the two statuses and leaves the rest of the approval alone.
LEMMA UpdatedApproval ==
    ASSUME NEW a \in ApprovalRecord, NEW k \in 1..Len(a.steps), NEW v \in StepStatuses,
           NEW w \in ApprovalStatuses, NEW b, b = Updated(a, w, k, v)
    PROVE  /\ b \in ApprovalRecord /\ b.status = w /\ b.step = a.step /\ b.version = a.version
           /\ Len(b.steps) = Len(a.steps) /\ b.steps[k].status = v
           /\ b.steps[k].assignees = a.steps[k].assignees
           /\ b.steps[k].escalate = a.steps[k].escalate
           /\ \A j \in 1..Len(a.steps) : j # k => b.steps[j] = a.steps[j]
  <1> DEFINE st == [a.steps[k] EXCEPT !.status = v]
             s == [a.steps EXCEPT ![k] = st]
  <1>1. a.steps \in Seq(ApprovalSteps) /\ a.steps[k] \in ApprovalSteps
    BY DEF ApprovalRecord
  <1>2. /\ st \in ApprovalSteps /\ st.status = v
        /\ st.escalate = a.steps[k].escalate /\ st.assignees = a.steps[k].assignees
    BY <1>1 DEF ApprovalSteps
  <1>3. /\ s \in Seq(ApprovalSteps) /\ Len(s) = Len(a.steps) /\ s[k] = st
        /\ \A j \in 1..Len(a.steps) : j # k => s[j] = a.steps[j]
    <2> HIDE DEF st
    <2> QED  BY <1>1, <1>2
  <1>4. b = [a EXCEPT !.status = w, !.steps = s]
    BY DEF Updated
  <1>5. b \in ApprovalRecord /\ b.status = w /\ b.step = a.step /\ b.version = a.version
           /\ b.steps = s
    <2> HIDE DEF s
    <2> QED  BY <1>3, <1>4 DEF ApprovalRecord
  <1> QED  BY <1>2, <1>3, <1>5

\* Every step has one of the five statuses.
LEMMA StatusOfStep ==
    ASSUME NEW s \in Seq(ApprovalSteps)
    PROVE  \A j \in DOMAIN s : s[j].status \in StepStatuses
  <1>1. \A j \in DOMAIN s : s[j] \in ApprovalSteps
    OBVIOUS
  <1> QED  BY <1>1 DEF ApprovalSteps

\* The snapshot of a definition has its steps, the first of them active.
LEMMA SnapshotSteps ==
    ASSUME NEW d \in Definitions
    PROVE  /\ Snapshot(d) \in Seq(ApprovalSteps) /\ Len(Snapshot(d)) = Len(d)
           /\ d # <<>> => 1 \in 1..Len(d) /\ Snapshot(d)[1].status = "active"
  <1>1. d \in Seq([assignees : SUBSET Approvers, escalate : {NoRole} \cup SUBSET Approvers])
    BY ApprovalsAssumption
  <1>2. DOMAIN d = 1..Len(d) /\ Len(d) \in Nat
    BY <1>1
  <1>3. \A k \in 1..Len(d) : Snapshot(d)[k] \in ApprovalSteps
    <2> TAKE k \in 1..Len(d)
    <2> DEFINE S == [assignees : SUBSET Approvers, escalate : {NoRole} \cup SUBSET Approvers]
    <2>1. d[k] \in S
      <3>1. d \in Seq(S)
        BY <1>1
      <3> HIDE DEF S
      <3> QED  BY <3>1
    <2>2. Snapshot(d)[k] = [assignees |-> d[k].assignees, escalate |-> d[k].escalate,
                            status |-> IF k = 1 THEN "active" ELSE "pending"]
      BY <1>2 DEF Snapshot
    <2> QED  BY <2>1, <2>2 DEF ApprovalSteps, StepStatuses
  <1>4. Snapshot(d) = [k \in 1..Len(d) |-> Snapshot(d)[k]]
    BY <1>2 DEF Snapshot
  <1>5. Snapshot(d) \in Seq(ApprovalSteps) /\ Len(Snapshot(d)) = Len(d)
    BY <1>2, <1>3, <1>4
  <1>6. d # <<>> => 1 \in 1..Len(d) /\ Snapshot(d)[1].status = "active"
    BY <1>1, <1>2 DEF Snapshot
  <1> QED  BY <1>5, <1>6

\* What escalating step k makes of an approval.
Escalated(a, k, to) ==
    LET left == [a EXCEPT !.steps[k].status = "escalated"]
    IN  IF k < Len(a.steps)
        THEN [left EXCEPT !.step = k + 1, !.steps[k + 1].status = "active"]
        ELSE IF to # NoRole
        THEN [left EXCEPT !.status = "pending", !.steps[k].status = "active",
                          !.steps[k].assignees = to]
        ELSE left

\* Escalating leaves a sound approval with an open step, or the step escalated.
LEMMA EscalatedApproval ==
    ASSUME NEW a \in ApprovalRecord, NEW k \in 1..Len(a.steps), NEW to,
           to = a.steps[k].escalate, NEW b, b = Escalated(a, k, to)
    PROVE  /\ b \in ApprovalRecord /\ b.version = a.version /\ Len(b.steps) = Len(a.steps)
           /\ \A j \in 1..Len(a.steps) : b.steps[j].escalate = a.steps[j].escalate
           /\ k < Len(a.steps) =>
                 b.status = a.status /\ b.step = k + 1 /\ b.steps[k + 1].status = "active"
           /\ k = Len(a.steps) =>
                 /\ b.step = a.step
                 /\ to # NoRole => b.status = "pending" /\ b.steps[k].status = "active"
                 /\ to = NoRole => b.status = a.status /\ b.steps[k].status = "escalated"
  <1> DEFINE left == [a EXCEPT !.steps[k].status = "escalated"]
  <1>1. left = Updated(a, a.status, k, "escalated") /\ a.status \in ApprovalStatuses
    BY DEF ApprovalRecord, Updated
  <1>2. /\ left \in ApprovalRecord /\ left.status = a.status /\ left.step = a.step
        /\ left.version = a.version /\ Len(left.steps) = Len(a.steps)
        /\ left.steps[k].status = "escalated" /\ left.steps[k].escalate = a.steps[k].escalate
        /\ \A j \in 1..Len(a.steps) : j # k => left.steps[j] = a.steps[j]
    <2>1. "escalated" \in StepStatuses
      BY DEF StepStatuses
    <2> HIDE DEF left
    <2> QED  BY <1>1, <2>1, UpdatedApproval
  <1>3. b = IF k < Len(a.steps)
            THEN [left EXCEPT !.step = k + 1, !.steps[k + 1].status = "active"]
            ELSE IF to # NoRole
            THEN [left EXCEPT !.status = "pending", !.steps[k].status = "active",
                              !.steps[k].assignees = to]
            ELSE left
    BY DEF Escalated
  <1> HIDE DEF left
  <1>4. CASE k < Len(a.steps)
    <2> DEFINE c == Updated(left, left.status, k + 1, "active")
    <2>1. k + 1 \in 1..Len(left.steps) /\ k + 1 # k /\ k + 1 \in Nat
      BY <1>2, <1>4
    <2>2. left.status \in ApprovalStatuses /\ "active" \in StepStatuses
      BY <1>2 DEF ApprovalRecord, StepStatuses
    <2>3. /\ c \in ApprovalRecord /\ c.status = a.status /\ c.version = a.version
          /\ Len(c.steps) = Len(a.steps) /\ c.steps[k + 1].status = "active"
          /\ c.steps[k + 1].escalate = a.steps[k + 1].escalate
          /\ \A j \in 1..Len(a.steps) : j # k + 1 => c.steps[j] = left.steps[j]
      BY <1>2, <2>1, <2>2, UpdatedApproval
    <2>4. b = [c EXCEPT !.step = k + 1]
      BY <1>2, <1>3, <1>4 DEF ApprovalRecord, Updated
    <2>5. b \in ApprovalRecord /\ b.status = c.status /\ b.version = c.version
             /\ b.steps = c.steps
          /\ b.step = k + 1
      <3> HIDE DEF c
      <3> QED  BY <2>1, <2>3, <2>4 DEF ApprovalRecord
    <2> HIDE DEF c
    <2> QED  BY <1>2, <1>4, <2>1, <2>3, <2>5
  <1>5. CASE k = Len(a.steps) /\ to # NoRole
    <2> DEFINE c == Updated(left, "pending", k, "active")
               st == [c.steps[k] EXCEPT !.assignees = to]
               s == [c.steps EXCEPT ![k] = st]
    <2>1. /\ c \in ApprovalRecord /\ c.status = "pending" /\ c.version = a.version
          /\ c.step = a.step /\ Len(c.steps) = Len(a.steps) /\ c.steps[k].status = "active"
          /\ c.steps[k].escalate = a.steps[k].escalate
          /\ \A j \in 1..Len(a.steps) : j # k => c.steps[j] = left.steps[j]
      <3>1. "pending" \in ApprovalStatuses /\ "active" \in StepStatuses
        BY DEF ApprovalStatuses, StepStatuses
      <3> QED  BY <1>2, <3>1, UpdatedApproval
    <2>2. b = [c EXCEPT !.steps = s]
      BY <1>2, <1>3, <1>5 DEF Updated
    <2> HIDE DEF c
    <2>3. /\ c.steps \in Seq(ApprovalSteps) /\ c.steps[k] \in ApprovalSteps
                /\ k \in 1..Len(c.steps)
          /\ a.steps[k] \in ApprovalSteps
      BY <2>1 DEF ApprovalRecord
    <2>4. to \in SUBSET Approvers
      BY <1>5, <2>3 DEF ApprovalSteps
    <2>5. st \in ApprovalSteps /\ st.status = "active" /\ st.escalate = a.steps[k].escalate
      BY <2>1, <2>3, <2>4 DEF ApprovalSteps
    <2>6. /\ s \in Seq(ApprovalSteps) /\ Len(s) = Len(a.steps) /\ s[k] = st
          /\ \A j \in 1..Len(a.steps) : j # k => s[j] = left.steps[j]
      <3> HIDE DEF st
      <3> QED  BY <2>1, <2>3, <2>5
    <2>7. /\ b \in ApprovalRecord /\ b.status = "pending" /\ b.version = a.version
          /\ b.steps = s /\ b.step = a.step
      <3> HIDE DEF s
      <3> QED  BY <2>1, <2>2, <2>6 DEF ApprovalRecord
    <2> HIDE DEF st, s
    <2> QED  BY <1>2, <1>5, <2>5, <2>6, <2>7
  <1>6. CASE k = Len(a.steps) /\ to = NoRole
    BY <1>2, <1>3, <1>6
  <1> QED  BY <1>4, <1>5, <1>6

\* Creating an approval keeps the invariant.
LEMMA CreateStep ==
    ASSUME ApprovalsIInv, CreateApproval
    PROVE  ApprovalsIInv'
  <1>1. PICK d \in Definitions :
            /\ d = policy.versions[Len(policy.versions)] /\ d # <<>>
            /\ Len(policy.versions) \in 1..Len(policy.versions)
    BY DEF ApprovalsIInv, ApprovalsTypeOK, ApprovalSound, CreateApproval
  <1>2. approval' = [status |-> "pending", step |-> 1, version |-> Len(policy.versions),
                     steps |-> Snapshot(d)]
    BY <1>1 DEF CreateApproval
  <1>3. /\ approval' \in ApprovalRecord /\ Len(approval'.steps) = Len(d) /\ 1 \in 1..Len(d)
        /\ approval'.steps[1].status = "active" /\ approval'.steps \in Seq(ApprovalSteps)
    BY <1>1, <1>2, SnapshotSteps DEF ApprovalRecord, ApprovalStatuses
  <1>4. ApprovalsTypeOK'
    <2>1. \A k \in DOMAIN approval'.steps : approval'.steps[k].status \in StepStatuses
      BY <1>3, StatusOfStep
    <2>2. approval'.status = "pending"
      BY <1>2
    <2> QED  BY <2>1, <2>2 DEF ApprovalsIInv, ApprovalsTypeOK, CreateApproval
  <1>5. ApprovalSound'
    BY <1>1, <1>2, <1>3 DEF ApprovalsIInv, ApprovalSound, CreateApproval
  <1>6. DecidingSound'
    BY DEF ApprovalsIInv, DecidingSound, CreateApproval
  <1>7. SubjectDecidedOnce'
    BY <1>2 DEF ApprovalsIInv, SubjectDecidedOnce, CreateApproval
  <1>8. PendingStepIsOpen'
    BY <1>1, <1>2, <1>3 DEF PendingStepIsOpen, CreateApproval
  <1> QED  BY <1>4, <1>5, <1>6, <1>7, <1>8 DEF ApprovalsIInv

\* An escalation keeps the invariant: it writes over a decision only where it
\* is recorded as overtaken.
LEMMA EscalateStep ==
    ASSUME ApprovalsIInv, NEW x \in ApprovalTxns, EscalateApprovalWrite(x)
    PROVE  ApprovalsIInv'
  <1> DEFINE k == deciding[x].step
             to == deciding[x].role
  <1>1. /\ approval \in ApprovalRecord /\ k \in 1..Len(approval.steps)
        /\ approval.status # "none" /\ to = approval.steps[k].escalate
        /\ deciding[x].seen = "pending"
    BY DEF ApprovalsIInv, ApprovalSound, DecidingSound, EscalateApprovalWrite
  <1>2. approval' = Escalated(approval, k, to)
    BY DEF EscalateApprovalWrite, Escalated
  <1>3. /\ approval' \in ApprovalRecord /\ approval'.version = approval.version
        /\ Len(approval'.steps) = Len(approval.steps)
        /\ \A j \in 1..Len(approval.steps) : approval'.steps[j].escalate = approval.steps[j].escalate
        /\ k < Len(approval.steps) =>
              /\ approval'.status = approval.status /\ approval'.step = k + 1
              /\ approval'.steps[k + 1].status = "active"
        /\ k = Len(approval.steps) =>
              /\ approval'.step = approval.step
              /\ to # NoRole =>
                    approval'.status = "pending" /\ approval'.steps[k].status = "active"
              /\ to = NoRole =>
                    approval'.status = approval.status
                       /\ approval'.steps[k].status = "escalated"
    <2> HIDE DEF k, to
    <2> QED  BY <1>1, <1>2, EscalatedApproval
  <1>4. /\ UNCHANGED <<policy, decisions, delegated, answered>>
        /\ overtaken' = (overtaken \/ approval.status # "pending" \/ approval.step # k)
        /\ deciding' = [deciding EXCEPT ![x] = NotDeciding]
    BY <1>1 DEF EscalateApprovalWrite
  <1>5. /\ approval.steps \in Seq(ApprovalSteps) /\ approval'.steps \in Seq(ApprovalSteps)
        /\ Len(approval.steps) \in Nat /\ approval'.status # "none"
              /\ approval'.step \in 1..Len(approval.steps)
    BY <1>1, <1>3 DEF ApprovalsIInv, ApprovalSound, ApprovalRecord
  <1>6. ApprovalsTypeOK'
    <2>1. approval'.status \in {"none", "pending", "approved", "rejected"}
      BY <1>3 DEF ApprovalRecord, ApprovalStatuses
    <2>2. \A j \in DOMAIN approval'.steps : approval'.steps[j].status \in StepStatuses
      BY <1>5, StatusOfStep
    <2>3. overtaken' \in BOOLEAN
      BY <1>4
    <2> QED  BY <1>4, <2>1, <2>2, <2>3 DEF ApprovalsIInv, ApprovalsTypeOK
  <1>7. ApprovalSound'
    BY <1>1, <1>3, <1>4, <1>5 DEF ApprovalsIInv, ApprovalSound
  <1>8. DecidingSound'
    <2> SUFFICES ASSUME NEW y \in ApprovalTxns, y # x
                 PROVE  DecidingSound!(y)'
      BY <1>4 DEF DecidingSound, NotDeciding, ApprovalsIInv, ApprovalsTypeOK
    <2>1. deciding'[y] = deciding[y]
      BY <1>4
    <2>2. ~overtaken' => approval.status = "pending" /\ ~overtaken
      BY <1>4 DEF ApprovalsIInv, ApprovalsTypeOK
    <2> QED  BY <1>1, <1>3, <1>5, <2>1, <2>2 DEF ApprovalsIInv, DecidingSound
  <1>9. ASSUME ~overtaken'
        PROVE  ~overtaken /\ approval.status = "pending" /\ approval.step = k
                  /\ approval'.status = "pending"
    <2>1. overtaken \in BOOLEAN
      BY DEF ApprovalsIInv, ApprovalsTypeOK
    <2>2. ~overtaken /\ approval.status = "pending" /\ approval.step = k
      BY <1>4, <1>9, <2>1
    <2> QED  BY <1>1, <1>3, <1>5, <2>2
  <1>10. SubjectDecidedOnce'
    BY <1>4, <1>9 DEF ApprovalsIInv, SubjectDecidedOnce
  <1>11. PendingStepIsOpen'
    BY <1>1, <1>3, <1>4, <1>5, <1>9 DEF ApprovalsIInv, PendingStepIsOpen
  <1> QED  BY <1>6, <1>7, <1>8, <1>10, <1>11 DEF ApprovalsIInv

\* A decision keeps the invariant: the conditional UPDATE lets one win.
LEMMA DecideStep ==
    ASSUME ApprovalsIInv, NEW x \in ApprovalTxns, NEW outcome \in {"approved", "rejected"},
           DecideApprovalWrite(x, outcome)
    PROVE  ApprovalsIInv'
  <1> DEFINE k == deciding[x].step
  <1>1. /\ approval \in ApprovalRecord /\ k \in 1..Len(approval.steps)
              /\ approval.status # "none"
        /\ k \in Nat
    BY DEF ApprovalsIInv, ApprovalSound, DecidingSound, DecideApprovalWrite
  <1>2. CASE approval.status # "pending"
    <2>1. /\ UNCHANGED <<policy, approval, decisions, delegated, answered, overtaken>>
          /\ deciding' = [deciding EXCEPT ![x] = NotDeciding]
      BY <1>2 DEF DecideApprovalWrite
    <2>2. DecidingSound'
      BY <2>1 DEF ApprovalsIInv, DecidingSound, NotDeciding
    <2>3. ApprovalsTypeOK' /\ ApprovalSound' /\ SubjectDecidedOnce' /\ PendingStepIsOpen'
      BY <2>1 DEF ApprovalsIInv, ApprovalsTypeOK, ApprovalSound, SubjectDecidedOnce,
         PendingStepIsOpen
    <2> QED  BY <2>2, <2>3 DEF ApprovalsIInv
  <1>3. CASE approval.status = "pending"
    <2>1. /\ approval' = Updated(approval, outcome, k, outcome)
          /\ decisions' = Append(decisions, [step |-> k, outcome |-> outcome])
          /\ deciding' = [deciding EXCEPT ![x] = [op |-> "answer", outcome |-> outcome]]
          /\ UNCHANGED <<policy, delegated, answered, overtaken>>
      BY <1>3 DEF DecideApprovalWrite, Updated
    <2>2. /\ approval' \in ApprovalRecord /\ approval'.status = outcome
          /\ approval'.step = approval.step /\ approval'.version = approval.version
          /\ Len(approval'.steps) = Len(approval.steps) /\ approval'.steps[k].status = outcome
          /\ approval'.steps[k].escalate = approval.steps[k].escalate
          /\ \A j \in 1..Len(approval.steps) : j # k => approval'.steps[j] = approval.steps[j]
      <3>1. outcome \in ApprovalStatuses /\ outcome \in StepStatuses
        BY DEF ApprovalStatuses, StepStatuses
      <3> HIDE DEF k
      <3> QED  BY <1>1, <2>1, <3>1, UpdatedApproval
    <2>3. approval'.steps \in Seq(ApprovalSteps) /\ approval'.status # "none"
             /\ approval'.status # "pending"
      BY <2>2 DEF ApprovalRecord
    <2>4. ApprovalsTypeOK'
      <3>1. /\ approval'.status \in {"none", "pending", "approved", "rejected"}
            /\ \A j \in DOMAIN approval'.steps : approval'.steps[j].status \in StepStatuses
        BY <2>2, <2>3, StatusOfStep
      <3>2. decisions' \in Seq([step : Nat, outcome : {"approved", "rejected"}])
        <4>1. [step |-> k, outcome |-> outcome] \in [step : Nat, outcome : {"approved", "rejected"}]
          BY <1>1
        <4> QED  BY <2>1, <4>1 DEF ApprovalsIInv, ApprovalsTypeOK
      <3> QED  BY <2>1, <3>1, <3>2 DEF ApprovalsIInv, ApprovalsTypeOK
    <2>5. ApprovalSound'
      BY <1>1, <2>1, <2>2, <2>3 DEF ApprovalsIInv, ApprovalSound
    <2>6. \A y \in ApprovalTxns : deciding[y].op = "answer" => overtaken
      BY <1>3 DEF ApprovalsIInv, DecidingSound
    <2>7. DecidingSound'
      <3> SUFFICES ASSUME NEW y \in ApprovalTxns
                   PROVE  DecidingSound!(y)'
        BY DEF DecidingSound
      <3>1. CASE y = x
        BY <2>1, <2>2, <2>3, <3>1 DEF ApprovalsIInv, ApprovalsTypeOK
      <3>2. CASE y # x
        <4>1. deciding'[y] = deciding[y] /\ overtaken' = overtaken
          BY <2>1, <3>2
        <4>2. \A j \in 1..Len(approval.steps) : approval'.steps[j].escalate = approval.steps[j].escalate
          BY <2>2
        <4> QED  BY <2>2, <2>3, <2>6, <4>1, <4>2 DEF ApprovalsIInv, DecidingSound
      <3> QED  BY <3>1, <3>2
    <2>8. SubjectDecidedOnce'
      <3> SUFFICES ASSUME ~overtaken
                   PROVE  SubjectDecidedOnce'
        BY <2>1 DEF SubjectDecidedOnce
      <3>1. decisions = <<>> /\ answered = "none"
        BY <1>3 DEF ApprovalsIInv, SubjectDecidedOnce
      <3>2. decisions' = <<[step |-> k, outcome |-> outcome]>>
        BY <2>1, <3>1
      <3>3. Len(decisions') = 1 /\ DOMAIN decisions' = {1}
               /\ decisions'[1] = [step |-> k, outcome |-> outcome]
        BY <3>2
      <3> QED  BY <2>1, <2>2, <3>1, <3>3 DEF SubjectDecidedOnce
    <2>9. PendingStepIsOpen'
      BY <1>1, <2>1, <2>2, <2>3 DEF ApprovalsIInv, PendingStepIsOpen
    <2> QED  BY <2>4, <2>5, <2>7, <2>8, <2>9 DEF ApprovalsIInv
  <1> QED  BY <1>2, <1>3

\* The answer to the subject's service keeps the invariant.
LEMMA AnswerStep ==
    ASSUME ApprovalsIInv, NEW x \in ApprovalTxns, NEW lost \in BOOLEAN, AnswerSubject(x, lost)
    PROVE  ApprovalsIInv'
  <1>1. /\ approval.status # "none" /\ deciding[x].outcome \in {"approved", "rejected"}
        /\ ~overtaken => approval.status = deciding[x].outcome
        /\ answered' \in {answered, deciding[x].outcome}
        /\ answered # "none" => answered' = answered
        /\ deciding' = [deciding EXCEPT ![x] = NotDeciding]
        /\ UNCHANGED <<policy, approval, decisions, delegated, overtaken>>
    BY DEF ApprovalsIInv, DecidingSound, AnswerSubject
  <1>2. ApprovalsTypeOK'
    BY <1>1 DEF ApprovalsIInv, ApprovalsTypeOK
  <1>3. ApprovalSound'
    BY <1>1 DEF ApprovalsIInv, ApprovalSound
  <1>4. DecidingSound'
    BY <1>1 DEF ApprovalsIInv, DecidingSound, NotDeciding
  <1>5. SubjectDecidedOnce'
    <2> SUFFICES ASSUME ~overtaken
                 PROVE  SubjectDecidedOnce'
      BY <1>1 DEF SubjectDecidedOnce
    <2>1. Len(decisions) = 1 /\ decisions # <<>>
             /\ \A n \in DOMAIN decisions : decisions[n].outcome = approval.status
      BY <1>1 DEF ApprovalsIInv, SubjectDecidedOnce
    <2> QED  BY <1>1, <2>1 DEF ApprovalsIInv, SubjectDecidedOnce
  <1>6. PendingStepIsOpen'
    BY <1>1 DEF ApprovalsIInv, PendingStepIsOpen
  <1> QED  BY <1>2, <1>3, <1>4, <1>5, <1>6 DEF ApprovalsIInv

\* Every step of Approvals keeps the invariant.
LEMMA ApprovalsStep ==
    ASSUME ApprovalsIInv, ApprovalsNext
    PROVE  ApprovalsIInv'
  <1>1. CASE CreateApproval
    BY <1>1, CreateStep
  <1>2. ASSUME NEW d \in Definitions, PublishVersion(d)
        PROVE  ApprovalsIInv'
    <2>1. DecidingSound' /\ SubjectDecidedOnce'
      BY <1>2 DEF ApprovalsIInv, DecidingSound, SubjectDecidedOnce, PublishVersion
    <2>2. ApprovalsTypeOK'
      BY <1>2 DEF ApprovalsIInv, ApprovalsTypeOK, PublishVersion
    <2>3. ApprovalSound'
      <3> DEFINE vs == policy.versions
      <3>1. vs \in Seq(Definitions) /\ DOMAIN policy = {"active", "versions"} /\ vs # <<>>
        BY DEF ApprovalsIInv, ApprovalsTypeOK, ApprovalSound
      <3>2. /\ policy'.versions = Append(vs, d) /\ DOMAIN policy' = {"active", "versions"}
            /\ UNCHANGED <<approval, decisions, answered>>
        BY <1>2, <3>1 DEF PublishVersion
      <3> HIDE DEF vs
      <3>3. Len(Append(vs, d)) = Len(vs) + 1 /\ Len(vs) \in Nat
               /\ \A j \in 1..Len(vs) : Append(vs, d)[j] = vs[j]
        BY <3>1
      <3>4. Append(vs, d) # <<>>
        BY <3>1
      <3> QED  BY <3>1, <3>2, <3>3, <3>4 DEF ApprovalsIInv, ApprovalSound, vs
    <2>4. PendingStepIsOpen'
      BY <1>2 DEF ApprovalsIInv, PendingStepIsOpen, ApprovalSound, PublishVersion
    <2>q. QED  BY <2>1, <2>2, <2>3, <2>4 DEF ApprovalsIInv
  <1>3. ASSUME NEW active \in BOOLEAN, SetActive(active)
        PROVE  ApprovalsIInv'
    <2>1. DecidingSound' /\ SubjectDecidedOnce'
      BY <1>3 DEF ApprovalsIInv, DecidingSound, SubjectDecidedOnce, SetActive
    <2>2. ApprovalsTypeOK'
      BY <1>3 DEF ApprovalsIInv, ApprovalsTypeOK, SetActive
    <2>3. ApprovalSound'
      BY <1>3 DEF ApprovalsIInv, ApprovalSound, SetActive
    <2>4. PendingStepIsOpen'
      BY <1>3 DEF ApprovalsIInv, PendingStepIsOpen, SetActive
    <2>q. QED  BY <2>1, <2>2, <2>3, <2>4 DEF ApprovalsIInv
  <1>4. ASSUME NEW from \in Approvers, NEW to \in Approvers, CreateDelegation(from, to)
        PROVE  ApprovalsIInv'
    <2>1. /\ ApprovalSound'
          /\ DecidingSound'
          /\ SubjectDecidedOnce'
          /\ PendingStepIsOpen'
      BY <1>4 DEF ApprovalsIInv, ApprovalSound, DecidingSound, SubjectDecidedOnce,
         PendingStepIsOpen, CreateDelegation
    <2>2. ApprovalsTypeOK'
      BY <1>4 DEF ApprovalsIInv, ApprovalsTypeOK, CreateDelegation
    <2>q. QED  BY <2>1, <2>2 DEF ApprovalsIInv
  <1>5. ASSUME NEW x \in ApprovalTxns, EscalateApprovalRead(x)
        PROVE  ApprovalsIInv'
    <2>1. ApprovalSound' /\ SubjectDecidedOnce' /\ PendingStepIsOpen'
      BY <1>5 DEF ApprovalsIInv, ApprovalSound, SubjectDecidedOnce, PendingStepIsOpen,
         EscalateApprovalRead
    <2>2. ApprovalsTypeOK'
      BY <1>5 DEF ApprovalsIInv, ApprovalsTypeOK, EscalateApprovalRead
    <2>3. DecidingSound'
      BY <1>5 DEF ApprovalsIInv, DecidingSound, ApprovalSound, EscalateApprovalRead
    <2>q. QED  BY <2>1, <2>2, <2>3 DEF ApprovalsIInv
  <1>6. ASSUME NEW x \in ApprovalTxns, EscalateApprovalWrite(x)
        PROVE  ApprovalsIInv'
    BY <1>6, EscalateStep
  <1>7. ASSUME NEW x \in ApprovalTxns, NEW lost \in BOOLEAN, AnswerSubject(x, lost)
        PROVE  ApprovalsIInv'
    BY <1>7, AnswerStep
  <1>8. ASSUME NEW x \in ApprovalTxns, NEW a \in Approvers, DecideApprovalRead(x, a)
        PROVE  ApprovalsIInv'
    <2>1. ApprovalSound' /\ SubjectDecidedOnce' /\ PendingStepIsOpen'
      BY <1>8 DEF ApprovalsIInv, ApprovalSound, SubjectDecidedOnce, PendingStepIsOpen,
         DecideApprovalRead
    <2>2. ApprovalsTypeOK'
      BY <1>8 DEF ApprovalsIInv, ApprovalsTypeOK, DecideApprovalRead
    <2>3. DecidingSound'
      BY <1>8 DEF ApprovalsIInv, DecidingSound, ApprovalSound, DecideApprovalRead
    <2>q. QED  BY <2>1, <2>2, <2>3 DEF ApprovalsIInv
  <1>9. ASSUME NEW x \in ApprovalTxns, NEW outcome \in {"approved", "rejected"},
               DecideApprovalWrite(x, outcome)
        PROVE  ApprovalsIInv'
    BY <1>9, DecideStep
  <1>q. QED  BY <1>1, <1>2, <1>3, <1>4, <1>5, <1>6, <1>7, <1>8, <1>9 DEF ApprovalsNext

-----------------------------------------------------------------------------
(* Accounts *)

\* The columns of the rows, and the tokens that requests have read, which keep
\* the purpose they were issued for; the unmarked ones are MFA challenges.
AccountsSound ==
    /\ DOMAIN account = {"exists", "password", "verified", "failures", "locked", "secret", "mfa"}
    /\ account.failures \in Nat
    /\ DOMAIN oneTime = OneTimeTokens /\ DOMAIN authTxn = AuthTxns
    /\ \A t \in OneTimeTokens : DOMAIN oneTime[t] = {"purpose", "used", "role"}
    /\ uses \in [OneTimeTokens -> Nat]
    /\ \A x \in AuthTxns : authTxn[x].op \in Purposes =>
          /\ DOMAIN authTxn[x] = {"op", "token", "recoveryCode"}
          /\ authTxn[x].token \in OneTimeTokens
          /\ oneTime[authTxn[x].token].purpose = authTxn[x].op
    /\ unmarked \subseteq OneTimeTokens
    /\ \A t \in unmarked : oneTime[t].purpose = "mfa_pending"

\* A token that had its effect is marked.
UsedTokensAreMarked == \A t \in OneTimeTokens : uses[t] > 0 => oneTime[t].used

AccountsIInv ==
    /\ AccountsSound
    /\ UsedTokensAreMarked
    /\ TokensWorkOnce
    /\ AdminSessionsPassedMfa
    /\ FailuresLock

\* Every step of an account keeps the invariant.
LEMMA AccountsStep ==
    ASSUME AccountsIInv, AccountsNext
    PROVE  AccountsIInv'
  <1>1. ASSUME NEW t \in OneTimeTokens, Register(t)
        PROVE  AccountsIInv'
    <2>1. TokensWorkOnce'
      BY <1>1 DEF AccountsIInv, TokensWorkOnce, Register, AccountsSound, Issue, Unissued
    <2>2. AccountsSound'
      BY <1>1 DEF AccountsIInv, AccountsSound, Register, Issue, Unissued, Purposes
    <2>3. UsedTokensAreMarked'
      BY <1>1 DEF AccountsIInv, UsedTokensAreMarked, Register, Issue, Unissued
    <2>4. AdminSessionsPassedMfa'
      BY <1>1 DEF AccountsIInv, AdminSessionsPassedMfa, Register
    <2>5. FailuresLock'
      BY <1>1 DEF AccountsIInv, FailuresLock, Register
    <2>q. QED  BY <2>1, <2>2, <2>3, <2>4, <2>5 DEF AccountsIInv
  <1>2. ASSUME NEW t \in OneTimeTokens, ResendVerification(t)
        PROVE  AccountsIInv'
    <2>1. TokensWorkOnce' /\ AdminSessionsPassedMfa' /\ FailuresLock'
      BY <1>2 DEF AccountsIInv, TokensWorkOnce, AdminSessionsPassedMfa, FailuresLock,
         ResendVerification, AccountsSound, Issue, Unissued
    <2>2. AccountsSound'
      BY <1>2 DEF AccountsIInv, AccountsSound, ResendVerification, Issue, Unissued, Purposes
    <2>3. UsedTokensAreMarked'
      BY <1>2 DEF AccountsIInv, UsedTokensAreMarked, ResendVerification, Issue, Unissued
    <2>q. QED  BY <2>1, <2>2, <2>3 DEF AccountsIInv
  <1>3. ASSUME NEW t \in OneTimeTokens, RequestPasswordReset(t)
        PROVE  AccountsIInv'
    <2>1. TokensWorkOnce' /\ AdminSessionsPassedMfa' /\ FailuresLock'
      BY <1>3 DEF AccountsIInv, TokensWorkOnce, AdminSessionsPassedMfa, FailuresLock,
         RequestPasswordReset, AccountsSound, Issue, Unissued
    <2>2. AccountsSound'
      BY <1>3 DEF AccountsIInv, AccountsSound, RequestPasswordReset, Issue, Unissued, Purposes
    <2>3. UsedTokensAreMarked'
      BY <1>3 DEF AccountsIInv, UsedTokensAreMarked, RequestPasswordReset, Issue, Unissued
    <2>q. QED  BY <2>1, <2>2, <2>3 DEF AccountsIInv
  <1>4. ASSUME NEW t \in OneTimeTokens, RequestMagicLink(t)
        PROVE  AccountsIInv'
    <2>1. TokensWorkOnce' /\ AdminSessionsPassedMfa' /\ FailuresLock'
      BY <1>4 DEF AccountsIInv, TokensWorkOnce, AdminSessionsPassedMfa, FailuresLock,
         RequestMagicLink, AccountsSound, Issue, Unissued
    <2>2. AccountsSound'
      BY <1>4 DEF AccountsIInv, AccountsSound, RequestMagicLink, Issue, Unissued, Purposes
    <2>3. UsedTokensAreMarked'
      BY <1>4 DEF AccountsIInv, UsedTokensAreMarked, RequestMagicLink, Issue, Unissued
    <2>q. QED  BY <2>1, <2>2, <2>3 DEF AccountsIInv
  <1>5. ASSUME NEW t \in OneTimeTokens, OauthStart(t)
        PROVE  AccountsIInv'
    <2>1. TokensWorkOnce' /\ AdminSessionsPassedMfa' /\ FailuresLock'
      BY <1>5 DEF AccountsIInv, TokensWorkOnce, AdminSessionsPassedMfa, FailuresLock,
         OauthStart, AccountsSound, Issue, Unissued
    <2>2. AccountsSound'
      BY <1>5 DEF AccountsIInv, AccountsSound, OauthStart, Issue, Unissued, Purposes
    <2>3. UsedTokensAreMarked'
      BY <1>5 DEF AccountsIInv, UsedTokensAreMarked, OauthStart, Issue, Unissued
    <2>q. QED  BY <2>1, <2>2, <2>3 DEF AccountsIInv
  <1>6. ASSUME NEW t \in OneTimeTokens, StartOidcLogin(t)
        PROVE  AccountsIInv'
    <2>1. TokensWorkOnce' /\ AdminSessionsPassedMfa' /\ FailuresLock'
      BY <1>6 DEF AccountsIInv, TokensWorkOnce, AdminSessionsPassedMfa, FailuresLock,
         StartOidcLogin, AccountsSound, Issue, Unissued
    <2>2. AccountsSound'
      BY <1>6 DEF AccountsIInv, AccountsSound, StartOidcLogin, Issue, Unissued, Purposes
    <2>3. UsedTokensAreMarked'
      BY <1>6 DEF AccountsIInv, UsedTokensAreMarked, StartOidcLogin, Issue, Unissued
    <2>q. QED  BY <2>1, <2>2, <2>3 DEF AccountsIInv
  <1>7. ASSUME NEW x \in AuthTxns, NEW t \in OneTimeTokens, LoginChallenge(x, t)
        PROVE  AccountsIInv'
    <2>1. TokensWorkOnce' /\ AdminSessionsPassedMfa' /\ FailuresLock'
      BY <1>7 DEF AccountsIInv, TokensWorkOnce, AdminSessionsPassedMfa, FailuresLock,
         LoginChallenge, AccountsSound, Issue, Unissued
    <2>2. AccountsSound'
      BY <1>7 DEF AccountsIInv, AccountsSound, Purposes, LoginChallenge, Issue, EndAuth,
         NoAuthTxn, Unissued
    <2>3. UsedTokensAreMarked'
      BY <1>7 DEF AccountsIInv, UsedTokensAreMarked, LoginChallenge, Issue, Unissued
    <2>q. QED  BY <2>1, <2>2, <2>3 DEF AccountsIInv
  <1>8. ASSUME NEW x \in AuthTxns, NEW t \in OneTimeTokens, IssueForUser(x, t)
        PROVE  AccountsIInv'
    <2>1. TokensWorkOnce' /\ FailuresLock'
      BY <1>8 DEF AccountsIInv, TokensWorkOnce, FailuresLock, IssueForUser, AccountsSound, Issue, Unissued
    <2>2. AccountsSound'
      BY <1>8 DEF AccountsIInv, AccountsSound, Purposes, IssueForUser, Issue, EndAuth,
         NoAuthTxn, Unissued
    <2>3. UsedTokensAreMarked'
      BY <1>8 DEF AccountsIInv, UsedTokensAreMarked, AccountsSound, IssueForUser, Issue,
         Unissued
    <2>4. AdminSessionsPassedMfa'
      BY <1>8 DEF AccountsIInv, AdminSessionsPassedMfa, IssueForUser
    <2>q. QED  BY <2>1, <2>2, <2>3, <2>4 DEF AccountsIInv
  <1>9. ASSUME NEW x \in AuthTxns, NEW t \in OneTimeTokens, NEW purpose \in Purposes,
               TokenRead(x, t, purpose)
        PROVE  AccountsIInv'
    <2>1. /\ UsedTokensAreMarked'
          /\ TokensWorkOnce'
          /\ AdminSessionsPassedMfa'
          /\ FailuresLock'
      BY <1>9 DEF AccountsIInv, UsedTokensAreMarked, TokensWorkOnce, AdminSessionsPassedMfa,
         FailuresLock, TokenRead, AuthReads
    <2>2. AccountsSound'
      BY <1>9 DEF AccountsIInv, AccountsSound, TokenRead, AuthReads, Usable, Purposes
    <2>q. QED  BY <2>1, <2>2 DEF AccountsIInv
  <1>10. ASSUME NEW x \in AuthTxns, VerifyEmail(x)
        PROVE  AccountsIInv'
    <2>1. AccountsSound'
      BY <1>10 DEF AccountsIInv, AccountsSound, Purposes, VerifyEmail, Consume, EndAuth,
         NoAuthTxn
    <2>2. UsedTokensAreMarked'
      BY <1>10 DEF AccountsIInv, UsedTokensAreMarked, AccountsSound, VerifyEmail, Consume
    <2>3. TokensWorkOnce'
      BY <1>10 DEF AccountsIInv, TokensWorkOnce, AccountsSound, UsedTokensAreMarked,
         VerifyEmail, Consume
    <2>4. AdminSessionsPassedMfa'
      BY <1>10 DEF AccountsIInv, AdminSessionsPassedMfa, VerifyEmail
    <2>5. FailuresLock'
      BY <1>10 DEF AccountsIInv, FailuresLock, VerifyEmail
    <2>q. QED  BY <2>1, <2>2, <2>3, <2>4, <2>5 DEF AccountsIInv
  <1>11. ASSUME NEW x \in AuthTxns, LoginRead(x)
        PROVE  AccountsIInv'
    <2>1. /\ UsedTokensAreMarked'
          /\ TokensWorkOnce'
          /\ AdminSessionsPassedMfa'
          /\ FailuresLock'
      BY <1>11 DEF AccountsIInv, UsedTokensAreMarked, TokensWorkOnce,
         AdminSessionsPassedMfa, FailuresLock, LoginRead, AuthReads
    <2>2. AccountsSound'
      BY <1>11 DEF AccountsIInv, AccountsSound, Purposes, LoginRead, AuthReads
    <2>q. QED  BY <2>1, <2>2 DEF AccountsIInv
  <1>12. ASSUME NEW x \in AuthTxns, LoginOpens(x)
        PROVE  AccountsIInv'
    <2>1. UsedTokensAreMarked' /\ TokensWorkOnce'
      BY <1>12 DEF AccountsIInv, UsedTokensAreMarked, TokensWorkOnce, LoginOpens
    <2>2. AccountsSound'
      BY <1>12 DEF AccountsIInv, AccountsSound, Purposes, LoginOpens, EndAuth, NoAuthTxn
    <2>3. AdminSessionsPassedMfa'
      BY <1>12 DEF AccountsIInv, AdminSessionsPassedMfa, LoginOpens
    <2>4. FailuresLock'
      BY <1>12, AccountsAssumption DEF FailuresLock, LoginOpens
    <2>q. QED  BY <2>1, <2>2, <2>3, <2>4 DEF AccountsIInv
  <1>13. ASSUME NEW x \in AuthTxns, ConfirmPasswordReset(x)
        PROVE  AccountsIInv'
    <2>1. AccountsSound'
      BY <1>13 DEF AccountsIInv, AccountsSound, Purposes, ConfirmPasswordReset, Consume,
         EndAuth, NoAuthTxn
    <2>2. UsedTokensAreMarked'
      BY <1>13 DEF AccountsIInv, UsedTokensAreMarked, AccountsSound, ConfirmPasswordReset,
         Consume
    <2>3. TokensWorkOnce'
      BY <1>13 DEF AccountsIInv, TokensWorkOnce, AccountsSound, UsedTokensAreMarked,
         ConfirmPasswordReset, Consume
    <2>4. AdminSessionsPassedMfa'
      BY <1>13 DEF AccountsIInv, AdminSessionsPassedMfa, ConfirmPasswordReset
    <2>5. FailuresLock'
      BY <1>13, AccountsAssumption DEF FailuresLock, ConfirmPasswordReset
    <2>q. QED  BY <2>1, <2>2, <2>3, <2>4, <2>5 DEF AccountsIInv
  <1>14. ASSUME NEW x \in AuthTxns, ConsumeMagicLink(x)
        PROVE  AccountsIInv'
    <2>1. AdminSessionsPassedMfa' /\ FailuresLock'
      BY <1>14 DEF AccountsIInv, AdminSessionsPassedMfa, FailuresLock, ConsumeMagicLink
    <2>2. AccountsSound'
      BY <1>14 DEF AccountsIInv, AccountsSound, Purposes, ConsumeMagicLink, Consume
    <2>3. UsedTokensAreMarked'
      BY <1>14 DEF AccountsIInv, UsedTokensAreMarked, AccountsSound, ConsumeMagicLink,
         Consume
    <2>4. TokensWorkOnce'
      BY <1>14 DEF AccountsIInv, TokensWorkOnce, AccountsSound, UsedTokensAreMarked,
         ConsumeMagicLink, Consume
    <2>q. QED  BY <2>1, <2>2, <2>3, <2>4 DEF AccountsIInv
  <1>15. ASSUME NEW x \in AuthTxns, OauthCallback(x)
        PROVE  AccountsIInv'
    <2>1. AccountsSound'
      BY <1>15 DEF AccountsIInv, AccountsSound, Purposes, OauthCallback, Consume
    <2>2. UsedTokensAreMarked'
      BY <1>15 DEF AccountsIInv, UsedTokensAreMarked, AccountsSound, OauthCallback, Consume
    <2>3. TokensWorkOnce'
      BY <1>15 DEF AccountsIInv, TokensWorkOnce, AccountsSound, UsedTokensAreMarked,
         OauthCallback, Consume
    <2>4. AdminSessionsPassedMfa'
      BY <1>15 DEF AccountsIInv, AdminSessionsPassedMfa, OauthCallback
    <2>5. FailuresLock'
      BY <1>15 DEF AccountsIInv, FailuresLock, OauthCallback
    <2>q. QED  BY <2>1, <2>2, <2>3, <2>4, <2>5 DEF AccountsIInv
  <1>16. ASSUME NEW x \in AuthTxns, CompleteOidcLogin(x)
        PROVE  AccountsIInv'
    <2>1. FailuresLock'
      BY <1>16 DEF AccountsIInv, FailuresLock, CompleteOidcLogin
    <2>2. AccountsSound'
      BY <1>16 DEF AccountsIInv, AccountsSound, Purposes, CompleteOidcLogin, Consume,
         EndAuth, NoAuthTxn
    <2>3. UsedTokensAreMarked'
      BY <1>16 DEF AccountsIInv, UsedTokensAreMarked, AccountsSound, CompleteOidcLogin,
         Consume
    <2>4. TokensWorkOnce'
      BY <1>16 DEF AccountsIInv, TokensWorkOnce, AccountsSound, UsedTokensAreMarked,
         CompleteOidcLogin, Consume
    <2>5. AdminSessionsPassedMfa'
      BY <1>16 DEF AccountsIInv, AdminSessionsPassedMfa, CompleteOidcLogin
    <2>q. QED  BY <2>1, <2>2, <2>3, <2>4, <2>5 DEF AccountsIInv
  <1>17. ASSUME NEW x \in AuthTxns, NEW failed, MfaVerify(x, failed)
        PROVE  AccountsIInv'
    <2> DEFINE t == authTxn[x].token
    <2>1. /\ t \in OneTimeTokens /\ oneTime[t].purpose = "mfa_pending"
          /\ authTxn' = [authTxn EXCEPT ![x] = [op |-> "verified", role |-> oneTime[t].role]]
          /\ UNCHANGED <<account, role, opened, lockRaces>>
      BY <1>17 DEF AccountsIInv, AccountsSound, Purposes, MfaVerify
    <2>2. AdminSessionsPassedMfa' /\ FailuresLock'
      BY <2>1 DEF AccountsIInv, AdminSessionsPassedMfa, FailuresLock
    <2>3. CASE Consume(t)
      <3>1. AccountsSound'
        BY <2>1, <2>3 DEF AccountsIInv, AccountsSound, Purposes, Consume
      <3>2. UsedTokensAreMarked'
        BY <2>1, <2>3 DEF AccountsIInv, UsedTokensAreMarked, AccountsSound, Consume
      <3>3. TokensWorkOnce'
        BY <2>1, <2>3 DEF AccountsIInv, TokensWorkOnce, AccountsSound, UsedTokensAreMarked, Consume
      <3> QED  BY <2>2, <3>1, <3>2, <3>3 DEF AccountsIInv
    <2>4. CASE LeaveUnmarked(t)
      <3>1. AccountsSound'
        BY <2>1, <2>4 DEF AccountsIInv, AccountsSound, Purposes, LeaveUnmarked
      <3>2. UsedTokensAreMarked' /\ TokensWorkOnce'
        BY <2>1, <2>4 DEF AccountsIInv, UsedTokensAreMarked, TokensWorkOnce, LeaveUnmarked
      <3> QED  BY <2>2, <3>1, <3>2 DEF AccountsIInv
    <2> QED  BY <1>17, <2>3, <2>4 DEF MfaVerify
  <1>23. ASSUME NEW x \in AuthTxns, RecoveryCodeRead(x)
        PROVE  AccountsIInv'
    <2>1. UsedTokensAreMarked' /\ TokensWorkOnce' /\ AdminSessionsPassedMfa' /\ FailuresLock'
      BY <1>23 DEF AccountsIInv, UsedTokensAreMarked, TokensWorkOnce, AdminSessionsPassedMfa,
         FailuresLock, RecoveryCodeRead
    <2>2. AccountsSound'
      BY <1>23 DEF AccountsIInv, AccountsSound, Purposes, RecoveryCodeRead
    <2>q. QED  BY <2>1, <2>2 DEF AccountsIInv
  <1>24. ASSUME NEW x \in AuthTxns, NEW failed, MfaOpens(x, failed)
        PROVE  AccountsIInv'
    <2>1. UsedTokensAreMarked' /\ TokensWorkOnce'
      BY <1>24 DEF AccountsIInv, UsedTokensAreMarked, TokensWorkOnce, MfaOpens
    <2>2. AccountsSound'
      BY <1>24 DEF AccountsIInv, AccountsSound, Purposes, MfaOpens, EndAuth, NoAuthTxn
    <2>3. AdminSessionsPassedMfa'
      BY <1>24 DEF AccountsIInv, AccountsSound, AdminSessionsPassedMfa, MfaOpens
    <2>4. FailuresLock'
      BY <1>24, AccountsAssumption DEF AccountsIInv, AccountsSound, FailuresLock, MfaOpens
    <2>q. QED  BY <2>1, <2>2, <2>3, <2>4 DEF AccountsIInv
  <1>18. CASE LoginFails
    <2>1. UsedTokensAreMarked' /\ TokensWorkOnce'
      BY <1>18 DEF AccountsIInv, UsedTokensAreMarked, TokensWorkOnce, LoginFails
    <2>2. AccountsSound'
      BY <1>18 DEF AccountsIInv, AccountsSound, LoginFails
    <2>3. AdminSessionsPassedMfa'
      BY <1>18 DEF AccountsIInv, AdminSessionsPassedMfa, LoginFails
    <2>4. FailuresLock'
      BY <1>18, AccountsAssumption DEF AccountsIInv, FailuresLock, AccountsSound, Purposes,
         LoginFails
    <2>q. QED  BY <2>1, <2>2, <2>3, <2>4 DEF AccountsIInv
  <1>19. CASE LockLapses
    <2>1. UsedTokensAreMarked' /\ TokensWorkOnce'
      BY <1>19 DEF AccountsIInv, UsedTokensAreMarked, TokensWorkOnce, LockLapses
    <2>2. AccountsSound'
      BY <1>19 DEF AccountsIInv, AccountsSound, LockLapses
    <2>3. AdminSessionsPassedMfa'
      BY <1>19 DEF AccountsIInv, AdminSessionsPassedMfa, LockLapses
    <2>4. FailuresLock'
      BY <1>19 DEF FailuresLock, LockLapses
    <2>q. QED  BY <2>1, <2>2, <2>3, <2>4 DEF AccountsIInv
  <1>20. CASE MfaSetup
    <2>1. UsedTokensAreMarked' /\ TokensWorkOnce'
      BY <1>20 DEF AccountsIInv, UsedTokensAreMarked, TokensWorkOnce, MfaSetup
    <2>2. AccountsSound'
      BY <1>20 DEF AccountsIInv, AccountsSound, MfaSetup
    <2>3. AdminSessionsPassedMfa'
      BY <1>20 DEF AccountsIInv, AdminSessionsPassedMfa, MfaSetup
    <2>4. FailuresLock'
      BY <1>20 DEF AccountsIInv, FailuresLock, MfaSetup
    <2>q. QED  BY <2>1, <2>2, <2>3, <2>4 DEF AccountsIInv
  <1>21. CASE MfaConfirm
    <2>1. UsedTokensAreMarked' /\ TokensWorkOnce'
      BY <1>21 DEF AccountsIInv, UsedTokensAreMarked, TokensWorkOnce, MfaConfirm
    <2>2. AccountsSound'
      BY <1>21 DEF AccountsIInv, AccountsSound, MfaConfirm
    <2>3. AdminSessionsPassedMfa'
      BY <1>21 DEF AccountsIInv, AdminSessionsPassedMfa, MfaConfirm
    <2>4. FailuresLock'
      BY <1>21 DEF AccountsIInv, FailuresLock, MfaConfirm
    <2>q. QED  BY <2>1, <2>2, <2>3, <2>4 DEF AccountsIInv
  <1>22. CASE RoleChanges
    <2>1. /\ AccountsSound'
          /\ UsedTokensAreMarked'
          /\ TokensWorkOnce'
          /\ AdminSessionsPassedMfa'
          /\ FailuresLock'
      BY <1>22 DEF AccountsIInv, AccountsSound, UsedTokensAreMarked, TokensWorkOnce,
         AdminSessionsPassedMfa, FailuresLock, RoleChanges
    <2>q. QED  BY <2>1 DEF AccountsIInv
  <1>q. QED  BY <1>1, <1>2, <1>3, <1>4, <1>5, <1>6, <1>7, <1>8, <1>9, <1>10, <1>11, <1>12,
                <1>13, <1>14, <1>15, <1>16, <1>17, <1>18, <1>19, <1>20, <1>21, <1>22,
                <1>23, <1>24
             DEF AccountsNext

-----------------------------------------------------------------------------
(* Signing keys *)

\* A kid that tokens may carry is in the table, on its way there, or known lost.
Accounted(k) == k \in StoredKids \cup unstored \/ \E c \in Replicas : <<c, k>> \in storing

\* What a replica holds is accounted for.
CoreRingsSound ==
    /\ \A c \in Replicas : coreRings[c].active \in coreRings[c].kids
    /\ \A c \in Replicas : \A k \in coreRings[c].kids : Accounted(k)

\* A key on its way to the table is not there yet, and no other replica holds it.
StoringSound ==
    /\ \A c \in Replicas, k \in KnownKids : <<c, k>> \in storing =>
          /\ keyTable[k] = "none" /\ k \in NewKids
          /\ \A d \in Replicas : k \in coreRings[d].kids <=> d = c
    /\ keyTable[BootstrapKid] # "none"

\* What the service observed holds came from the table; the integration service
\* never reads it.
ReaderRingSound ==
    /\ keyRings[reader] \subseteq StoredKids
    /\ BootstrapKid \in keyRings[reader]
    /\ reader = "integration" => keyRings[reader] = {BootstrapKid}

SigningKeysIInv ==
    /\ SigningKeysTypeOK
    /\ CoreRingsSound
    /\ StoringSound
    /\ ReaderRingSound
    /\ SigningKeysAreStored

\* Every step of the signing keys keeps the invariant.
LEMMA SigningKeysStep ==
    ASSUME SigningKeysIInv, SigningKeysNext
    PROVE  SigningKeysIInv'
  <1>1. ASSUME NEW c \in Replicas, MintAccessToken(c)
        PROVE  SigningKeysIInv'
    <2>1. CoreRingsSound' /\ StoringSound' /\ ReaderRingSound'
      BY <1>1 DEF SigningKeysIInv, CoreRingsSound, StoringSound, ReaderRingSound, Accounted,
         StoredKids, MintAccessToken
    <2>2. SigningKeysTypeOK'
      BY <1>1 DEF SigningKeysIInv, SigningKeysTypeOK, MintAccessToken
    <2>3. SigningKeysAreStored'
      BY <1>1 DEF SigningKeysIInv, SigningKeysAreStored, SigningKeysTypeOK, CoreRingsSound,
         KnownKids, StoredKids, Accounted, MintAccessToken
    <2>q. QED  BY <2>1, <2>2, <2>3 DEF SigningKeysIInv
  <1>2. ASSUME NEW c \in Replicas, RefreshJwks(c)
        PROVE  SigningKeysIInv'
    <2>1. CoreRingsSound' /\ StoringSound' /\ SigningKeysAreStored'
      BY <1>2 DEF SigningKeysIInv, CoreRingsSound, StoringSound, SigningKeysAreStored,
         Accounted, StoredKids, RefreshJwks
    <2>2. SigningKeysTypeOK'
      BY <1>2 DEF SigningKeysIInv, SigningKeysTypeOK, RefreshJwks
    <2>3. ReaderRingSound'
      BY <1>2, SigningKeysAssumption DEF SigningKeysIInv, ReaderRingSound,
         SigningKeysTypeOK, StoredKids, RefreshJwks
    <2>q. QED  BY <2>1, <2>2, <2>3 DEF SigningKeysIInv
  <1>3. ASSUME NEW k \in signed, TokensExpire(k)
        PROVE  SigningKeysIInv'
    <2>1. CoreRingsSound' /\ StoringSound' /\ ReaderRingSound'
      BY <1>3 DEF SigningKeysIInv, CoreRingsSound, StoringSound, ReaderRingSound, Accounted,
         StoredKids, TokensExpire
    <2>2. SigningKeysTypeOK'
      BY <1>3 DEF SigningKeysIInv, SigningKeysTypeOK, TokensExpire
    <2>3. SigningKeysAreStored'
      BY <1>3 DEF SigningKeysIInv, SigningKeysAreStored, StoredKids, TokensExpire
    <2>q. QED  BY <2>1, <2>2, <2>3 DEF SigningKeysIInv
  <1>4. ASSUME NEW c \in Replicas, NEW k \in NewKids, RotateJwks(c, k)
        PROVE  SigningKeysIInv'
    <2>1. ReaderRingSound'
      BY <1>4 DEF SigningKeysIInv, ReaderRingSound, StoredKids, RotateJwks
    <2>2. SigningKeysTypeOK'
      BY <1>4 DEF SigningKeysIInv, SigningKeysTypeOK, KnownKids, RotateJwks, Upsert
    <2>3. CoreRingsSound'
      <3>1. \A d \in Replicas :
                coreRings'[d] = IF d = c THEN [kids |-> coreRings[c].kids \cup {k}, active |-> k] ELSE coreRings[d]
        BY <1>4 DEF SigningKeysIInv, SigningKeysTypeOK, RotateJwks, Upsert
      <3>2. \A j : Accounted(j) => Accounted(j)'
        BY <1>4 DEF RotateJwks, Accounted, StoredKids
      <3>3. Accounted(k)'
        BY <1>4 DEF RotateJwks, Accounted
      <3> QED  BY <3>1, <3>2, <3>3 DEF SigningKeysIInv, CoreRingsSound
    <2>4. StoringSound'
      <3>1. \A d \in Replicas :
                coreRings'[d] = IF d = c THEN [kids |-> coreRings[c].kids \cup {k}, active |-> k] ELSE coreRings[d]
        BY <1>4 DEF SigningKeysIInv, SigningKeysTypeOK, RotateJwks, Upsert
      <3>2. \A d \in Replicas, j \in KnownKids :
                <<d, j>> \in storing' => <<d, j>> \in storing \/ (d = c /\ j = k)
        BY <1>4 DEF RotateJwks
      <3>3. /\ UNCHANGED keyTable /\ keyTable[k] = "none"
                  /\ \A d \in Replicas : k \notin coreRings[d].kids
        BY <1>4 DEF RotateJwks
      <3>4. \A d \in Replicas : <<d, k>> \notin storing
        BY <3>3 DEF SigningKeysIInv, StoringSound, KnownKids
      <3> QED  BY <3>1, <3>2, <3>3, <3>4 DEF SigningKeysIInv, StoringSound
    <2>5. SigningKeysAreStored'
      BY <1>4 DEF SigningKeysIInv, SigningKeysAreStored, SigningKeysTypeOK, CoreRingsSound,
         KnownKids, StoredKids, Accounted, RotateJwks, Upsert
    <2>q. QED  BY <2>1, <2>2, <2>3, <2>4, <2>5 DEF SigningKeysIInv
  <1>5. ASSUME NEW c \in Replicas, NEW k \in NewKids, NEW u \in BOOLEAN, NEW i \in BOOLEAN,
               StoreKey(c, k, u, i)
        PROVE  SigningKeysIInv'
    <2>1. SigningKeysTypeOK'
      BY <1>5 DEF SigningKeysIInv, SigningKeysTypeOK, StoreKey
    <2>2. CoreRingsSound'
      <3>1. keyTable[k] = "none" /\ <<c, k>> \in storing
        BY <1>5 DEF SigningKeysIInv, StoringSound, StoreKey, KnownKids
      <3>2. \A j \in KnownKids : keyTable[j] # "none" => keyTable'[j] # "none"
        BY <1>5, <3>1 DEF StoreKey
      <3>3. keyTable'[k] # "none" \/ k \in unstored'
        BY <1>5 DEF StoreKey, KnownKids
      <3>4. \A j : Accounted(j) => Accounted(j)'
        BY <1>5, <3>2, <3>3 DEF StoreKey, Accounted, StoredKids, KnownKids
      <3>5. UNCHANGED coreRings
        BY <1>5 DEF StoreKey
      <3> QED  BY <3>4, <3>5 DEF SigningKeysIInv, CoreRingsSound
    <2>3. StoringSound'
      <3>1. storing' = storing \ {<<c, k>>} /\ UNCHANGED coreRings /\ <<c, k>> \in storing
        BY <1>5 DEF StoreKey
      <3>2. \A d \in Replicas : <<d, k>> \notin storing'
        BY <1>5, <3>1 DEF SigningKeysIInv, StoringSound, KnownKids
      <3>3. \A j \in KnownKids : j # k /\ keyTable[j] = "none" => keyTable'[j] = "none"
        BY <1>5 DEF StoreKey
      <3>4. keyTable'[BootstrapKid] # "none"
        BY <1>5 DEF SigningKeysIInv, StoringSound, StoreKey, KnownKids
      <3> QED  BY <3>1, <3>2, <3>3, <3>4 DEF SigningKeysIInv, StoringSound
    <2>4. ReaderRingSound'
      BY <1>5 DEF SigningKeysIInv, ReaderRingSound, StoringSound, StoredKids, StoreKey
    <2>5. SigningKeysAreStored'
      BY <1>5 DEF SigningKeysIInv, SigningKeysAreStored, SigningKeysTypeOK, CoreRingsSound,
         KnownKids, StoredKids, Accounted, StoreKey
    <2>q. QED  BY <2>1, <2>2, <2>3, <2>4, <2>5 DEF SigningKeysIInv
  <1>6. ASSUME NEW c \in Replicas, NEW k \in KnownKids, RestartCore(c, k)
        PROVE  SigningKeysIInv'
    <2>1. SigningKeysTypeOK'
      BY <1>6 DEF SigningKeysIInv, SigningKeysTypeOK, StoringSound, KnownKids, StoredKids,
         RestartCore
    <2>2. CoreRingsSound'
      <3>1. storing' = {y \in storing : y[1] # c}
               /\ unstored' = unstored \cup {y[2] : y \in storing \ storing'}
        BY <1>6 DEF RestartCore
      <3>2. \A d \in Replicas : \A j : <<d, j>> \in storing =>
               <<d, j>> \in storing' \/ j \in unstored'
        BY <3>1
      <3>3. \A j \in KnownKids : keyTable[j] # "none" => keyTable'[j] # "none"
        BY <1>6 DEF RestartCore
      <3>4. unstored \subseteq unstored'
        BY <3>1
      <3>5. \A j : Accounted(j) => Accounted(j)'
        BY <3>2, <3>3, <3>4 DEF Accounted, StoredKids
      <3>6. \A d \in Replicas : coreRings'[d] = IF d = c THEN [kids |-> StoredKids, active |-> k] ELSE coreRings[d]
        BY <1>6 DEF SigningKeysIInv, SigningKeysTypeOK, RestartCore
      <3>7. k \in StoredKids
        BY <1>6 DEF SigningKeysIInv, StoringSound, RestartCore, StoredKids
      <3>8. \A j \in StoredKids : Accounted(j)
        BY DEF Accounted
      <3> QED  BY <3>5, <3>6, <3>7, <3>8 DEF SigningKeysIInv, CoreRingsSound
    <2>3. StoringSound'
      BY <1>6 DEF SigningKeysIInv, StoringSound, StoredKids, RestartCore
    <2>4. ReaderRingSound'
      BY <1>6 DEF SigningKeysIInv, ReaderRingSound, StoredKids, RestartCore
    <2>5. SigningKeysAreStored'
      <3>1. storing' = {y \in storing : y[1] # c}
               /\ unstored' = unstored \cup {y[2] : y \in storing \ storing'}
        BY <1>6 DEF RestartCore
      <3>2. \A d \in Replicas : \A j : <<d, j>> \in storing =>
               <<d, j>> \in storing' \/ j \in unstored'
        BY <3>1
      <3>3. \A j \in KnownKids : keyTable[j] # "none" => keyTable'[j] # "none"
        BY <1>6 DEF RestartCore
      <3>4. unstored \subseteq unstored'
        BY <3>1
      <3>5. \A j : Accounted(j) => Accounted(j)'
        BY <3>2, <3>3, <3>4 DEF Accounted, StoredKids
      <3> QED  BY <1>6, <3>5 DEF SigningKeysIInv, SigningKeysAreStored, Accounted,
                  RestartCore
    <2>q. QED  BY <2>1, <2>2, <2>3, <2>4, <2>5 DEF SigningKeysIInv
  <1>7. ASSUME NEW s \in {reader} \ {"integration"}, NEW kids \in {StoredKids, {}},
               Start(s, kids)
        PROVE  SigningKeysIInv'
    <2>1. CoreRingsSound' /\ StoringSound' /\ SigningKeysAreStored'
      BY <1>7 DEF SigningKeysIInv, CoreRingsSound, StoringSound, SigningKeysAreStored,
         Accounted, StoredKids, Start
    <2>2. SigningKeysTypeOK'
      BY <1>7 DEF SigningKeysIInv, SigningKeysTypeOK, KnownKids, StoredKids, Start
    <2>3. ReaderRingSound'
      BY <1>7 DEF SigningKeysIInv, ReaderRingSound, StoredKids, Start
    <2>q. QED  BY <2>1, <2>2, <2>3 DEF SigningKeysIInv
  <1>8. CASE IntegrationBuildKeyring
    <2>1. CoreRingsSound' /\ StoringSound' /\ SigningKeysAreStored'
      BY <1>8 DEF SigningKeysIInv, CoreRingsSound, StoringSound, SigningKeysAreStored,
         Accounted, StoredKids, IntegrationBuildKeyring, Start
    <2>2. SigningKeysTypeOK'
      BY <1>8 DEF SigningKeysIInv, SigningKeysTypeOK, KnownKids, IntegrationBuildKeyring,
         Start
    <2>3. ReaderRingSound'
      <3>1. keyRings'[reader] = {BootstrapKid} /\ UNCHANGED <<reader, keyTable>>
        BY <1>8 DEF SigningKeysIInv, SigningKeysTypeOK, IntegrationBuildKeyring, Start
      <3>2. BootstrapKid \in StoredKids /\ StoredKids' = StoredKids
        BY <3>1 DEF SigningKeysIInv, StoringSound, StoredKids, KnownKids
      <3> QED  BY <3>1, <3>2 DEF ReaderRingSound
    <2>q. QED  BY <2>1, <2>2, <2>3 DEF SigningKeysIInv
  <1>q. QED  BY <1>1, <1>2, <1>3, <1>4, <1>5, <1>6, <1>7, <1>8
             DEF SigningKeysNext, CrmLoadRotatedKeys, FinanceLoadRotatedKeys,
                HrLoadRotatedKeys, ProjectLoadRotatedKeys, InventoryLoadRotatedKeys,
                WorkflowLoadRotatedKeys, CustomLoadRotatedKeys, AnalyticsLoadRotatedKeys,
                NotificationLoadRotatedKeys, FileLoadRotatedKeys, SearchLoadRotatedKeys,
                AiLoadRotatedKeys, Start

\* What RestartKeepsVerifying says of one step.
KeepsVerifying ==
    /\ \A c \in Replicas : coreRings[c].kids \cap signed \subseteq coreRings'[c].kids \cup unstored'
    /\ \A s \in DOMAIN keyRings :
           \/ keyRings[s] \cap signed \subseteq keyRings'[s] \cup unstored'
           \/ keyRings'[s] = {BootstrapKid} /\ s \in Lenient

\* Every step of the signing keys is one: what a replica or a service reads
\* again is in the table, or is known not to have reached it.
LEMMA KeepsVerifyingStep ==
    ASSUME SigningKeysIInv, SigningKeysNext
    PROVE  KeepsVerifying
  <1>1. /\ DOMAIN coreRings = Replicas /\ DOMAIN keyRings = {reader, "gateway"}
        /\ reader # "gateway" /\ BootstrapKid \in StoredKids
    BY SigningKeysAssumption DEF SigningKeysIInv, SigningKeysTypeOK, StoringSound,
       StoredKids, KnownKids
  <1>2. ASSUME UNCHANGED <<coreRings, keyRings>>
        PROVE  KeepsVerifying
    BY <1>2 DEF KeepsVerifying
  <1>3. ASSUME NEW c \in Replicas, MintAccessToken(c)
        PROVE  KeepsVerifying
    BY <1>2, <1>3 DEF MintAccessToken
  <1>4. ASSUME NEW k \in signed, TokensExpire(k)
        PROVE  KeepsVerifying
    BY <1>2, <1>4 DEF TokensExpire
  <1>5. ASSUME NEW c \in Replicas, NEW k \in NewKids, NEW u \in BOOLEAN, NEW i \in BOOLEAN,
               StoreKey(c, k, u, i)
        PROVE  KeepsVerifying
    BY <1>2, <1>5 DEF StoreKey
  <1>6. ASSUME NEW c \in Replicas, RefreshJwks(c)
        PROVE  KeepsVerifying
    BY <1>1, <1>6 DEF RefreshJwks, KeepsVerifying
  <1>7. ASSUME NEW c \in Replicas, NEW k \in NewKids, RotateJwks(c, k)
        PROVE  KeepsVerifying
    BY <1>1, <1>7 DEF RotateJwks, Upsert, KeepsVerifying
  <1>8. ASSUME NEW c \in Replicas, NEW k \in KnownKids, RestartCore(c, k)
        PROVE  KeepsVerifying
    <2>1. /\ storing' = {y \in storing : y[1] # c}
          /\ unstored' = unstored \cup {y[2] : y \in storing \ storing'}
          /\ coreRings' = [coreRings EXCEPT ![c] = [kids |-> StoredKids, active |-> k]]
          /\ UNCHANGED keyRings
      BY <1>8 DEF RestartCore
    <2>2. \A j : <<c, j>> \in storing => j \in unstored'
      BY <2>1
    <2>3. \A j \in coreRings[c].kids : j \in KnownKids /\ Accounted(j)
      BY DEF SigningKeysIInv, SigningKeysTypeOK, CoreRingsSound
    <2>4. \A j \in coreRings[c].kids, d \in Replicas : <<d, j>> \in storing => d = c
      BY <2>3 DEF SigningKeysIInv, StoringSound
    <2>5. \A j \in coreRings[c].kids : j \in StoredKids \cup unstored'
      BY <2>1, <2>2, <2>3, <2>4 DEF Accounted
    <2> QED  BY <1>1, <2>1, <2>5 DEF KeepsVerifying
  <1>9. ASSUME NEW kids, Start(reader, kids),
               \/ kids = StoredKids
               \/ kids = {} /\ reader \in Lenient \cup {"integration"}
        PROVE  KeepsVerifying
    <2>1. /\ keyRings'[reader] = {BootstrapKid} \cup kids
                /\ keyRings'["gateway"] = keyRings["gateway"]
          /\ UNCHANGED coreRings
      BY <1>1, <1>9 DEF Start
    <2>2. keyRings[reader] \subseteq StoredKids
      BY DEF SigningKeysIInv, ReaderRingSound
    <2>3. reader = "integration" => keyRings[reader] = {BootstrapKid}
      BY DEF SigningKeysIInv, ReaderRingSound
    <2> QED  BY <1>1, <1>9, <2>1, <2>2, <2>3 DEF KeepsVerifying
  <1>10. ASSUME NEW s, NEW kids, Start(s, kids)
         PROVE  s = reader
    BY <1>10 DEF Start
  <1>11. CASE CrmLoadRotatedKeys \/ FinanceLoadRotatedKeys \/ HrLoadRotatedKeys
              \/ ProjectLoadRotatedKeys \/ InventoryLoadRotatedKeys \/ WorkflowLoadRotatedKeys
              \/ CustomLoadRotatedKeys
    BY <1>9, <1>10, <1>11 DEF CrmLoadRotatedKeys, FinanceLoadRotatedKeys, HrLoadRotatedKeys,
       ProjectLoadRotatedKeys, InventoryLoadRotatedKeys, WorkflowLoadRotatedKeys,
       CustomLoadRotatedKeys
  <1>12. CASE AnalyticsLoadRotatedKeys \/ NotificationLoadRotatedKeys \/ FileLoadRotatedKeys
              \/ SearchLoadRotatedKeys \/ AiLoadRotatedKeys
    BY <1>9, <1>10, <1>12 DEF AnalyticsLoadRotatedKeys, NotificationLoadRotatedKeys,
       FileLoadRotatedKeys, SearchLoadRotatedKeys, AiLoadRotatedKeys, Lenient
  <1>13. CASE IntegrationBuildKeyring
    BY <1>9, <1>10, <1>13 DEF IntegrationBuildKeyring
  <1> QED
    BY <1>3, <1>4, <1>5, <1>6, <1>7, <1>8, <1>11, <1>12, <1>13 DEF SigningKeysNext

-----------------------------------------------------------------------------
(* Authorization of requests *)

Members == [status : {"active", "suspended", "revoked"}, version : 1..MaxPolicy,
            owner : BOOLEAN, default : BOOLEAN, role : SUBSET {"allow", "deny"},
            inherited : SUBSET {"allow", "deny"}, delegated : BOOLEAN, lapsed : BOOLEAN]

\* No token is ahead of the policy.
TokensBehind == \A t \in tokens : t.version <= member.version

\* The token of an API key that core would admit has scopes its owner still has,
\* unless a delegation lapsed.
KeyTokensCurrent ==
    \A t \in tokens : t.kind = "api" /\ t.version = member.version /\ ~member.lapsed => Current

\* So has a request that core admitted, until the member moves.
KeyRequestCurrent ==
    /\ inflight # Idle /\ inflight.service = "core" /\ inflight.token.kind = "api"
    /\ ~inflight.moved /\ ~member.lapsed
    => Current

RequestAuthorizationIInv ==
    /\ RequestAuthorizationTypeOK
    /\ TokensBehind
    /\ KeyTokensCurrent
    /\ KeyRequestCurrent

\* A change of the member that bumps policy_version.
LEMMA BumpedMember ==
    ASSUME RequestAuthorizationIInv, CanBump, NEW m \in Members, m.version = member.version,
           ChangeMember(Bumped(m)), liveSession' \in BOOLEAN
    PROVE  RequestAuthorizationIInv'
  <1>1. /\ member' \in Members /\ member'.version = member.version + 1 /\ member.version \in Nat
        /\ UNCHANGED <<apiKeys, tokens, exchanging>> /\ Touch
    <2>1. member.version + 1 \in 1..MaxPolicy /\ member.version \in Nat
      BY RequestAuthorizationAssumption
      DEF RequestAuthorizationIInv, RequestAuthorizationTypeOK, CanBump
    <2>2. member' = [m EXCEPT !.version = member.version + 1, !.lapsed = FALSE]
      BY DEF ChangeMember, Bumped, Members
    <2>3. member' \in Members /\ member'.version = member.version + 1
      BY <2>1, <2>2 DEF Members
    <2> QED  BY <2>1, <2>3 DEF ChangeMember
  <1>2. inflight' = Idle \/ (inflight' \in Request /\ inflight'.moved = TRUE)
    BY <1>1 DEF RequestAuthorizationIInv, RequestAuthorizationTypeOK, Touch, Request
  <1>3. RequestAuthorizationTypeOK'
    BY <1>1, <1>2 DEF RequestAuthorizationIInv, RequestAuthorizationTypeOK, Members
  <1>4. \A t \in tokens' : t.version \in Nat /\ t.version < member'.version
    BY <1>1, RequestAuthorizationAssumption
    DEF RequestAuthorizationIInv, RequestAuthorizationTypeOK, Token, TokensBehind
  <1>5. TokensBehind' /\ KeyTokensCurrent'
    BY <1>1, <1>4 DEF TokensBehind, KeyTokensCurrent
  <1>6. KeyRequestCurrent'
    BY <1>2 DEF KeyRequestCurrent
  <1> QED  BY <1>3, <1>5, <1>6 DEF RequestAuthorizationIInv

\* A step that leaves the member alone, and adds only tokens its policy allows.
LEMMA SameMember ==
    ASSUME RequestAuthorizationIInv, UNCHANGED member, RequestAuthorizationTypeOK',
           \A t \in tokens' : t \in tokens
              \/ (t.version = member.version /\ (t.kind = "api" => Current)),
           KeyRequestCurrent'
    PROVE  RequestAuthorizationIInv'
  <1>1. Current' <=> Current
    BY DEF Current, Decide, FullPrincipal
  <1>2. member.version \in Nat
    BY RequestAuthorizationAssumption DEF RequestAuthorizationIInv, RequestAuthorizationTypeOK
  <1>3. TokensBehind'
    BY <1>2 DEF RequestAuthorizationIInv, TokensBehind
  <1>4. KeyTokensCurrent'
    BY <1>1 DEF RequestAuthorizationIInv, KeyTokensCurrent
  <1> QED  BY <1>3, <1>4 DEF RequestAuthorizationIInv

\* Every step of the member, its tokens and its request keeps the invariant.
LEMMA RequestAuthorizationStep ==
    ASSUME RequestAuthorizationIInv, RequestAuthorizationNext
    PROVE  RequestAuthorizationIInv'
  <1>1. member \in Members /\ liveSession \in BOOLEAN
    BY DEF RequestAuthorizationIInv, RequestAuthorizationTypeOK, Members
  <1>2. ASSUME NEW st \in SUBSET {"allow", "deny"}, UpdateRole(st)
        PROVE  RequestAuthorizationIInv'
    <2> DEFINE m == IF member.owner THEN member ELSE [member EXCEPT !.role = st]
    <2>1. m \in Members /\ m.version = member.version
      BY <1>1 DEF Members
    <2>2. CanBump /\ ChangeMember(Bumped(m)) /\ liveSession' \in BOOLEAN
      BY <1>1, <1>2 DEF UpdateRole
    <2> QED  BY <2>1, <2>2, BumpedMember
  <1>3. ASSUME NEW o \in BOOLEAN, NEW d \in BOOLEAN, NEW st \in SUBSET {"allow", "deny"},
               ChangeRole(o, d, st)
        PROVE  RequestAuthorizationIInv'
    <2> DEFINE m == [member EXCEPT !.owner = o, !.default = d, !.role = st]
    <2>1. m \in Members /\ m.version = member.version
      BY <1>1 DEF Members
    <2>2. CanBump /\ ChangeMember(Bumped(m)) /\ liveSession' \in BOOLEAN
      BY <1>1, <1>3 DEF ChangeRole
    <2> QED  BY <2>1, <2>2, BumpedMember
  <1>4. CASE UpdateSettings
    BY <1>1, <1>4, BumpedMember DEF UpdateSettings
  <1>5. CASE RegisterEntityPermissions
    <2> DEFINE m == [member EXCEPT !.role = IF member.owner /\ @ = {} THEN {"allow"} ELSE @]
    <2>1. m \in Members /\ m.version = member.version
      BY <1>1 DEF Members
    <2>2. CanBump /\ ChangeMember(Bumped(m)) /\ liveSession' \in BOOLEAN
      BY <1>1, <1>5 DEF RegisterEntityPermissions
    <2> QED  BY <2>1, <2>2, BumpedMember
  <1>6. ASSUME NEW e \in {"allow", "deny"}, CreateInherit(e)
        PROVE  RequestAuthorizationIInv'
    <2> DEFINE m == [member EXCEPT !.inherited = @ \cup {e}]
    <2>1. m \in Members /\ m.version = member.version
      BY <1>1 DEF Members
    <2>2. CanBump /\ ChangeMember(Bumped(m)) /\ liveSession' \in BOOLEAN
      BY <1>1, <1>6 DEF CreateInherit
    <2> QED  BY <2>1, <2>2, BumpedMember
  <1>7. ASSUME NEW b \in BOOLEAN, CanBump,
               ChangeMember(Bumped([member EXCEPT !.delegated = b])),
               UNCHANGED liveSession
        PROVE  RequestAuthorizationIInv'
    <2> DEFINE m == [member EXCEPT !.delegated = b]
    <2>1. m \in Members /\ m.version = member.version
      BY <1>1 DEF Members
    <2> QED  BY <1>1, <1>7, <2>1, BumpedMember
  <1>8. CASE DelegationExpires
    <2>1. /\ member' = [member EXCEPT !.delegated = FALSE, !.lapsed = TRUE]
          /\ UNCHANGED <<liveSession, apiKeys, tokens, exchanging>> /\ Touch
      BY <1>8 DEF DelegationExpires, ChangeMember
    <2>2. member' \in Members /\ member'.version = member.version /\ member'.lapsed = TRUE
      BY <1>1, <2>1 DEF Members
    <2>3. inflight' = Idle \/ inflight' \in Request
      BY <2>1 DEF RequestAuthorizationIInv, RequestAuthorizationTypeOK, Touch, Request
    <2>4. RequestAuthorizationTypeOK'
      BY <2>1, <2>2, <2>3 DEF RequestAuthorizationIInv, RequestAuthorizationTypeOK, Members
    <2>5. TokensBehind' /\ KeyTokensCurrent' /\ KeyRequestCurrent'
      BY <2>1, <2>2 DEF RequestAuthorizationIInv, TokensBehind, KeyTokensCurrent,
         KeyRequestCurrent
    <2> QED  BY <2>4, <2>5 DEF RequestAuthorizationIInv
  <1>9. ASSUME NEW st \in {"suspended", "revoked"}, EndMembership(st)
        PROVE  RequestAuthorizationIInv'
    <2> DEFINE m == [member EXCEPT !.status = st]
    <2>1. m \in Members /\ m.version = member.version
      BY <1>1 DEF Members
    <2>2. CanBump /\ ChangeMember(Bumped(m)) /\ liveSession' \in BOOLEAN
      BY <1>9 DEF EndMembership
    <2> QED  BY <2>1, <2>2, BumpedMember
  <1>10. ASSUME UNCHANGED <<member, inflight>>
         PROVE  KeyRequestCurrent'
    BY <1>10 DEF RequestAuthorizationIInv, KeyRequestCurrent, Current, Decide, FullPrincipal
  <1>11. CASE MintSession
    <2>1. [kind |-> "session", version |-> member.version, scoped |-> FALSE] \in Token
      BY <1>1 DEF Token, Members
    <2>2. RequestAuthorizationTypeOK'
      BY <1>11, <2>1 DEF RequestAuthorizationIInv, RequestAuthorizationTypeOK, MintSession
    <2> QED  BY <1>10, <1>11, <2>2, SameMember DEF MintSession
  <1>12. CASE RevokeSession
    <2>1. RequestAuthorizationTypeOK'
      BY <1>12 DEF RequestAuthorizationIInv, RequestAuthorizationTypeOK, RevokeSession
    <2> QED  BY <1>10, <1>12, <2>1, SameMember DEF RevokeSession
  <1>13. ASSUME NEW t \in tokens, ExpireToken(t)
         PROVE  RequestAuthorizationIInv'
    <2>1. RequestAuthorizationTypeOK'
      BY <1>13 DEF RequestAuthorizationIInv, RequestAuthorizationTypeOK, ExpireToken
    <2> QED  BY <1>10, <1>13, <2>1, SameMember DEF ExpireToken
  <1>14. ASSUME NEW keys \in [ApiKeys -> {"none", "live", "revoked"}], SetKeys(keys)
         PROVE  RequestAuthorizationIInv'
    <2>1. RequestAuthorizationTypeOK'
      BY <1>14 DEF RequestAuthorizationIInv, RequestAuthorizationTypeOK, SetKeys
    <2> QED  BY <1>10, <1>14, <2>1, SameMember DEF SetKeys
  <1>15. ASSUME NEW k \in ApiKeys, NEW n \in ApiKeys,
                CreateApiKey(k) \/ RevokeApiKey(k) \/ RotateApiKey(k, n)
         PROVE  RequestAuthorizationIInv'
    BY <1>14, <1>15 DEF RequestAuthorizationIInv, RequestAuthorizationTypeOK, CreateApiKey,
       RevokeApiKey, RotateApiKey
  <1>16. CASE ExchangeLookup
    <2>1. RequestAuthorizationTypeOK'
      BY <1>16 DEF RequestAuthorizationIInv, RequestAuthorizationTypeOK, ExchangeLookup
    <2> QED  BY <1>10, <1>16, <2>1, SameMember DEF ExchangeLookup
  <1>17. CASE ExchangeMint
    <2>1. [kind |-> "api", version |-> member.version, scoped |-> TRUE] \in Token
      BY <1>1 DEF Token, Members
    <2>2. RequestAuthorizationTypeOK'
      <3>1. \/ tokens' = tokens
            \/ tokens' = tokens \cup {[kind |-> "api", version |-> member.version, scoped |-> TRUE]}
        BY <1>17 DEF ExchangeMint
      <3>2. tokens \subseteq Token
        BY DEF RequestAuthorizationIInv, RequestAuthorizationTypeOK
      <3>3. tokens' \subseteq Token
        BY <2>1, <3>1, <3>2
      <3> QED  BY <1>17, <3>3 DEF RequestAuthorizationIInv, RequestAuthorizationTypeOK,
                  ExchangeMint
    <2>3. \A t \in tokens' : t \in tokens
             \/ (t.version = member.version /\ (t.kind = "api" => Current))
      BY <1>17 DEF ExchangeMint, Current, CorePrincipal
    <2> QED  BY <1>10, <1>17, <2>2, <2>3, SameMember DEF ExchangeMint
  <1>18. ASSUME NEW t \in tokens, ProxyTo(t) \/ CallService(t)
         PROVE  RequestAuthorizationIInv'
    <2>1. PICK s \in AuthServices, h \in Header : AdmittedAt(t, h)[s] /\ Extract(s, t)
      BY <1>18 DEF ProxyTo, CallService, Admitting
    <2>2. inflight' = [service |-> s, token |-> t, moved |-> FALSE] /\ inflight' \in Request
      BY <2>1 DEF RequestAuthorizationIInv, RequestAuthorizationTypeOK, Extract, Request
    <2>3. RequestAuthorizationTypeOK'
      BY <2>1, <2>2 DEF RequestAuthorizationIInv, RequestAuthorizationTypeOK, Extract
    <2>4. s = "core" => CoreFromJwt(t, h)
      BY <2>1 DEF AdmittedAt
    <2>5. KeyRequestCurrent'
      BY <2>1, <2>2, <2>4 DEF RequestAuthorizationIInv, KeyRequestCurrent, KeyTokensCurrent,
         CoreFromJwt, SessionAdmits, Extract, Current, Decide, FullPrincipal
    <2> QED  BY <2>1, <2>3, <2>5, SameMember DEF Extract
  <1>19. CASE Authorize
    <2>1. RequestAuthorizationTypeOK'
      BY <1>19 DEF RequestAuthorizationIInv, RequestAuthorizationTypeOK, Authorize
    <2>2. KeyRequestCurrent'
      BY <1>19 DEF KeyRequestCurrent, Authorize
    <2> QED  BY <1>19, <2>1, <2>2, SameMember DEF Authorize
  <1> QED
    BY <1>2, <1>3, <1>4, <1>5, <1>6, <1>7, <1>8, <1>9, <1>11, <1>12, <1>13, <1>15, <1>16, <1>17,
       <1>18, <1>19
    DEF RequestAuthorizationNext, CreateDelegate, RevokeDelegate

\* A request that runs is allowed by the grants of that moment, but for the
\* exceptions AllowedIsCurrent names.
LEMMA AuthorizeStep ==
    ASSUME RequestAuthorizationIInv, Authorize, Allowed(inflight), ~Current
    PROVE  IF inflight.token.kind = "session"
           THEN "deny" \in member.inherited /\ inflight.service \notin {"core", "finance"}
           ELSE inflight.service = "core" => inflight.moved \/ member.lapsed
  <1>1. inflight \in Request /\ inflight.token \in Token /\ inflight.service \in AuthServices
    BY DEF Authorize, RequestAuthorizationIInv, RequestAuthorizationTypeOK, Request
  <1>2. CASE inflight.token.kind = "session"
    <2>1. member.status = "active" /\ Decide(PrincipalAt[inflight.service])
      BY <1>2 DEF Allowed
    <2>2. PrincipalAt[inflight.service] =
              IF inflight.service \in {"core", "finance"} THEN FullPrincipal ELSE RolePrincipal
      BY <1>1 DEF PrincipalAt, AuthServices, CorePrincipal, FinancePrincipal, CrmPrincipal,
         HrPrincipal, ProjectPrincipal, InventoryPrincipal, WorkflowPrincipal,
         AnalyticsPrincipal, NotificationPrincipal, CustomPrincipal, FilePrincipal,
         SearchPrincipal, AiPrincipal, IntegrationPrincipal
    <2>3. ~Decide(FullPrincipal)
      BY <2>1 DEF Current
    <2>4. inflight.service \notin {"core", "finance"} /\ Decide(RolePrincipal)
      BY <2>1, <2>2, <2>3
    <2>5. "deny" \in member.inherited
      BY <2>3, <2>4 DEF Decide, FullPrincipal, RolePrincipal
    <2> QED  BY <1>2, <2>4, <2>5
  <1>3. CASE inflight.token.kind # "session"
    BY <1>1, <1>3 DEF RequestAuthorizationIInv, KeyRequestCurrent, Authorize, Token
  <1> QED  BY <1>2, <1>3

\* The copies of from_jwt admit the same tokens, but for what AdmissionsAgree says.
LEMMA Admissions == AdmissionsAgree
  <1> SUFFICES ASSUME NEW t \in tokens, NEW o \in {"absent", "same"}, NEW a \in {"none", "self"}
               PROVE  AdmissionsAgree!(t, o, a)
    BY DEF AdmissionsAgree
  <1> DEFINE h == [org |-> o, ai |-> a]
             at == AdmittedAt(t, h)
  <1>1. HeadersAgree(h) /\ ActorFromHeaders(h)
    BY DEF HeadersAgree, ActorFromHeaders
  <1> HIDE DEF h
  <1>2. /\ at["core"] = CoreFromJwt(t, h)
        /\ at["crm"] = CrmFromJwt(t, h) /\ at["finance"] = FinanceFromJwt(t, h)
    BY DEF AdmittedAt
  <1>3. \A s \in AuthServices \ {"core", "crm", "finance"} : at[s] = SessionAdmits(t)
    <2>1. /\ HrFromJwt(t, h) = SessionAdmits(t) /\ ProjectFromJwt(t, h) = SessionAdmits(t)
          /\ InventoryFromJwt(t, h) = SessionAdmits(t)
                /\ WorkflowFromJwt(t, h) = SessionAdmits(t)
          /\ AnalyticsFromJwt(t, h) = SessionAdmits(t)
                /\ NotificationFromJwt(t, h) = SessionAdmits(t)
          /\ CustomFromJwt(t, h) = SessionAdmits(t) /\ FileFromJwt(t, h) = SessionAdmits(t)
          /\ SearchFromJwt(t, h) = SessionAdmits(t) /\ AiFromJwt(t, h) = SessionAdmits(t)
          /\ IntegrationFromJwt(t, h) = SessionAdmits(t)
      BY <1>1 DEF HrFromJwt, ProjectFromJwt, InventoryFromJwt, WorkflowFromJwt,
         AnalyticsFromJwt, NotificationFromJwt, CustomFromJwt, FileFromJwt, SearchFromJwt,
         AiFromJwt, IntegrationFromJwt, SessionAdmits
    <2> QED  BY <2>1 DEF AdmittedAt, AuthServices
  <1>4. CASE t.kind = "session"
    <2>1. /\ CoreFromJwt(t, h) = SessionAdmits(t) /\ CrmFromJwt(t, h) = SessionAdmits(t)
          /\ FinanceFromJwt(t, h) = SessionAdmits(t)
      BY <1>1, <1>4 DEF CoreFromJwt, CrmFromJwt, FinanceFromJwt, SessionAdmits
    <2> QED  BY <1>2, <1>3, <1>4, <2>1 DEF h
  <1>5. CASE t.kind # "session"
    <2>1. /\ CrmFromJwt(t, h) = FinanceFromJwt(t, h) /\ (CoreFromJwt(t, h) => CrmFromJwt(t, h))
          /\ ~SessionAdmits(t)
      BY <1>1, <1>5 DEF CoreFromJwt, CrmFromJwt, FinanceFromJwt, SessionAdmits
    <2> QED  BY <1>2, <1>3, <1>5, <2>1 DEF h
  <1> QED  BY <1>4, <1>5

-----------------------------------------------------------------------------
(* Customer-managed keys *)

KeyPairs == [key : KmsKeys, dek : KmsKeys]

\* What a request has in hand: a pair to write has a key that no row names, that
\* nobody else holds and that the KMS of its process has; a pair that was loaded
\* has the current DEK; a key to revoke has a row.
KeyTxnsSound ==
    \A x \in KeyTxns :
        /\ keyTxn[x].op \in {"idle", "provision", "loaded", "rewrapped", "rotate",
                             "revoke", "revoked"}
        /\ keyTxn[x].op # "idle" => keyTxn[x].at \in CoreProcesses
        /\ keyTxn[x].op \in {"provision", "loaded", "rewrapped", "rotate"} =>
              keyTxn[x].wrapped \in KeyPairs
        /\ keyTxn[x].op \in {"provision", "rewrapped", "rotate"} =>
              /\ keyTxn[x].wrapped.key \in kmsKeys
              /\ kmsHolder[keyTxn[x].wrapped.key] = keyTxn[x].at
              /\ orgCmk[keyTxn[x].wrapped.key] = "none"
        /\ keyTxn[x].op \in {"loaded", "rewrapped", "rotate"} =>
              dataKey # NoDataKey /\ keyTxn[x].wrapped.dek = dataKey.dek
        /\ keyTxn[x].op \in {"revoke", "revoked"} =>
              keyTxn[x].key \in KmsKeys /\ orgCmk[keyTxn[x].key] # "none"

KeyTxnsApart ==
    \A x, y \in KeyTxns :
        /\ keyTxn[x].op \in {"provision", "rewrapped", "rotate"}
        /\ keyTxn[y].op \in {"provision", "rewrapped", "rotate"}
        /\ keyTxn[x].wrapped.key = keyTxn[y].wrapped.key
        => x = y

\* Only keys with a row are revoked in the KMS, which made the data key's.
KeysKnown ==
    /\ \A k \in kmsRevoked : orgCmk[k] # "none"
    /\ dataKey # NoDataKey => dataKey.key \in kmsKeys

CustomerKeysIInv ==
    /\ CustomerKeysTypeOK
    /\ KeyTxnsSound
    /\ KeyTxnsApart
    /\ KeysKnown
    /\ DataKeyOutlivesRotation


\* Every step of CustomerKeys keeps the invariant.
LEMMA CustomerKeysStep ==
    ASSUME CustomerKeysIInv, CustomerKeysNext
    PROVE  CustomerKeysIInv'
  <1>0. NoKmsKey \notin KmsKeys /\ NoProcess \notin CoreProcesses
    BY CustomerKeysAssumption
  <1>1. ASSUME NEW p \in CoreProcesses, EncryptWithDataKey(p)
        PROVE  CustomerKeysIInv'
    <2>1. KeyTxnsSound' /\ KeyTxnsApart' /\ KeysKnown'
      BY <1>1 DEF CustomerKeysIInv, KeyTxnsSound, KeyTxnsApart, KeysKnown,
         EncryptWithDataKey, kmsState
    <2>2. CustomerKeysTypeOK'
      BY <1>1 DEF CustomerKeysIInv, CustomerKeysTypeOK, EncryptWithDataKey, DataKeyLoads,
         kmsState
    <2>3. DataKeyOutlivesRotation'
      BY <1>1 DEF CustomerKeysIInv, DataKeyOutlivesRotation, KeyTxnIs, EncryptWithDataKey,
         kmsState
    <2>q. QED  BY <2>1, <2>2, <2>3 DEF CustomerKeysIInv
  <1>2. ASSUME NEW x \in KeyTxns, NEW p \in CoreProcesses, NEW k \in KmsKeys, ProvisionCmkRead(x, p, k)
        PROVE  CustomerKeysIInv'
    <2>1. KeysKnown'
      BY <1>2 DEF CustomerKeysIInv, KeysKnown, ProvisionCmkRead, keyRows, CreateKmsKey
    <2>2. CustomerKeysTypeOK'
      BY <1>2 DEF CustomerKeysIInv, CustomerKeysTypeOK, ProvisionCmkRead, CreateKmsKey,
         KeyTxnBecomes, keyRows
    <2>3. KeyTxnsSound'
      BY <1>2 DEF CustomerKeysIInv, KeyTxnsSound, CustomerKeysTypeOK, KeyPairs,
         ProvisionCmkRead, CreateKmsKey, Wrapped, KeyTxnBecomes, keyRows
    <2>4. KeyTxnsApart'
      BY <1>2 DEF CustomerKeysIInv, KeyTxnsApart, KeyTxnsSound, ProvisionCmkRead,
         CreateKmsKey, Wrapped, KeyTxnBecomes
    <2>5. DataKeyOutlivesRotation'
      BY <1>2, <1>0 DEF CustomerKeysIInv, DataKeyOutlivesRotation, KeyTxnIs, ProvisionCmkRead,
         KeyTxnBecomes, keyRows, CreateKmsKey, KeysKnown, CustomerKeysTypeOK
    <2>q. QED  BY <2>1, <2>2, <2>3, <2>4, <2>5 DEF CustomerKeysIInv
  <1>3. ASSUME NEW x \in KeyTxns, NEW k \in KmsKeys, RotateOrgKey(x, k)
        PROVE  CustomerKeysIInv'
    <2>1. KeysKnown'
      BY <1>3 DEF CustomerKeysIInv, KeysKnown, RotateOrgKey, keyRows, CreateKmsKey
    <2>2. CustomerKeysTypeOK'
      <3>1. keyTxn[x].at \in CoreProcesses
        BY <1>3 DEF CustomerKeysIInv, KeyTxnsSound, RotateOrgKey, KeyTxnIs
      <3> QED
        BY <1>3, <3>1 DEF CustomerKeysIInv, CustomerKeysTypeOK, RotateOrgKey, CreateKmsKey,
           KeyTxnBecomes, keyRows
    <2>3. KeyTxnsSound'
      BY <1>3 DEF CustomerKeysIInv, KeyTxnsSound, CustomerKeysTypeOK, KeyPairs, NoKeyTxn,
         RotateOrgKey, CreateKmsKey, Wrapped, KeyTxnIs, KeyTxnBecomes, keyRows, Unwraps
    <2>4. KeyTxnsApart'
      BY <1>3 DEF CustomerKeysIInv, KeyTxnsApart, KeyTxnsSound, NoKeyTxn, RotateOrgKey,
         CreateKmsKey, Wrapped, KeyTxnBecomes
    <2>5. DataKeyOutlivesRotation'
      BY <1>3, <1>0 DEF CustomerKeysIInv, DataKeyOutlivesRotation, KeyTxnIs, NoKeyTxn,
         RotateOrgKey, KeyTxnBecomes, keyRows, CreateKmsKey, KeysKnown, CustomerKeysTypeOK
    <2>q. QED  BY <2>1, <2>2, <2>3, <2>4, <2>5 DEF CustomerKeysIInv
  <1>4. ASSUME NEW x \in KeyTxns, NEW p \in CoreProcesses, NEW named \in BOOLEAN,
               RevokeCmkRead(x, p, named)
        PROVE  CustomerKeysIInv'
    <2>1. KeysKnown'
      BY <1>4 DEF CustomerKeysIInv, KeysKnown, RevokeCmkRead, kmsState, keyRows
    <2>2. CustomerKeysTypeOK'
      BY <1>4 DEF CustomerKeysIInv, CustomerKeysTypeOK, RevokeCmkRead, KeyTxnBecomes,
         kmsState, keyRows
    <2>3. KeyTxnsSound'
      BY <1>4 DEF CustomerKeysIInv, KeyTxnsSound, RevokeCmkRead, RevokeTargets, KeysIn,
         KeyTxnBecomes, kmsState, keyRows
    <2>4. KeyTxnsApart'
      BY <1>4 DEF CustomerKeysIInv, KeyTxnsApart, RevokeCmkRead, KeyTxnBecomes
    <2>5. DataKeyOutlivesRotation'
      <3>1. PICK k \in KmsKeys :
              /\ keyTxn' = [keyTxn EXCEPT ![x] =
                               [op |-> "revoke", at |-> p, key |-> k, old |-> ~named /\ orgCmk[k] = "rotating"]]
              /\ UNCHANGED <<kmsKeys, kmsHolder, kmsRevoked, orgCmk, dataKey, sealed, shredded, lostKeys>>
        BY <1>4 DEF RevokeCmkRead, RevokeTargets, KeysIn, KeyTxnBecomes, kmsState, keyRows
      <3>2. ~(orgCmk[k] = "rotating" /\ dataKey.key = k)
        BY CustomerKeysAssumption DEF CustomerKeysIInv, NoDataKey, DataKeyOutlivesRotation
      <3>q. QED
        BY <3>1, <3>2 DEF CustomerKeysIInv, CustomerKeysTypeOK, DataKeyOutlivesRotation,
           KeyTxnIs
    <2>q. QED  BY <2>1, <2>2, <2>3, <2>4, <2>5 DEF CustomerKeysIInv
  <1>5. ASSUME NEW x \in KeyTxns, ProvisionCmkWrite(x)
        PROVE  CustomerKeysIInv'
    <2>1. CustomerKeysTypeOK'
      BY <1>5 DEF CustomerKeysIInv, CustomerKeysTypeOK, KeyTxnsSound, KeyPairs,
         ProvisionCmkWrite, KeyTxnIs, KeyTxnBecomes, kmsState
    <2>2. KeyTxnsSound'
      BY <1>5, <1>0 DEF CustomerKeysIInv, KeyTxnsSound, CustomerKeysTypeOK, KeyTxnsApart,
         NoKeyTxn, ProvisionCmkWrite, KeyTxnIs, KeyTxnBecomes, kmsState
    <2>3. KeyTxnsApart'
      BY <1>5 DEF CustomerKeysIInv, KeyTxnsApart, NoKeyTxn, ProvisionCmkWrite, KeyTxnBecomes
    <2>4. KeysKnown'
      BY <1>5 DEF CustomerKeysIInv, KeysKnown, CustomerKeysTypeOK,
         ProvisionCmkWrite, kmsState, KeyTxnsSound, NoKeyTxn, KeyTxnIs
    <2>5. DataKeyOutlivesRotation'
      BY <1>5, <1>0, CustomerKeysAssumption DEF CustomerKeysIInv, DataKeyOutlivesRotation,
         CustomerKeysTypeOK, KeyTxnsSound, KeysKnown, NoDataKey, KeyTxnIs,
         NoKeyTxn, ProvisionCmkWrite, KeyTxnBecomes, kmsState
    <2>q. QED  BY <2>1, <2>2, <2>3, <2>4, <2>5 DEF CustomerKeysIInv
  <1>6. ASSUME NEW x \in KeyTxns, NEW p \in CoreProcesses, RotateCmkLoad(x, p)
        PROVE  CustomerKeysIInv'
    <2>1. KeysKnown'
      BY <1>6 DEF CustomerKeysIInv, KeysKnown, RotateCmkLoad, kmsState, keyRows
    <2>2. CustomerKeysTypeOK'
      BY <1>6 DEF CustomerKeysIInv, CustomerKeysTypeOK, RotateCmkLoad, KeyTxnBecomes,
         kmsState, keyRows
    <2>3. KeyTxnsSound'
      BY <1>6 DEF CustomerKeysIInv, KeyTxnsSound, CustomerKeysTypeOK, KeyPairs,
         RotateCmkLoad, DataKeyLoads, KeyTxnBecomes, kmsState, keyRows
    <2>4. KeyTxnsApart'
      BY <1>6 DEF CustomerKeysIInv, KeyTxnsApart, RotateCmkLoad, KeyTxnBecomes
    <2>5. DataKeyOutlivesRotation'
      BY <1>6 DEF CustomerKeysIInv, DataKeyOutlivesRotation, KeyTxnIs, RotateCmkLoad,
         KeyTxnBecomes, kmsState, keyRows
    <2>q. QED  BY <2>1, <2>2, <2>3, <2>4, <2>5 DEF CustomerKeysIInv
  <1>7. ASSUME NEW x \in KeyTxns, RotateCmkSnapshot(x)
        PROVE  CustomerKeysIInv'
    <2>1. KeysKnown'
      BY <1>7 DEF CustomerKeysIInv, KeysKnown, RotateCmkSnapshot, kmsState,
         keyRows
    <2>2. CustomerKeysTypeOK'
      BY <1>7 DEF CustomerKeysIInv, CustomerKeysTypeOK, RotateCmkSnapshot, KeyTxnBecomes,
         kmsState, keyRows
    <2>3. KeyTxnsSound'
      BY <1>7 DEF CustomerKeysIInv, KeyTxnsSound, RotateCmkSnapshot, KeyTxnIs,
         KeyTxnBecomes, kmsState, keyRows
    <2>4. KeyTxnsApart'
      BY <1>7 DEF CustomerKeysIInv, KeyTxnsApart, RotateCmkSnapshot, KeyTxnIs, KeyTxnBecomes
    <2>5. DataKeyOutlivesRotation'
      BY <1>7 DEF CustomerKeysIInv, DataKeyOutlivesRotation, KeyTxnIs, RotateCmkSnapshot,
         KeyTxnBecomes, kmsState, keyRows
    <2>q. QED  BY <2>1, <2>2, <2>3, <2>4, <2>5 DEF CustomerKeysIInv
  <1>8. ASSUME NEW x \in KeyTxns, RotateCmkWrite(x)
        PROVE  CustomerKeysIInv'
    <2>1. CustomerKeysTypeOK'
      BY <1>8 DEF CustomerKeysIInv, CustomerKeysTypeOK, KeyTxnsSound, KeyPairs,
         RotateCmkWrite, KeyTxnIs, KeyTxnBecomes, kmsState
    <2>2. KeyTxnsSound'
      BY <1>8, <1>0, CustomerKeysAssumption DEF CustomerKeysIInv, KeyTxnsSound,
         CustomerKeysTypeOK, KeyTxnsApart, NoKeyTxn, NoDataKey, RotateCmkWrite, KeyTxnIs,
         KeyTxnBecomes, kmsState
    <2>3. KeyTxnsApart'
      BY <1>8 DEF CustomerKeysIInv, KeyTxnsApart, NoKeyTxn, RotateCmkWrite, KeyTxnBecomes
    <2>4. KeysKnown'
      BY <1>8 DEF CustomerKeysIInv, KeysKnown, CustomerKeysTypeOK, RotateCmkWrite,
         kmsState, KeyTxnsSound, KeyTxnIs
    <2>5. DataKeyOutlivesRotation'
      BY <1>8, <1>0 DEF CustomerKeysIInv, DataKeyOutlivesRotation, KeyTxnsSound,
         KeysKnown, KeyPairs, KeyTxnIs, NoKeyTxn, RotateCmkWrite, KeyTxnBecomes,
         kmsState
    <2>q. QED  BY <2>1, <2>2, <2>3, <2>4, <2>5 DEF CustomerKeysIInv
  <1>9. ASSUME NEW x \in KeyTxns, RevokeInKms(x)
        PROVE  CustomerKeysIInv'
    <2>1. CustomerKeysTypeOK'
      BY <1>9 DEF CustomerKeysIInv, CustomerKeysTypeOK, KeyTxnsSound, RevokeInKms, KeyTxnIs,
         KeyTxnBecomes
    <2>2. KeyTxnsSound'
      BY <1>9 DEF CustomerKeysIInv, KeyTxnsSound, RevokeInKms, KeyTxnIs, KeyTxnBecomes
    <2>3. KeyTxnsApart'
      BY <1>9 DEF CustomerKeysIInv, KeyTxnsApart, RevokeInKms, KeyTxnBecomes
    <2>4. KeysKnown'
      BY <1>9 DEF CustomerKeysIInv, KeysKnown, KeyTxnsSound, RevokeInKms, KeyTxnIs
    <2>5. DataKeyOutlivesRotation'
      BY <1>9 DEF CustomerKeysIInv, DataKeyOutlivesRotation, KeyTxnIs, RevokeInKms,
         KeyTxnBecomes
    <2>q. QED  BY <2>1, <2>2, <2>3, <2>4, <2>5 DEF CustomerKeysIInv
  <1>10. ASSUME NEW x \in KeyTxns, RevokeCmkWrite(x)
        PROVE  CustomerKeysIInv'
    <2>1. CustomerKeysTypeOK'
      BY <1>10 DEF CustomerKeysIInv, CustomerKeysTypeOK, KeyTxnsSound, RevokeCmkWrite,
         KeyTxnIs, KeyTxnBecomes, kmsState
    <2>2. KeyTxnsSound'
      BY <1>10 DEF CustomerKeysIInv, KeyTxnsSound, NoKeyTxn, RevokeCmkWrite, KeyTxnIs,
         KeyTxnBecomes, kmsState
    <2>3. KeyTxnsApart'
      BY <1>10 DEF CustomerKeysIInv, KeyTxnsApart, NoKeyTxn, RevokeCmkWrite, KeyTxnBecomes
    <2>4. KeysKnown'
      BY <1>10 DEF CustomerKeysIInv, KeysKnown, RevokeCmkWrite, kmsState
    <2>5. DataKeyOutlivesRotation'
      BY <1>10 DEF CustomerKeysIInv, DataKeyOutlivesRotation, KeyTxnIs, NoKeyTxn,
         RevokeCmkWrite, KeyTxnBecomes, kmsState
    <2>q. QED  BY <2>1, <2>2, <2>3, <2>4, <2>5 DEF CustomerKeysIInv
  <1>11. ASSUME NEW x \in KeyTxns, KeyRequestFails(x)
        PROVE  CustomerKeysIInv'
    <2>1. KeysKnown'
      BY <1>11 DEF CustomerKeysIInv, KeysKnown, KeyRequestFails, kmsState, keyRows
    <2>2. CustomerKeysTypeOK'
      BY <1>11 DEF CustomerKeysIInv, CustomerKeysTypeOK, KeyRequestFails, KeyTxnBecomes,
         kmsState, keyRows
    <2>3. KeyTxnsSound'
      BY <1>11 DEF CustomerKeysIInv, KeyTxnsSound, NoKeyTxn, KeyRequestFails, KeyTxnBecomes,
         kmsState, keyRows
    <2>4. KeyTxnsApart'
      BY <1>11 DEF CustomerKeysIInv, KeyTxnsApart, NoKeyTxn, KeyRequestFails, KeyTxnBecomes
    <2>5. DataKeyOutlivesRotation'
      BY <1>11 DEF CustomerKeysIInv, DataKeyOutlivesRotation, KeyTxnIs, NoKeyTxn,
         KeyRequestFails, KeyTxnBecomes, kmsState, keyRows
    <2>q. QED  BY <2>1, <2>2, <2>3, <2>4, <2>5 DEF CustomerKeysIInv
  <1>12. ASSUME NEW p \in CoreProcesses, CoreRestarts(p)
         PROVE  CustomerKeysIInv'
    <2>1. /\ kmsHolder' = [k \in KmsKeys |-> IF kmsHolder[k] = p THEN NoProcess ELSE kmsHolder[k]]
          /\ lostKeys' = IF dataKey # NoDataKey /\ kmsHolder[dataKey.key] = p
                         THEN lostKeys \cup {dataKey.key} ELSE lostKeys
          /\ UNCHANGED <<kmsKeys, kmsRevoked, orgCmk, dataKey, sealed, shredded>>
      BY <1>12 DEF CoreRestarts
    <2>2. /\ DOMAIN keyTxn' = KeyTxns
          /\ \A x \in KeyTxns : \/ keyTxn'[x] = NoKeyTxn
                                \/ keyTxn'[x] = keyTxn[x] /\ (keyTxn[x].op # "idle" => keyTxn[x].at # p)
      BY <1>12 DEF CoreRestarts, KeyTxnIs
    <2>3. CustomerKeysTypeOK'
      <3>1. kmsHolder' \in [KmsKeys -> CoreProcesses \cup {NoProcess}]
        BY <2>1 DEF CustomerKeysIInv, CustomerKeysTypeOK
      <3>2. lostKeys' \subseteq kmsKeys
        BY <2>1 DEF CustomerKeysIInv, CustomerKeysTypeOK, KeysKnown
      <3> QED  BY <2>1, <2>2, <3>1, <3>2 DEF CustomerKeysIInv, CustomerKeysTypeOK
    <2>4. KeyTxnsSound'
      BY <2>1, <2>2 DEF CustomerKeysIInv, KeyTxnsSound, NoKeyTxn, KeyPairs
    <2>5. KeyTxnsApart' /\ KeysKnown'
      BY <2>1, <2>2 DEF CustomerKeysIInv, KeyTxnsApart, KeysKnown, NoKeyTxn
    <2>6. DataKeyOutlivesRotation'
      <3>1. dataKey # NoDataKey => dataKey.key \in KmsKeys
        BY DEF CustomerKeysIInv, CustomerKeysTypeOK
      <3> QED
        BY <2>1, <2>2, <3>1 DEF CustomerKeysIInv, DataKeyOutlivesRotation, KeyTxnIs, NoKeyTxn
    <2>q. QED  BY <2>3, <2>4, <2>5, <2>6 DEF CustomerKeysIInv
  <1>q. QED  BY <1>1, <1>2, <1>3, <1>4, <1>5, <1>6, <1>7, <1>8, <1>9, <1>10, <1>11, <1>12
             DEF CustomerKeysNext

-----------------------------------------------------------------------------
(* The audit trail *)

\* A transaction has an instant of its own, and its row is not there yet; the
\* row it inserted follows the newest row of its partition, which is locked.
AuditTxnsSound ==
    /\ DOMAIN auditTxn = AuditTxns
    /\ \A x \in AuditTxns :
        /\ auditTxn[x].op \in {"idle", "begun", "inserted"}
        /\ auditTxn[x].op # "idle" =>
              auditTxn[x].at \in Nat /\ auditTxn[x].at < auditClock
                 /\ auditTxn[x].at \notin DOMAIN auditLog
        /\ auditTxn[x].op = "inserted" =>
              auditTxn[x].prev = Newest(InPartition(auditLog, Partition(auditTxn[x].at)))
    /\ \A x, y \in AuditTxns :
          auditTxn[x].op # "idle" /\ auditTxn[y].op # "idle"
             /\ auditTxn[x].at = auditTxn[y].at =>
             x = y
    /\ \A x, y \in AuditTxns :
          /\ auditTxn[x].op = "inserted" /\ auditTxn[y].op = "inserted"
          /\ Partition(auditTxn[x].at) = Partition(auditTxn[y].at)
          => x = y

\* The rows and the order in which they were committed.
AuditRowsSound ==
    /\ auditClock \in Nat
    /\ DOMAIN auditLog \subseteq 0..LastInstant
    /\ auditClock <= LastInstant + 1
    /\ \A e \in DOMAIN auditLog : e < auditClock
    /\ DOMAIN appended = DOMAIN auditLog
    /\ \A e \in DOMAIN appended :
          appended[e] \in Nat /\ appended[e] < Cardinality(DOMAIN appended)

ChainExplained == \A p \in Partitions(auditLog) : ChainOk(auditLog, p) \/ Overtaken(p)

\* The rows that a verification has read are a chain, if it says so.
VerifiedIsChain ==
    /\ DOMAIN exportTxn = Exports /\ DOMAIN exportJob = Exports
    /\ \A j \in Exports : exportTxn[j].state = "verifying" =>
          /\ DOMAIN exportTxn[j] = {"state", "left", "ok", "rows"}
          /\ exportTxn[j].rows \subseteq DOMAIN auditLog
          /\ exportTxn[j].ok \in BOOLEAN
          /\ exportTxn[j].ok => \A e \in exportTxn[j].rows :
                auditLog[e] = Before({f \in exportTxn[j].rows : Partition(f) = Partition(e)}, e)

ExportsExplained ==
    \A j \in Exports : exportJob[j] # NoExport =>
        /\ exportJob[j].verified \subseteq DOMAIN exportJob[j].pack
        /\ exportJob[j].hash_chain_ok
              /\ (\E p \in Partitions(exportJob[j].pack) : ~ChainOk(exportJob[j].pack, p)) =>
              exportJob[j].verified # DOMAIN exportJob[j].pack

AuditTrailIInv ==
    /\ AuditTxnsSound
    /\ AuditRowsSound
    /\ ChainExplained
    /\ VerifiedIsChain
    /\ ExportsExplained


\* Every step of AuditTrail keeps the invariant.
LEMMA AuditTrailStep ==
    ASSUME AuditTrailIInv, AuditTrailNext
    PROVE  AuditTrailIInv'
  <1>1. ASSUME NEW x \in AuditTxns, AuditTxnBegin(x)
        PROVE  AuditTrailIInv'
    <2>1. ChainExplained' /\ VerifiedIsChain' /\ ExportsExplained'
      BY <1>1 DEF AuditTrailIInv, ChainExplained, VerifiedIsChain, ExportsExplained,
         Overtaken, AuditTxnBegin
    <2>2. AuditTxnsSound'
      BY <1>1 DEF AuditTrailIInv, AuditTxnsSound, AuditRowsSound, AuditTxnBegin,
         AuditTxnBecomes
    <2>3. AuditRowsSound'
      BY <1>1, AuditTrailAssumption DEF AuditTrailIInv, AuditRowsSound, AuditTxnBegin,
         Instants
    <2>q. QED  BY <2>1, <2>2, <2>3 DEF AuditTrailIInv
  <1>2. ASSUME NEW x \in AuditTxns, InsertAudit(x)
        PROVE  AuditTrailIInv'
    <2>1. /\ AuditRowsSound'
          /\ ChainExplained'
          /\ VerifiedIsChain'
          /\ ExportsExplained'
      BY <1>2 DEF AuditTrailIInv, AuditRowsSound, ChainExplained, VerifiedIsChain,
         ExportsExplained, NoExport, Overtaken, InsertAudit, PartitionLocked,
         AuditTxnBecomes
    <2>2. AuditTxnsSound'
      BY <1>2 DEF AuditTrailIInv, AuditTxnsSound, InsertAudit, PartitionLocked,
         AuditTxnBecomes
    <2>q. QED  BY <2>1, <2>2 DEF AuditTrailIInv
  <1>3. ASSUME NEW x \in AuditTxns, AuditTxnCommit(x)
        PROVE  AuditTrailIInv'
    <2>1. ExportsExplained'
      BY <1>3 DEF AuditTrailIInv, ExportsExplained, AuditTxnCommit
    <2>2. AuditTxnsSound'
      <3>1. auditTxn[x].op = "inserted" /\ auditTxn' = [auditTxn EXCEPT ![x] = NoAuditTxn]
        BY <1>3 DEF AuditTxnCommit, AuditTxnBecomes
      <3>2. auditClock' = auditClock /\ DOMAIN auditLog' = DOMAIN auditLog \cup {auditTxn[x].at}
        BY <1>3 DEF AuditTxnCommit
      <3>3. \A p : p # Partition(auditTxn[x].at) =>
               InPartition(auditLog', p) = InPartition(auditLog, p)
        BY <3>2 DEF InPartition
      <3>q. QED  BY <3>1, <3>2, <3>3 DEF AuditTrailIInv, AuditTxnsSound, NoAuditTxn
    <2>3. AuditRowsSound'
      <3> DEFINE e == auditTxn[x].at
      <3>1. e \in Nat /\ e < auditClock /\ e \notin DOMAIN auditLog
        BY <1>3 DEF AuditTrailIInv, AuditTxnsSound, AuditTxnCommit
      <3>2. /\ auditClock' = auditClock
            /\ DOMAIN auditLog' = DOMAIN auditLog \cup {e}
            /\ appended' = [f \in DOMAIN appended \cup {e} |->
                               IF f = e THEN Cardinality(DOMAIN appended) ELSE appended[f]]
        BY <1>3 DEF AuditTxnCommit
      <3>3. /\ Cardinality(DOMAIN appended) \in Nat
            /\ Cardinality(DOMAIN appended \cup {e}) = Cardinality(DOMAIN appended) + 1
        <4>1. IsFiniteSet(DOMAIN appended)
          <5>1. IsFiniteSet(0..LastInstant)
            BY AuditTrailAssumption, FS_Interval
          <5>q. QED  BY <5>1, FS_Subset DEF AuditTrailIInv, AuditRowsSound
        <4>q. QED
          BY <3>1, <4>1, FS_AddElement, FS_CardinalityType DEF AuditTrailIInv,
             AuditRowsSound
      <3>4. DOMAIN appended' = DOMAIN appended \cup {e}
        BY <3>2
      <3> HIDE DEF e
      <3>q. QED
        BY <3>1, <3>2, <3>3, <3>4, AuditTrailAssumption DEF AuditTrailIInv, AuditRowsSound
    <2>4. ChainExplained'
      <3>0. PICK e, q : e = auditTxn[x].at /\ q = Partition(e)
        OBVIOUS
      <3>1. /\ e \in Nat /\ e \notin DOMAIN auditLog
            /\ auditTxn[x].prev = Newest(InPartition(auditLog, q))
        BY <1>3, <3>0 DEF AuditTrailIInv, AuditTxnsSound, AuditTxnCommit
      <3>2. /\ auditLog' = [f \in DOMAIN auditLog \cup {e} |->
                               IF f = e THEN auditTxn[x].prev ELSE auditLog[f]]
            /\ appended' = [f \in DOMAIN appended \cup {e} |->
                               IF f = e THEN Cardinality(DOMAIN appended) ELSE appended[f]]
        BY <1>3, <3>0 DEF AuditTxnCommit
      <3>3. /\ DOMAIN auditLog \subseteq Nat /\ DOMAIN appended = DOMAIN auditLog
            /\ \A f \in DOMAIN appended : appended[f] < Cardinality(DOMAIN appended)
        BY DEF AuditTrailIInv, AuditRowsSound
      <3>4. e \in InPartition(auditLog', q)
               /\ InPartition(auditLog', q) = InPartition(auditLog, q) \cup {e}
        BY <3>0, <3>2 DEF InPartition
      <3>5. \A p : p # q => InPartition(auditLog', p) = InPartition(auditLog, p)
        BY <3>0, <3>2 DEF InPartition
      <3>6. \A p : InPartition(auditLog, p) \subseteq DOMAIN auditLog
        BY DEF InPartition
      <3>7. ASSUME NEW p \in Partitions(auditLog'), p # q
            PROVE  ChainOk(auditLog', p) \/ Overtaken(p)'
        <4>1. p \in Partitions(auditLog)
          <5>1. PICK f \in DOMAIN auditLog' : p = Partition(f)
            BY DEF Partitions
          <5>q. QED  BY <3>0, <3>2, <3>7, <5>1 DEF Partitions
        <4>2. CASE ChainOk(auditLog, p)
          <5>1. \A f \in InPartition(auditLog, p) : auditLog'[f] = auditLog[f]
            BY <3>1, <3>2, <3>6
          <5>q. QED  BY <3>5, <3>7, <4>2, <5>1 DEF ChainOk
        <4>3. CASE Overtaken(p)
          BY <3>1, <3>2, <3>3, <3>5, <3>6, <3>7, <4>3 DEF Overtaken
        <4>q. QED  BY <4>1, <4>2, <4>3 DEF AuditTrailIInv, ChainExplained
      <3>8. ChainOk(auditLog', q) \/ Overtaken(q)'
        <4>1. CASE \E f \in InPartition(auditLog, q) : e < f
          BY <3>1, <3>2, <3>3, <3>4, <3>6, <4>1 DEF Overtaken
        <4>2. CASE /\ \A f \in InPartition(auditLog, q) : f < e
                   /\ ChainOk(auditLog, q)
          <5>1. auditLog'[e] = Before(InPartition(auditLog', q), e)
            <6>1. {f \in InPartition(auditLog', q) : f < e} = InPartition(auditLog, q)
              BY <3>1, <3>3, <3>4, <3>6, <4>2
            <6>q. QED  BY <3>1, <3>2, <6>1 DEF Before
          <5>2. ASSUME NEW f \in InPartition(auditLog, q)
                PROVE  auditLog'[f] = Before(InPartition(auditLog', q), f)
            <6>1. {g \in InPartition(auditLog', q) : g < f} = {g \in InPartition(auditLog, q) : g < f}
              BY <3>1, <3>3, <3>4, <3>6, <4>2
            <6>2. auditLog'[f] = auditLog[f]
              BY <3>1, <3>2, <3>6
            <6>q. QED  BY <4>2, <6>1, <6>2 DEF ChainOk, Before
          <5>q. QED  BY <3>4, <5>1, <5>2 DEF ChainOk
        <4>3. CASE InPartition(auditLog, q) # {} /\ Overtaken(q)
          <5>1. PICK a, b \in InPartition(auditLog, q) : a < b /\ appended[b] < appended[a]
            BY <4>3 DEF Overtaken
          <5>2. a \in DOMAIN appended /\ b \in DOMAIN appended /\ a # e /\ b # e
            BY <3>1, <3>3, <3>6, <5>1
          <5>3. appended'[a] = appended[a] /\ appended'[b] = appended[b]
            BY <3>2, <5>2
          <5>q. QED  BY <3>4, <5>1, <5>3 DEF Overtaken
        <4>4. InPartition(auditLog, q) # {} => q \in Partitions(auditLog)
          BY DEF InPartition, Partitions
        <4>5. InPartition(auditLog, q) = {} => ChainOk(auditLog, q)
          BY DEF ChainOk
        <4>6. ChainOk(auditLog, q) \/ (InPartition(auditLog, q) # {} /\ Overtaken(q))
          BY <4>4, <4>5 DEF AuditTrailIInv, ChainExplained
        <4>7. \A f \in InPartition(auditLog, q) : f < e \/ e < f
          BY <3>1, <3>3, <3>6
        <4>q. QED  BY <4>1, <4>2, <4>3, <4>6, <4>7
      <3>q. QED  BY <3>7, <3>8 DEF ChainExplained
    <2>5. VerifiedIsChain'
      <3>1. auditTxn[x].at \notin DOMAIN auditLog
        BY <1>3 DEF AuditTrailIInv, AuditTxnsSound, AuditTxnCommit
      <3>2. /\ DOMAIN auditLog' = DOMAIN auditLog \cup {auditTxn[x].at}
            /\ \A e \in DOMAIN auditLog : auditLog'[e] = auditLog[e]
            /\ UNCHANGED <<exportJob, exportTxn>>
        BY <1>3, <3>1 DEF AuditTxnCommit
      <3>q. QED  BY <3>2 DEF AuditTrailIInv, VerifiedIsChain
    <2>q. QED  BY <2>1, <2>2, <2>3, <2>4, <2>5 DEF AuditTrailIInv
  <1>4. ASSUME NEW x \in AuditTxns, AuditTxnAbort(x)
        PROVE  AuditTrailIInv'
    <2>1. /\ AuditRowsSound'
          /\ ChainExplained'
          /\ VerifiedIsChain'
          /\ ExportsExplained'
      BY <1>4 DEF AuditTrailIInv, AuditRowsSound, ChainExplained, VerifiedIsChain,
         ExportsExplained, NoExport, Overtaken, AuditTxnAbort, NoAuditTxn, AuditTxnBecomes
    <2>2. AuditTxnsSound'
      BY <1>4 DEF AuditTrailIInv, AuditTxnsSound, NoAuditTxn, AuditTxnAbort, AuditTxnBecomes
    <2>q. QED  BY <2>1, <2>2 DEF AuditTrailIInv
  <1>5. ASSUME NEW j \in Exports, VerifyAllStart(j)
        PROVE  AuditTrailIInv'
    <2>1. /\ AuditTxnsSound'
          /\ AuditRowsSound'
          /\ ChainExplained'
          /\ ExportsExplained'
      BY <1>5 DEF AuditTrailIInv, AuditTxnsSound, AuditRowsSound, ChainExplained,
         ExportsExplained, Overtaken, VerifyAllStart
    <2>2. VerifiedIsChain'
      <3> DEFINE w == [state |-> "verifying", left |-> Partitions(auditLog), ok |-> TRUE, rows |-> {}]
      <3>1. exportTxn' = [exportTxn EXCEPT ![j] = w] /\ UNCHANGED <<auditLog, exportJob>>
        BY <1>5 DEF VerifyAllStart
      <3>2. w.ok \in BOOLEAN /\ w.rows = {} /\ DOMAIN w = {"state", "left", "ok", "rows"}
        OBVIOUS
      <3> HIDE DEF w
      <3>q. QED  BY <3>1, <3>2 DEF AuditTrailIInv, VerifiedIsChain
    <2>q. QED  BY <2>1, <2>2 DEF AuditTrailIInv
  <1>6. ASSUME NEW j \in Exports, CheckPartition(j)
        PROVE  AuditTrailIInv'
    <2>1. /\ AuditTxnsSound'
          /\ AuditRowsSound'
          /\ ChainExplained'
          /\ ExportsExplained'
      BY <1>6 DEF AuditTrailIInv, AuditTxnsSound, AuditRowsSound, ChainExplained,
         ExportsExplained, Overtaken, CheckPartition
    <2>2. VerifiedIsChain'
      <3> DEFINE v == exportTxn[j]
                 p == Min(v.left)
                 w == [v EXCEPT !.left = @ \ {p}, !.ok = @ /\ ChainOk(auditLog, p),
                                !.rows = @ \cup InPartition(auditLog, p)]
      <3>1. v.state = "verifying" /\ exportTxn' = [exportTxn EXCEPT ![j] = w]
        BY <1>6 DEF CheckPartition
      <3>2. /\ v.rows \subseteq DOMAIN auditLog /\ v.ok \in BOOLEAN
            /\ DOMAIN v = {"state", "left", "ok", "rows"}
            /\ v.ok => \A e \in v.rows :
                  auditLog[e] = Before({f \in v.rows : Partition(f) = Partition(e)}, e)
        BY <3>1 DEF AuditTrailIInv, VerifiedIsChain
      <3>3. /\ w.rows = v.rows \cup InPartition(auditLog, p)
            /\ w.ok = (v.ok /\ ChainOk(auditLog, p))
        BY <3>2
      <3>4. InPartition(auditLog, p) \subseteq DOMAIN auditLog
        BY DEF InPartition
      <3>5. {f \in w.rows : Partition(f) = p} = InPartition(auditLog, p)
        BY <3>2, <3>3 DEF InPartition
      <3>6. \A q : q # p => {f \in w.rows : Partition(f) = q} = {f \in v.rows : Partition(f) = q}
        BY <3>3 DEF InPartition
      <3> HIDE DEF w, v, p
      <3>7. w.ok => \A e \in w.rows :
                auditLog[e] = Before({f \in w.rows : Partition(f) = Partition(e)}, e)
        <4>1. SUFFICES ASSUME w.ok, NEW e \in w.rows
                       PROVE  auditLog[e] = Before({f \in w.rows : Partition(f) = Partition(e)}, e)
          OBVIOUS
        <4>2. CASE Partition(e) = p
          BY <3>3, <3>5, <4>1, <4>2 DEF ChainOk
        <4>3. CASE Partition(e) # p
          <5>1. e \in v.rows
            BY <3>3, <4>1, <4>3 DEF InPartition
          <5>q. QED  BY <3>2, <3>3, <3>6, <4>1, <4>3, <5>1
        <4>q. QED  BY <4>2, <4>3
      <3>8. w.rows \subseteq DOMAIN auditLog /\ w.ok \in BOOLEAN
        BY <3>2, <3>3, <3>4
      <3>a. DOMAIN w = {"state", "left", "ok", "rows"}
        BY <3>2 DEF w
      <3>9. UNCHANGED <<auditLog, exportJob>>
        BY <1>6 DEF CheckPartition
      <3>q. QED  BY <3>1, <3>7, <3>8, <3>a, <3>9 DEF AuditTrailIInv, VerifiedIsChain
    <2>q. QED  BY <2>1, <2>2 DEF AuditTrailIInv
  <1>7. ASSUME NEW j \in Exports, CreateExport(j)
        PROVE  AuditTrailIInv'
    <2>1. AuditTxnsSound' /\ AuditRowsSound' /\ ChainExplained'
      BY <1>7 DEF AuditTrailIInv, AuditTxnsSound, AuditRowsSound, ChainExplained, Overtaken,
         CreateExport
    <2>2. VerifiedIsChain'
      BY <1>7 DEF AuditTrailIInv, VerifiedIsChain, NoExport, CreateExport
    <2>3. ExportsExplained'
      <3> DEFINE v == exportTxn[j]
                 w == [state |-> "completed", hash_chain_ok |-> v.ok, verified |-> v.rows,
                       pack |-> auditLog]
      <3>1. v.state = "verifying" /\ exportJob' = [exportJob EXCEPT ![j] = w]
        BY <1>7 DEF CreateExport
      <3>2. /\ v.rows \subseteq DOMAIN auditLog
            /\ v.ok => \A e \in v.rows :
                  auditLog[e] = Before({f \in v.rows : Partition(f) = Partition(e)}, e)
            /\ DOMAIN exportJob = Exports
        BY <3>1 DEF AuditTrailIInv, VerifiedIsChain
      <3>3. /\ w.verified = v.rows /\ w.pack = auditLog /\ w.hash_chain_ok = v.ok
        OBVIOUS
      <3>4. ASSUME v.ok, v.rows = DOMAIN auditLog, NEW p
            PROVE  ChainOk(auditLog, p)
        <4>1. InPartition(auditLog, p) = {f \in v.rows : Partition(f) = p}
          BY <3>4 DEF InPartition
        <4>q. QED  BY <3>2, <3>4, <4>1 DEF ChainOk
      <3> HIDE DEF w, v
      <3>5. /\ w.verified \subseteq DOMAIN w.pack
            /\ w.hash_chain_ok /\ (\E p \in Partitions(w.pack) : ~ChainOk(w.pack, p)) =>
                  w.verified # DOMAIN w.pack
        BY <3>2, <3>3, <3>4
      <3>q. QED  BY <3>1, <3>2, <3>5 DEF AuditTrailIInv, ExportsExplained
    <2>q. QED  BY <2>1, <2>2, <2>3 DEF AuditTrailIInv
  <1>q. QED  BY <1>1, <1>2, <1>3, <1>4, <1>5, <1>6, <1>7 DEF AuditTrailNext

-----------------------------------------------------------------------------
(* The components together: each starts in its invariant, and a step of   *)
(* the platform is a step of one of them and leaves the others alone.     *)

\* The services of ServicesProofs.
ServicesIInv ==
    /\ SalesLeadsIInv /\ DealIInv /\ DocumentsSound /\ SalesQuotesIInv
    /\ CustomRecordsIInv /\ DefinitionsSound /\ MarketplaceIInv /\ AssistantIInv /\ WorkflowIInv

PlatformIInv ==
    /\ ApprovalsIInv /\ AccountsIInv /\ SigningKeysIInv /\ RequestAuthorizationIInv
    /\ CustomerKeysIInv /\ AuditTrailIInv /\ ServicesIInv

\* The initial states of the components satisfy their invariants.
LEMMA PlatformStarts == PlatformInit => PlatformIInv
  <1> SUFFICES ASSUME PlatformInit
               PROVE  PlatformIInv
    OBVIOUS
  <1>1. ApprovalsIInv
    <2>1. PICK d \in Definitions : policy = [active |-> TRUE, versions |-> <<d>>]
      BY DEF PlatformInit, ApprovalsInit
    <2>2. /\ approval = NoApproval /\ decisions = <<>> /\ delegated = {} /\ answered = "none"
          /\ deciding = [x \in ApprovalTxns |-> NotDeciding] /\ overtaken = FALSE
      BY DEF PlatformInit, ApprovalsInit
    <2>3. ApprovalSound
      BY <2>1, <2>2 DEF ApprovalSound, NoApproval, ApprovalRecord, ApprovalStatuses
    <2>4. ApprovalsTypeOK
      <3>1. policy.active \in BOOLEAN /\ policy.versions \in Seq(Definitions)
        BY <2>1
      <3>2. approval.status = "none" /\ DOMAIN approval.steps = {}
        BY <2>2 DEF NoApproval
      <3>3. /\ decisions \in Seq([step : Nat, outcome : {"approved", "rejected"}])
            /\ delegated \subseteq Approvers \X Approvers /\ DOMAIN deciding = ApprovalTxns
        BY <2>2
      <3>4. overtaken \in BOOLEAN /\ answered \in {"none", "approved", "rejected"}
        BY <2>2
      <3> QED  BY <3>1, <3>2, <3>3, <3>4 DEF ApprovalsTypeOK
    <2>5. DecidingSound
      BY <2>2 DEF DecidingSound, NotDeciding
    <2>6. SubjectDecidedOnce /\ PendingStepIsOpen
      BY <2>2 DEF SubjectDecidedOnce, PendingStepIsOpen, NoApproval
    <2> QED  BY <2>3, <2>4, <2>5, <2>6 DEF ApprovalsIInv
  <1>2. AccountsIInv
    BY AccountsAssumption DEF PlatformInit, AccountsInit, AccountsIInv, AccountsSound,
       UsedTokensAreMarked, TokensWorkOnce, AdminSessionsPassedMfa, FailuresLock, Unissued,
       NoAuthTxn, Purposes
  <1>3. SigningKeysIInv
    BY SigningKeysAssumption DEF PlatformInit, SigningKeysInit, SigningKeysIInv,
       SigningKeysTypeOK, CoreRingsSound, StoringSound, ReaderRingSound, SigningKeysAreStored,
       Accounted, StoredKids, KnownKids
  <1>4. RequestAuthorizationIInv
    <2>1. /\ tokens = {} /\ inflight = Idle /\ liveSession = TRUE /\ exchanging = FALSE
          /\ apiKeys = [k \in ApiKeys |-> "none"]
      BY DEF PlatformInit, RequestAuthorizationInit
    <2>2. member \in Members
      BY RequestAuthorizationAssumption DEF PlatformInit, RequestAuthorizationInit, Members
    <2> QED
      BY <2>1, <2>2 DEF RequestAuthorizationIInv, RequestAuthorizationTypeOK, TokensBehind,
         KeyTokensCurrent, KeyRequestCurrent, Members
  <1>5. CustomerKeysIInv
    BY CustomerKeysAssumption DEF PlatformInit, CustomerKeysInit, CustomerKeysIInv,
       CustomerKeysTypeOK, KeyTxnsSound, KeyTxnsApart, KeysKnown,
       DataKeyOutlivesRotation, NoKeyTxn, NoDataKey, KeyTxnIs
  <1>6. AuditTrailIInv
    BY AuditTrailAssumption DEF PlatformInit, AuditTrailInit, AuditTrailIInv, AuditTxnsSound,
       AuditRowsSound, ChainExplained, VerifiedIsChain, ExportsExplained, Partitions,
       NoAuditTxn, NoExport
  <1>7. ServicesIInv
    BY SalesLeadsStarts, DealStarts, DocumentsStart, SalesQuotesStarts, CustomRecordsStart,
       DefinitionsStart, MarketplaceStarts, AssistantStarts, WorkflowStarts
    DEF PlatformInit, ServicesIInv
  <1> QED  BY <1>1, <1>2, <1>3, <1>4, <1>5, <1>6, <1>7 DEF PlatformIInv

\* A step of the platform, seen from each component.
LEMMA PlatformStep ==
    ASSUME [PlatformNext]_PlatformVars
    PROVE  /\ [ApprovalsNext]_approvalsVars /\ [AccountsNext]_accountsVars
           /\ [SigningKeysNext]_signingKeysVars
           /\ [RequestAuthorizationNext]_requestAuthorizationVars
           /\ [CustomerKeysNext]_customerKeysVars /\ [AuditTrailNext]_auditTrailVars
           /\ [SalesLeadsNext]_salesLeadsVars /\ [SalesDealsNext]_salesDealsVars
           /\ [SalesQuotesNext]_salesQuotesVars /\ [CustomObjectsNext]_customObjectsVars
           /\ [MarketplaceNext]_marketplaceVars /\ [AssistantNext]_assistantVars
           /\ [WorkflowEngineNext]_workflowEngineVars
           /\ UNCHANGED service
  BY DEF PlatformNext, PlatformVars, Only, SalesDealsNext, CustomObjectsNext, MarketplaceNext,
     PublisherNext, AssistantNext

\* A component that does not move keeps its invariant.
LEMMA PlatformIdle ==
    /\ ApprovalsIInv /\ UNCHANGED approvalsVars => ApprovalsIInv'
    /\ AccountsIInv /\ UNCHANGED accountsVars => AccountsIInv'
    /\ SigningKeysIInv /\ UNCHANGED signingKeysVars => SigningKeysIInv'
    /\ RequestAuthorizationIInv /\ UNCHANGED requestAuthorizationVars =>
          RequestAuthorizationIInv'
    /\ CustomerKeysIInv /\ UNCHANGED customerKeysVars => CustomerKeysIInv'
    /\ AuditTrailIInv /\ UNCHANGED auditTrailVars => AuditTrailIInv'
  <1>1. ApprovalsIInv /\ UNCHANGED approvalsVars => ApprovalsIInv'
    BY DEF approvalsVars, ApprovalsIInv, ApprovalsTypeOK, ApprovalSound, DecidingSound,
       SubjectDecidedOnce, PendingStepIsOpen
  <1>2. AccountsIInv /\ UNCHANGED accountsVars => AccountsIInv'
    BY DEF accountsVars, AccountsIInv, AccountsSound, UsedTokensAreMarked, TokensWorkOnce,
       AdminSessionsPassedMfa, FailuresLock
  <1>3. SigningKeysIInv /\ UNCHANGED signingKeysVars => SigningKeysIInv'
    BY DEF signingKeysVars, SigningKeysIInv, SigningKeysTypeOK, CoreRingsSound, StoringSound,
       ReaderRingSound, SigningKeysAreStored, Accounted, StoredKids
  <1>4. RequestAuthorizationIInv /\ UNCHANGED requestAuthorizationVars =>
           RequestAuthorizationIInv'
    BY DEF requestAuthorizationVars, RequestAuthorizationIInv, RequestAuthorizationTypeOK,
       TokensBehind, KeyTokensCurrent, KeyRequestCurrent, Current, Decide, FullPrincipal
  <1>5. CustomerKeysIInv /\ UNCHANGED customerKeysVars => CustomerKeysIInv'
    BY DEF customerKeysVars, CustomerKeysIInv, CustomerKeysTypeOK, KeyTxnsSound, KeyTxnsApart,
       KeysKnown, DataKeyOutlivesRotation, KeyTxnIs
  <1>6. AuditTrailIInv /\ UNCHANGED auditTrailVars => AuditTrailIInv'
    BY DEF auditTrailVars, AuditTrailIInv, AuditTxnsSound, AuditRowsSound, ChainExplained,
       VerifiedIsChain, ExportsExplained, Overtaken
  <1> QED  BY <1>1, <1>2, <1>3, <1>4, <1>5, <1>6

\* Every step of the platform keeps the invariants of its components.
LEMMA PlatformKeeps == PlatformIInv /\ [PlatformNext]_PlatformVars => PlatformIInv'
  <1> SUFFICES ASSUME PlatformIInv, [PlatformNext]_PlatformVars
               PROVE  PlatformIInv'
    OBVIOUS
  <1> USE PlatformStep, PlatformIdle
  <1>1. ApprovalsIInv'
    BY ApprovalsStep DEF PlatformIInv
  <1>2. AccountsIInv'
    BY AccountsStep DEF PlatformIInv
  <1>3. SigningKeysIInv'
    BY SigningKeysStep DEF PlatformIInv
  <1>4. RequestAuthorizationIInv'
    BY RequestAuthorizationStep DEF PlatformIInv
  <1>5. CustomerKeysIInv'
    BY CustomerKeysStep DEF PlatformIInv
  <1>6. AuditTrailIInv'
    BY AuditTrailStep DEF PlatformIInv
  <1>7. ServicesIInv'
    BY SalesLeadsKeeps, DealKeeps, DocumentsKeep, SalesQuotesKeep, CustomRecordsKeep,
       DefinitionsKeep, MarketplaceKeeps, AssistantKeeps, WorkflowKeeps
    DEF PlatformIInv, ServicesIInv
  <1> QED  BY <1>1, <1>2, <1>3, <1>4, <1>5, <1>6, <1>7 DEF PlatformIInv

\* The conjunction of the components' invariants holds in every reachable state,
\* for every set of requests, keys, tokens, policies and records.
THEOREM PlatformInvariance == PlatformSpec => []PlatformIInv
  BY PlatformStarts, PlatformKeeps, PTL DEF PlatformSpec

\* decide_approval and escalate_approval: one decision row, which the approval
\* and its subject agree with, and an open step while it is pending, but for an
\* escalation that wrote over a decision it had not read.
THEOREM ApprovalDecidedOnce == PlatformSpec => []ApprovalsDecideOnce
  <1>1. PlatformIInv => ApprovalsDecideOnce
    BY DEF PlatformIInv, ApprovalsIInv, ApprovalsDecideOnce
  <1> QED  BY <1>1, PlatformInvariance, PTL

\* One-time tokens work once, but for an MFA challenge whose mark failed,
\* sessions of administrators passed MFA, failures lock the account, and a key
\* that signs is stored, on its way or known lost.
THEOREM CredentialsSound == PlatformSpec => []CredentialsHold
  <1>1. PlatformIInv => CredentialsHold
    BY DEF PlatformIInv, AccountsIInv, SigningKeysIInv, CredentialsHold
  <1> QED  BY <1>1, PlatformInvariance, PTL

\* The data key outlives every rotation of the customer's key, but for a key that
\* a restart of its process lost or that was revoked while it was used, and the
\* audit chain breaks only where a transaction overtook another.
THEOREM EvidenceSound == PlatformSpec => []EvidenceHolds
  <1>1. PlatformIInv => EvidenceHolds
    BY DEF PlatformIInv, CustomerKeysIInv, AuditTrailIInv, ChainExplained, ExportsExplained,
       AuditBreaksExplained, EvidenceHolds
  <1> QED  BY <1>1, PlatformInvariance, PTL

\* The fourteen copies of from_jwt admit the same session tokens, and an API
\* key's token only where core does, but for CRM and finance.
THEOREM AdmissionsAlike == PlatformSpec => []ServicesAdmitAlike
  <1>1. ServicesAdmitAlike
    BY Admissions DEF ServicesAdmitAlike
  <1> QED  BY <1>1, PTL

\* Quotes, orders, deals and leads, written by id after a read without a lock:
\* discounts over the threshold were approved, an order is its quote, the
\* history of a deal is a chain, a lead is converted once and an address has
\* one customer, but for the writes from old reads and the answers no approval
\* is behind, which the model records.
THEOREM SalesAgree == PlatformSpec => []SalesDocumentsAgree
  <1>1. PlatformIInv => SalesDocumentsAgree
    BY DEF PlatformIInv, ServicesIInv, SalesLeadsIInv, SalesQuotesIInv, DealIInv,
       SalesDocumentsAgree
  <1> QED  BY <1>1, PlatformInvariance, PTL

\* If-Match loses no update of a custom record, records fit their definition
\* but for what a script set in them, a published listing passed its review,
\* live tokens are within the consent and a code makes one install, but for the
\* races the model records.
THEOREM ExtensionsSound == PlatformSpec => []ExtensionsHold
  <1>1. PlatformIInv => ExtensionsHold
    BY OneRefreshToken, RecordsFit
    DEF PlatformIInv, ServicesIInv, CustomRecordsIInv, MarketplaceIInv, ExtensionsHold
  <1> QED  BY <1>1, PlatformInvariance, PTL

\* The kill switch lets a run finish one action on any pod, effects follow the
\* actions that explain them, a proposal is applied once, and the tokens spent
\* are those of the month.
THEOREM AssistantBounded == PlatformSpec => []AssistantStaysBounded
  <1>1. PlatformIInv => AssistantStaysBounded
    BY DEF PlatformIInv, ServicesIInv, AssistantIInv, AssistantStaysBounded
  <1> QED  BY <1>1, PlatformInvariance, PTL

\* A simulation tells how a run ends that finds in its payload what the
\* simulation found, every committed step is recorded and
\* every call explained by one, and no more instances are active than the cap,
\* but for lost steps, crashed drivers, moved bounds and starts that raced.
THEOREM WorkflowRuns == PlatformSpec => []WorkflowRunsHold
  <1>1. PlatformIInv => WorkflowRunsHold
    BY WorkflowPredicted DEF PlatformIInv, ServicesIInv, WorkflowIInv, RecordsIInv,
       WorkflowRunsHold
  <1> QED  BY <1>1, PlatformInvariance, PTL

\* No step allows a request that the current policy forbids, stops verifying a
\* stored key, changes a settled document or replaces an organization's own
\* work, but for the exceptions each of the four properties names.
THEOREM StepsHold == PlatformSpec => PlatformStepsHold
  <1>1. PlatformIInv /\ [PlatformNext]_PlatformVars =>
            [Authorize /\ Allowed(inflight) /\ ~Current =>
                LET from == inflight.service IN
                IF inflight.token.kind = "session"
                THEN "deny" \in member.inherited /\ from \notin {"core", "finance"}
                ELSE from = "core" => inflight.moved \/ member.lapsed]_requestAuthorizationVars
    BY AuthorizeStep DEF PlatformIInv
  <1>2. PlatformIInv /\ [PlatformNext]_PlatformVars => [KeepsVerifying]_signingKeysVars
    BY PlatformStep, KeepsVerifyingStep DEF PlatformIInv
  <1>3. PlatformIInv /\ [PlatformNext]_PlatformVars => [DocumentsKept]_salesDealsVars
    BY PlatformStep, SettledStep DEF PlatformIInv, ServicesIInv
  <1>4. PlatformIInv /\ [PlatformNext]_PlatformVars => [WorkKept]_customObjectsVars
    BY PlatformStep, WorkKeptStep DEF PlatformIInv, ServicesIInv
  <1>5. [WorkKept]_customObjectsVars =>
            [\A s \in Slugs :
                /\ \A k \in DecorKinds : decor[s][k] = "own" => decor'[s][k] = "own"
                /\ IsPublished(s) => definition'[s].state \in {"published", "deleted"}
                /\ pack' # pack /\ Defined(s) =>
                      definition'[s].fields = definition[s].fields]_customObjectsVars
    BY DEF WorkKept
  <1> QED
    BY <1>1, <1>2, <1>3, <1>4, <1>5, PlatformInvariance, PTL DEF PlatformSpec, PlatformStepsHold,
       AllowedIsCurrent, RestartKeepsVerifying, KeepsVerifying, SettledDocumentsStay,
       DocumentsKept, OwnWorkIsKept

-----------------------------------------------------------------------------
(* Types: what the invariants above leave open of the rows, the requests   *)
(* and the histories, and what the steps need to keep it.                  *)

\* Leads and customers keep their types.
LEMMA LeadsTyped ==
    ASSUME SalesLeadsIInv, SalesLeadsTypeOK, SalesLeadsNext
    PROVE  SalesLeadsTypeOK'
  <1>0. LeadsSound'
    BY SalesLeadsStep DEF SalesLeadsIInv
  <1>1. staleLeads' \subseteq Leads /\ patchedLeads' \subseteq Leads
    <2>1. ASSUME NEW x \in LeadTxns, converting[x].op \in {"update", "transition", "convert"}
          PROVE  converting[x].lead \in Leads
      BY <2>1 DEF SalesLeadsIInv, LeadsSound
    <2>2. /\ staleLeads \subseteq Leads /\ patchedLeads \subseteq Leads
      BY DEF SalesLeadsTypeOK
    <2>3. ASSUME NEW x \in LeadTxns,
                 converting[x].op \in {"update", "transition", "convert"}, WrittenLead(x)
          PROVE  staleLeads' \subseteq Leads
      BY <2>1, <2>2, <2>3 DEF WrittenLead
    <2> QED
      BY <2>1, <2>2, <2>3 DEF SalesLeadsNext, CreateLead, UpdateLeadRead, TransitionRead,
         UpdateLeadWrite, TransitionWrite, ConvertLeadRead, ConvertLeadWrite,
         UpdateCustomerRead, UpdateCustomerWrite, ConversionFails, CreateCustomer,
         ImportCustomer, DeleteCustomer, LeadReads, leadHistory
  <1> QED  BY <1>0, <1>1 DEF LeadsSound, SalesLeadsTypeOK

\* A deal that is there is in a stage, and a request that moves it has read one;
\* the writes of the documents carry values of their columns.
DealsTyped ==
    /\ SalesDealsTypeOK
    /\ deal.status # "none" => deal.stage \in AllStages
    /\ \A x \in DealTxns :
          /\ dealing[x].op \in {"move", "close"} => dealing[x].from \in AllStages
          /\ dealing[x].op = "contract" => dealing[x].terms \in Terms
          /\ dealing[x].op = "order" =>
                dealing[x].to \in {"confirmed", "fulfilled", "cancelled"}

\* Deals and their documents keep their types.
LEMMA DealsKeepTypes ==
    ASSUME DealIInv, DocumentsSound, DealsTyped, SalesDealsNext
    PROVE  DealsTyped'
  <1>0. /\ DealSound /\ deal \in [status : {"none", "open", "won", "lost"}, stage : AllStages \cup {"none"},
                 moves : Seq((AllStages \cup {"none"}) \X AllStages), events : Seq({"won", "lost"})]
        /\ DOMAIN dealing = DealTxns
    BY DEF DealIInv, DealSound
  <1>1. ASSUME NEW stage \in Stages, CreateDeal(stage)
        PROVE  DealsTyped'
    BY <1>0, <1>1 DEF DealsTyped, SalesDealsTypeOK, CreateDeal, AllStages
  <1>r. ASSUME NEW x \in DealTxns, NEW what, Deal(x, what),
               what.op \in {"move", "close"} => what.from \in AllStages,
               what.op = "contract" => what.terms \in Terms,
               what.op = "order" => what.to \in {"confirmed", "fulfilled", "cancelled"}
        PROVE  DealsTyped'
    BY <1>0, <1>r DEF DealsTyped, SalesDealsTypeOK, Deal
  <1>2. ASSUME NEW x \in DealTxns, NEW stage \in AllStages, UpdateDealRead(x, stage)
        PROVE  DealsTyped'
    BY <1>r, <1>2 DEF DealsTyped, UpdateDealRead
  <1>3. ASSUME NEW x \in DealTxns, NEW outcome \in {"won", "lost"}, CloseDealRead(x, outcome)
        PROVE  DealsTyped'
    BY <1>r, <1>3 DEF DealsTyped, CloseDealRead
  <1>4. ASSUME NEW x \in DealTxns, UpdateDealWrite(x) \/ CloseDealWrite(x)
        PROVE  DealsTyped'
    <2>1. /\ dealing[x].from \in AllStages /\ dealing[x].to \in AllStages
          /\ dealing[x].op = "close" => dealing[x].to \in {"won", "lost"}
          /\ deal.status # "none"
      BY <1>0, <1>4 DEF UpdateDealWrite, CloseDealWrite, DealsTyped, DealSound
    <2>2. PICK status, events :
              /\ deal' = [status |-> status, stage |-> dealing[x].to,
                          moves |-> Moved(dealing[x].from, dealing[x].to), events |-> events]
              /\ status \in {"none", "open", "won", "lost"} /\ events \in Seq({"won", "lost"})
              /\ dealing' = [dealing EXCEPT ![x] = NotDealing] /\ staleDeal' \in BOOLEAN
              /\ UNCHANGED <<salesContract, orderStatus, staleDoc>>
      <3>1. CASE UpdateDealWrite(x)
        BY <1>0, <3>1 DEF UpdateDealWrite, WriteDeal, EndDealing
      <3>2. CASE CloseDealWrite(x)
        <4>1. Append(deal.events, dealing[x].to) \in Seq({"won", "lost"})
          BY <1>0, <2>1, <3>2 DEF CloseDealWrite
        <4> QED  BY <2>1, <3>2, <4>1 DEF CloseDealWrite, WriteDeal, EndDealing
      <3> QED  BY <1>4, <3>1, <3>2
    <2>3. Moved(dealing[x].from, dealing[x].to) \in Seq(AllStages \X AllStages)
      BY <2>1 DEF Moved, DealsTyped, SalesDealsTypeOK
    <2> QED  BY <1>0, <2>1, <2>2, <2>3 DEF DealsTyped, SalesDealsTypeOK, NotDealing
  <1>5. ASSUME NEW terms \in Terms, CreateContract(terms)
        PROVE  DealsTyped'
    BY <1>5 DEF DealsTyped, SalesDealsTypeOK, CreateContract
  <1>6. ASSUME NEW x \in DealTxns, NEW terms \in Terms, NEW status \in {"draft", "cancelled"},
               UpdateContractRead(x, terms, status)
        PROVE  DealsTyped'
    BY <1>r, <1>6 DEF UpdateContractRead
  <1>7. ASSUME NEW x \in DealTxns, NEW to \in {"confirmed", "fulfilled", "cancelled"},
               UpdateOrderStatusRead(x, to)
        PROVE  DealsTyped'
    BY <1>r, <1>7 DEF UpdateOrderStatusRead
  <1>8. ASSUME NEW x \in DealTxns, PublishContractRead(x)
        PROVE  DealsTyped'
    BY <1>r, <1>8 DEF PublishContractRead
  <1>9. ASSUME NEW x \in DealTxns,
               UpdateContractWrite(x) \/ PublishContractWrite(x) \/ UpdateOrderStatusWrite(x)
        PROVE  DealsTyped'
    <2>1. /\ dealing' = [dealing EXCEPT ![x] = NotDealing] /\ deal' = deal
          /\ staleDoc' \in BOOLEAN /\ staleDeal' = staleDeal
      BY <1>9 DEF UpdateContractWrite, PublishContractWrite, UpdateOrderStatusWrite, EndDealing
    <2>2. /\ salesContract' \in [status : {"none", "draft", "active", "cancelled"}, terms : Terms \cup {"none"},
                                 published : BOOLEAN]
          /\ orderStatus' \in {"draft", "confirmed", "fulfilled", "cancelled"}
      BY <1>9 DEF UpdateContractWrite, PublishContractWrite, UpdateOrderStatusWrite, DealsTyped,
         SalesDealsTypeOK, DocumentsSound
    <2> QED  BY <1>0, <2>1, <2>2 DEF DealsTyped, SalesDealsTypeOK, NotDealing
  <1> QED
    BY <1>1, <1>2, <1>3, <1>4, <1>5, <1>6, <1>7, <1>8, <1>9 DEF SalesDealsNext, DealNext,
       DocumentNext

\* Quotes, their approvals and orders keep their types.
LEMMA QuotesTyped ==
    ASSUME SalesQuotesIInv, SalesQuotesTypeOK, SalesQuotesNext
    PROVE  SalesQuotesTypeOK'
  <1>0. QuotesSound' /\ ReadsSound'
    BY SalesQuotesStep DEF SalesQuotesIInv
  <1>1. discountApproval' \in [Quotes -> {"none", "pending", "approved", "rejected"}]
    <2>1. discountApproval \in [Quotes -> {"none", "pending", "approved", "rejected"}]
      BY DEF SalesQuotesTypeOK
    <2>2. ASSUME NEW q, NEW a \in {"pending", "approved", "rejected"},
                 discountApproval' = [discountApproval EXCEPT ![q] = a]
          PROVE  discountApproval' \in [Quotes -> {"none", "pending", "approved", "rejected"}]
      BY <2>1, <2>2
    <2> QED
      BY <2>1, <2>2 DEF SalesQuotesNext, CreateQuote, UpdateQuoteWrite, UpdateQuoteRead,
         SendQuoteRead, AcceptQuoteRead, RejectQuoteRead, OrderFromQuoteRead, DecideDiscount,
         AskForApproval, ApprovalCallback, ForkAccepted, SendQuoteWrite, ApprovalCallbackWrite,
         AnswerQuoteWrite, QuoteRequestFails, CreateOrder, OrderFromQuoteWrite, ReadQuote
  <1>2. staleQuotes' \subseteq Quotes /\ slipped' \subseteq Quotes
    <2>1. staleQuotes \subseteq Quotes /\ slipped \subseteq Quotes
      BY DEF SalesQuotesTypeOK
    <2>2. ASSUME NEW x \in QuoteTxns, NEW slips, quoting[x].op # "idle", Written(x, slips)
          PROVE  staleQuotes' \subseteq Quotes /\ slipped' \subseteq Quotes
      <3>1. quoting[x].quote \in Quotes
        BY <2>2 DEF SalesQuotesIInv, ReadsSound
      <3> QED  BY <2>1, <2>2, <3>1 DEF Written
    <2>3. ASSUME NEW x \in QuoteTxns, NEW d,
                 UpdateQuoteWrite(x, d) \/ SendQuoteWrite(x) \/ ApprovalCallbackWrite(x)
                    \/ AnswerQuoteWrite(x)
          PROVE  staleQuotes' \subseteq Quotes /\ slipped' \subseteq Quotes
      BY <2>2, <2>3 DEF UpdateQuoteWrite, SendQuoteWrite, ApprovalCallbackWrite,
         AnswerQuoteWrite
    <2> QED
      BY <2>1, <2>3 DEF SalesQuotesNext, CreateQuote, UpdateQuoteRead, SendQuoteRead,
         AcceptQuoteRead, RejectQuoteRead, OrderFromQuoteRead, DecideDiscount, AskForApproval,
         ApprovalCallback, ForkAccepted, QuoteRequestFails, CreateOrder, OrderFromQuoteWrite,
         ReadQuote, quoteHistory
  <1> QED  BY <1>0, <1>1, <1>2 DEF QuotesSound, QuoteRow, ReadsSound, SalesQuotesTypeOK

\* The requests that have looked a token up.
TokenReaders(t) == {x \in AuthTxns : authTxn[x].op \in Purposes /\ authTxn[x].token = t}

\* A token that was looked up is of the purpose it was looked up for; a request
\* that uses it is one of those that looked it up before any use, so that they
\* bound its uses.
TokensTyped ==
    /\ oneTime \in [OneTimeTokens -> [purpose : Purposes \cup {"none"}, used : BOOLEAN,
                                      role : {"admin", "member", "none"}]]
    /\ uses \in [OneTimeTokens -> Nat]
    /\ DOMAIN authTxn = AuthTxns /\ tokenRaces \subseteq OneTimeTokens
    /\ \A t \in OneTimeTokens :
          /\ oneTime[t].purpose = "mfa_pending" => oneTime[t].role \in {"admin", "member"}
          /\ uses[t] + Cardinality(TokenReaders(t)) <= Cardinality(AuthTxns)
    /\ \A x \in AuthTxns :
          /\ authTxn[x].op \in {"password", "verified"} => authTxn[x].role \in {"admin", "member"}
          /\ authTxn[x].op = "issue" => authTxn[x].via \in {"magic_link", "oauth"}
          /\ authTxn[x].op \in Purposes =>
                authTxn[x].token \in OneTimeTokens
                   /\ oneTime[authTxn[x].token].purpose = authTxn[x].op

\* The readers of a token are finitely many requests.
LEMMA ReadersFinite ==
    ASSUME NEW t
    PROVE  /\ IsFiniteSet(TokenReaders(t)) /\ Cardinality(TokenReaders(t)) \in Nat
           /\ Cardinality(AuthTxns) \in Nat
           /\ Cardinality(TokenReaders(t)) <= Cardinality(AuthTxns)
  <1>1. TokenReaders(t) \subseteq AuthTxns
    BY DEF TokenReaders
  <1> QED  BY <1>1, AccountsAssumption, FS_Subset, FS_CardinalityType

\* A new token has no reader; the request that sends it may end.
LEMMA TokenIssued ==
    ASSUME TokensTyped, NEW t \in OneTimeTokens, NEW purpose \in Purposes,
           NEW r \in {"admin", "member", "none"},
           purpose = "mfa_pending" => r \in {"admin", "member"},
           Issue(t, purpose, r), UNCHANGED <<uses, tokenRaces>>,
           DOMAIN authTxn' = AuthTxns,
           \A x \in AuthTxns :
              authTxn'[x] = authTxn[x]
                 \/ (authTxn[x].op \notin Purposes /\ authTxn'[x] = NoAuthTxn)
    PROVE  TokensTyped'
  <1>1. NoAuthTxn.op = "idle" /\ "idle" \notin Purposes /\ "none" \notin Purposes
    BY DEF NoAuthTxn, Purposes
  <1>2. ASSUME NEW u PROVE TokenReaders(u)' = TokenReaders(u)
    BY <1>1 DEF TokenReaders
  <1>3. ASSUME NEW u \in OneTimeTokens
        PROVE  /\ oneTime'[u].purpose = "mfa_pending" =>
                     oneTime'[u].role \in {"admin", "member"}
               /\ uses'[u] + Cardinality(TokenReaders(u)') <= Cardinality(AuthTxns)
    BY <1>2 DEF TokensTyped, Issue
  <1>4. ASSUME NEW x \in AuthTxns
        PROVE  /\ authTxn'[x].op \in {"password", "verified"} => authTxn'[x].role \in {"admin", "member"}
               /\ authTxn'[x].op = "issue" => authTxn'[x].via \in {"magic_link", "oauth"}
               /\ authTxn'[x].op \in Purposes =>
                     authTxn'[x].token \in OneTimeTokens
                        /\ oneTime'[authTxn'[x].token].purpose = authTxn'[x].op
    BY <1>1 DEF TokensTyped, Issue, Unissued
  <1>5. oneTime' \in [OneTimeTokens -> [purpose : Purposes \cup {"none"}, used : BOOLEAN,
                                        role : {"admin", "member", "none"}]]
    BY DEF TokensTyped, Issue
  <1> QED  BY <1>3, <1>4, <1>5 DEF TokensTyped

\* A token is looked up while it is unused: it had no effect before.
LEMMA TokenLookedUp ==
    ASSUME TokensTyped, UsedTokensAreMarked, NEW x \in AuthTxns, NEW what, AuthReads(x, what),
           what.op \in {"password", "verified"} => what.role \in {"admin", "member"},
           what.op # "issue",
           what.op \in Purposes => what.token \in OneTimeTokens /\ Usable(what.token, what.op)
    PROVE  TokensTyped'
  <1>1. ASSUME NEW t \in OneTimeTokens
        PROVE  uses[t] + Cardinality(TokenReaders(t)') <= Cardinality(AuthTxns)
    <2>1. CASE what.op \in Purposes /\ what.token = t
      <3>1. uses[t] = 0
        BY <2>1 DEF TokensTyped, UsedTokensAreMarked, Usable
      <3>2. TokenReaders(t)' \subseteq AuthTxns
        BY DEF TokenReaders
      <3> QED  BY <3>1, <3>2, AccountsAssumption, FS_Subset, FS_CardinalityType
    <2>2. CASE ~ (what.op \in Purposes /\ what.token = t)
      <3>1. TokenReaders(t)' = TokenReaders(t)
        BY <2>2 DEF TokenReaders, TokensTyped, AuthReads, NoAuthTxn, Purposes
      <3> QED  BY <3>1 DEF TokensTyped
    <2> QED  BY <2>1, <2>2
  <1>2. ASSUME NEW y \in AuthTxns
        PROVE  /\ authTxn'[y].op \in {"password", "verified"} => authTxn'[y].role \in {"admin", "member"}
               /\ authTxn'[y].op = "issue" => authTxn'[y].via \in {"magic_link", "oauth"}
               /\ authTxn'[y].op \in Purposes =>
                     authTxn'[y].token \in OneTimeTokens
                        /\ oneTime[authTxn'[y].token].purpose = authTxn'[y].op
    BY DEF TokensTyped, AuthReads, Usable
  <1> QED  BY <1>1, <1>2 DEF TokensTyped, AuthReads

\* A token that has its effect has a reader the less.
LEMMA TokenConsumed ==
    ASSUME TokensTyped, NEW x \in AuthTxns, authTxn[x].op \in Purposes,
           Consume(authTxn[x].token),
           NEW what, authTxn' = [authTxn EXCEPT ![x] = what],
           what.op \in {"idle", "issue", "verified"},
           what.op = "issue" => what.via \in {"magic_link", "oauth"},
           what.op = "verified" => what.role \in {"admin", "member"}
    PROVE  TokensTyped'
  <1> DEFINE c == authTxn[x].token
  <1>1. c \in OneTimeTokens
    BY DEF TokensTyped
  <1>2. what.op \notin Purposes /\ what.op # "password"
    BY DEF Purposes
  <1>3. ASSUME NEW t \in OneTimeTokens
        PROVE  uses'[t] + Cardinality(TokenReaders(t)') <= Cardinality(AuthTxns)
    <2>1. CASE t = c
      <3>1. TokenReaders(t)' = TokenReaders(t) \ {x} /\ x \in TokenReaders(t)
        BY <1>2, <2>1 DEF TokenReaders, TokensTyped
      <3>2. Cardinality(TokenReaders(t)') = Cardinality(TokenReaders(t)) - 1
        BY <3>1, ReadersFinite, FS_RemoveElement
      <3>3. uses'[t] = uses[t] + 1 /\ uses[t] \in Nat
        BY <2>1 DEF Consume, TokensTyped
      <3> QED  BY <3>2, <3>3, ReadersFinite DEF TokensTyped
    <2>2. CASE t # c
      <3>1. TokenReaders(t)' = TokenReaders(t)
        BY <1>2, <2>2 DEF TokenReaders, TokensTyped
      <3>2. uses'[t] = uses[t]
        BY <2>2 DEF Consume, TokensTyped
      <3> QED  BY <3>1, <3>2 DEF TokensTyped
    <2> QED  BY <2>1, <2>2
  <1>4. ASSUME NEW t \in OneTimeTokens
        PROVE  /\ oneTime'[t].purpose = oneTime[t].purpose /\ oneTime'[t].role = oneTime[t].role
               /\ oneTime'[t] \in [purpose : Purposes \cup {"none"}, used : BOOLEAN,
                                   role : {"admin", "member", "none"}]
    BY DEF TokensTyped, Consume
  <1>5. ASSUME NEW y \in AuthTxns
        PROVE  /\ authTxn'[y].op \in {"password", "verified"} => authTxn'[y].role \in {"admin", "member"}
               /\ authTxn'[y].op = "issue" => authTxn'[y].via \in {"magic_link", "oauth"}
               /\ authTxn'[y].op \in Purposes =>
                     authTxn'[y].token \in OneTimeTokens
                        /\ oneTime'[authTxn'[y].token].purpose = authTxn'[y].op
    BY <1>2, <1>4 DEF TokensTyped
  <1>6. /\ oneTime' \in [OneTimeTokens -> [purpose : Purposes \cup {"none"}, used : BOOLEAN,
                                           role : {"admin", "member", "none"}]]
        /\ uses' \in [OneTimeTokens -> Nat] /\ tokenRaces' \subseteq OneTimeTokens
        /\ DOMAIN authTxn' = AuthTxns
    <2>1. DOMAIN oneTime' = OneTimeTokens /\ oneTime' = [t \in OneTimeTokens |-> oneTime'[t]]
      BY DEF TokensTyped, Consume
    <2>2. uses' \in [OneTimeTokens -> Nat] /\ tokenRaces' \subseteq OneTimeTokens
      BY <1>1 DEF TokensTyped, Consume
    <2> QED  BY <1>4, <2>1, <2>2 DEF TokensTyped
  <1> QED  BY <1>3, <1>4, <1>5, <1>6 DEF TokensTyped

\* The account, the session ways and the roles.
AccountTyped ==
    /\ account \in [exists : BOOLEAN, password : BOOLEAN, verified : BOOLEAN, failures : 0 .. MaxFailures,
                    locked : BOOLEAN, secret : BOOLEAN, mfa : BOOLEAN]
    /\ role \in {"admin", "member"} /\ recovery \in {"none", "unused", "used"}
    /\ opened \subseteq [via : {"password", "magic_link", "mfa_pending", "oauth", "sso"}, role : {"admin", "member"}]
    /\ lockRaces \in BOOLEAN

\* Accounts, tokens and sessions keep their types.
LEMMA AccountsKeepTypes ==
    ASSUME AccountsSound, UsedTokensAreMarked, AccountTyped, TokensTyped, AccountsNext
    PROVE  AccountTyped' /\ TokensTyped'
  <1>1. ASSUME NEW t \in OneTimeTokens,
               NEW purpose \in {"email_verify", "password_reset", "magic_link", "oauth", "sso"},
               Issue(t, purpose, "none"), UNCHANGED <<uses, authTxn, tokenRaces>>
        PROVE  TokensTyped'
    <2>1. DOMAIN authTxn' = AuthTxns /\ \A x \in AuthTxns : authTxn'[x] = authTxn[x]
      BY <1>1 DEF TokensTyped
    <2>2. purpose \in Purposes /\ purpose # "mfa_pending"
      BY DEF Purposes
    <2> QED  BY <1>1, <2>1, <2>2, TokenIssued
  <1>2. ASSUME NEW t \in OneTimeTokens,
               \/ Register(t) \/ ResendVerification(t) \/ RequestPasswordReset(t)
               \/ RequestMagicLink(t) \/ OauthStart(t) \/ StartOidcLogin(t)
        PROVE  AccountTyped' /\ TokensTyped'
    <2>1. TokensTyped'
      BY <1>1, <1>2 DEF Register, ResendVerification, RequestPasswordReset, RequestMagicLink,
         OauthStart, StartOidcLogin
    <2>2. AccountTyped'
      BY <1>2 DEF AccountTyped, Register, ResendVerification, RequestPasswordReset,
         RequestMagicLink, OauthStart, StartOidcLogin
    <2> QED  BY <2>1, <2>2
  <1>3. ASSUME NEW x \in AuthTxns, authTxn[x].op \notin Purposes, EndAuth(x)
        PROVE  /\ DOMAIN authTxn' = AuthTxns
               /\ \A y \in AuthTxns : authTxn'[y] = IF y = x THEN NoAuthTxn ELSE authTxn[y]
    BY <1>3 DEF EndAuth, TokensTyped
  <1>u. ASSUME AccountTyped
        PROVE  [account EXCEPT !.failures = 0, !.locked = FALSE]
                  \in [exists : BOOLEAN, password : BOOLEAN, verified : BOOLEAN, failures : 0 .. MaxFailures,
                       locked : BOOLEAN, secret : BOOLEAN, mfa : BOOLEAN]
    <2>1. 0 \in 0 .. MaxFailures
      BY AccountsAssumption
    <2> QED  BY <2>1 DEF AccountTyped
  <1>4. ASSUME NEW x \in AuthTxns, NEW t \in OneTimeTokens,
               LoginChallenge(x, t) \/ IssueForUser(x, t)
        PROVE  AccountTyped' /\ TokensTyped'
    <2>0. /\ authTxn[x].op \in {"password", "issue"} /\ authTxn[x].op \notin Purposes
          /\ EndAuth(x) /\ UNCHANGED <<account, role, recovery, uses, tokenRaces, lockRaces>>
          /\ "mfa_pending" \in Purposes
      BY <1>4 DEF LoginChallenge, IssueForUser, Purposes
    <2>1. ASSUME NEW r \in {"admin", "member"}, Issue(t, "mfa_pending", r)
          PROVE  TokensTyped'
      BY <1>3, <2>0, <2>1, TokenIssued
    <2>2. CASE LoginChallenge(x, t)
      BY <2>1, <2>2 DEF LoginChallenge, TokensTyped, AccountTyped
    <2>3. CASE IssueForUser(x, t) /\ RequiresMfa(role)
      BY <2>1, <2>3 DEF IssueForUser, TokensTyped, AccountTyped
    <2>4. CASE IssueForUser(x, t) /\ ~ RequiresMfa(role)
      <3>1. opened' = opened \cup {[via |-> authTxn[x].via, role |-> role]}
               /\ oneTime' = oneTime
            /\ authTxn[x].via \in {"magic_link", "oauth"}
        BY <2>4 DEF IssueForUser, TokensTyped
      <3>2. AccountTyped'
        BY <2>0, <3>1 DEF AccountTyped
      <3>3. ASSUME NEW u PROVE TokenReaders(u)' = TokenReaders(u)
        BY <1>3, <2>0 DEF TokenReaders, NoAuthTxn, Purposes
      <3>4. ASSUME NEW y \in AuthTxns
            PROVE  authTxn'[y] = authTxn[y] \/ authTxn'[y] = NoAuthTxn
        BY <1>3, <2>0
      <3>5. TokensTyped'
        BY <1>3, <2>0, <3>1, <3>3, <3>4 DEF TokensTyped, NoAuthTxn, Purposes
      <3> QED  BY <3>2, <3>5
    <2> QED  BY <1>4, <2>2, <2>3, <2>4
  <1>5. ASSUME NEW x \in AuthTxns, NEW t \in OneTimeTokens, NEW purpose \in Purposes,
               TokenRead(x, t, purpose)
        PROVE  AccountTyped' /\ TokensTyped'
    <2>1. purpose # "password" /\ purpose # "verified" /\ purpose # "issue"
      BY DEF Purposes
    <2> DEFINE what == [op |-> purpose, token |-> t, recoveryCode |-> FALSE]
    <2>2. /\ AuthReads(x, what) /\ what.op = purpose /\ what.token = t
          /\ Usable(what.token, what.op)
      BY <1>5 DEF TokenRead
    <2> HIDE DEF what
    <2>3. TokensTyped'
      BY <2>1, <2>2, TokenLookedUp
    <2>4. AccountTyped'
      BY <2>2 DEF AuthReads, AccountTyped
    <2> QED  BY <2>3, <2>4
  <1>6. ASSUME NEW x \in AuthTxns, LoginRead(x)
        PROVE  AccountTyped' /\ TokensTyped'
    <2> DEFINE what == [op |-> "password", role |-> role]
    <2>1. /\ AuthReads(x, what) /\ what.op = "password" /\ what.role \in {"admin", "member"}
          /\ "password" \notin Purposes
      BY <1>6 DEF LoginRead, AccountTyped, Purposes
    <2> HIDE DEF what
    <2>2. TokensTyped'
      BY <2>1, TokenLookedUp
    <2>3. AccountTyped'
      BY <2>1 DEF AuthReads, AccountTyped
    <2> QED  BY <2>2, <2>3
  <1>7. ASSUME NEW x \in AuthTxns, LoginOpens(x)
        PROVE  AccountTyped' /\ TokensTyped'
    <2>0. /\ authTxn[x].op = "password" /\ authTxn[x].op \notin Purposes /\ EndAuth(x)
          /\ UNCHANGED <<oneTime, uses, tokenRaces>>
      BY <1>7 DEF LoginOpens, Purposes
    <2>1. ASSUME NEW u PROVE TokenReaders(u)' = TokenReaders(u)
      BY <1>3, <2>0 DEF TokenReaders, NoAuthTxn, Purposes
    <2>2. ASSUME NEW y \in AuthTxns
          PROVE  authTxn'[y] = authTxn[y] \/ authTxn'[y] = NoAuthTxn
      BY <1>3, <2>0
    <2>3. TokensTyped'
      BY <1>3, <2>0, <2>1, <2>2 DEF TokensTyped, NoAuthTxn, Purposes
    <2>4. authTxn[x].role \in {"admin", "member"}
      BY <2>0 DEF TokensTyped
    <2>5. AccountTyped'
      BY <1>7, <1>u, <2>4 DEF LoginOpens, AccountTyped
    <2> QED  BY <2>3, <2>5
  <1>8. ASSUME NEW x \in AuthTxns, authTxn[x].op \in Purposes, Consume(authTxn[x].token),
               EndAuth(x)
        PROVE  TokensTyped'
    <2>1. NoAuthTxn.op = "idle"
      BY DEF NoAuthTxn
    <2> QED  BY <1>8, <2>1, TokenConsumed DEF EndAuth
  <1>9. ASSUME NEW x \in AuthTxns,
               VerifyEmail(x) \/ ConfirmPasswordReset(x) \/ CompleteOidcLogin(x)
        PROVE  AccountTyped' /\ TokensTyped'
    <2>1. TokensTyped'
      BY <1>8, <1>9 DEF VerifyEmail, ConfirmPasswordReset, CompleteOidcLogin, Purposes
    <2>2. AccountTyped'
      <3>1. CASE ConfirmPasswordReset(x)
        <4>1. 0 \in 0 .. MaxFailures
          BY AccountsAssumption
        <4> QED  BY <3>1, <4>1 DEF ConfirmPasswordReset, AccountTyped
      <3>2. CASE VerifyEmail(x)
        BY <3>2 DEF VerifyEmail, AccountTyped
      <3>3. CASE CompleteOidcLogin(x)
        BY <3>3 DEF CompleteOidcLogin, AccountTyped
      <3> QED  BY <1>9, <3>1, <3>2, <3>3
    <2> QED  BY <2>1, <2>2
  <1>10. ASSUME NEW x \in AuthTxns, ConsumeMagicLink(x) \/ OauthCallback(x)
         PROVE  AccountTyped' /\ TokensTyped'
    <2>1. PICK via \in {"magic_link", "oauth"} :
             authTxn' = [authTxn EXCEPT ![x] = [op |-> "issue", via |-> via]]
      BY <1>10 DEF ConsumeMagicLink, OauthCallback
    <2> DEFINE what == [op |-> "issue", via |-> via]
    <2>2. /\ authTxn' = [authTxn EXCEPT ![x] = what] /\ what.op = "issue" /\ what.via = via
          /\ authTxn[x].op \in Purposes /\ Consume(authTxn[x].token)
      BY <1>10, <2>1 DEF ConsumeMagicLink, OauthCallback, Purposes
    <2> HIDE DEF what
    <2>3. TokensTyped'
      BY <2>2, TokenConsumed
    <2>4. AccountTyped'
      BY <1>10 DEF ConsumeMagicLink, OauthCallback, AccountTyped
    <2> QED  BY <2>3, <2>4
  <1>11. ASSUME NEW x \in AuthTxns, NEW failed, MfaVerify(x, failed)
         PROVE  AccountTyped' /\ TokensTyped'
    <2> DEFINE what == [op |-> "verified", role |-> oneTime[authTxn[x].token].role]
    <2>1. /\ authTxn[x].op \in Purposes /\ what.op = "verified"
          /\ what.role = oneTime[authTxn[x].token].role
          /\ authTxn' = [authTxn EXCEPT ![x] = what]
          /\ Consume(authTxn[x].token) \/ LeaveUnmarked(authTxn[x].token)
      BY <1>11 DEF MfaVerify, Purposes
    <2>2. oneTime[authTxn[x].token].role \in {"admin", "member"}
      BY <1>11 DEF MfaVerify, TokensTyped, Purposes
    <2>3. what.role \in {"admin", "member"}
      BY <2>1, <2>2
    <2> HIDE DEF what
    <2>4. TokensTyped'
      <3>1. CASE Consume(authTxn[x].token)
        <4>1. what.op # "issue" /\ what.op \in {"idle", "issue", "verified"}
          BY <2>1
        <4> QED  BY <2>1, <2>3, <3>1, <4>1, TokenConsumed
      <3>2. CASE LeaveUnmarked(authTxn[x].token)
        <4>1. UNCHANGED <<oneTime, uses, tokenRaces>> /\ "verified" \notin Purposes
          BY <3>2 DEF LeaveUnmarked, Purposes
        <4>2. ASSUME NEW t \in OneTimeTokens
              PROVE  Cardinality(TokenReaders(t)') <= Cardinality(TokenReaders(t))
                        /\ Cardinality(TokenReaders(t)') \in Nat
          <5>1. TokenReaders(t)' \subseteq TokenReaders(t)
            BY <2>1, <4>1 DEF TokenReaders, TokensTyped
          <5> QED  BY <5>1, ReadersFinite, FS_Subset, FS_CardinalityType
        <4>3. ASSUME NEW t \in OneTimeTokens
              PROVE  /\ oneTime'[t].purpose = "mfa_pending" =>
                           oneTime'[t].role \in {"admin", "member"}
                     /\ uses'[t] + Cardinality(TokenReaders(t)') <= Cardinality(AuthTxns)
          <5>1. uses'[t] = uses[t] /\ uses[t] \in Nat
            BY <4>1 DEF TokensTyped
          <5> QED  BY <4>1, <4>2, <5>1, ReadersFinite DEF TokensTyped
        <4>4. ASSUME NEW y \in AuthTxns
              PROVE  /\ authTxn'[y].op \in {"password", "verified"} =>
                           authTxn'[y].role \in {"admin", "member"}
                     /\ authTxn'[y].op = "issue" => authTxn'[y].via \in {"magic_link", "oauth"}
                     /\ authTxn'[y].op \in Purposes =>
                           authTxn'[y].token \in OneTimeTokens
                              /\ oneTime'[authTxn'[y].token].purpose = authTxn'[y].op
          BY <2>1, <2>2, <4>1 DEF TokensTyped
        <4>5. DOMAIN authTxn' = AuthTxns
          BY <2>1 DEF TokensTyped
        <4>6. /\ oneTime' \in [OneTimeTokens -> [purpose : Purposes \cup {"none"}, used : BOOLEAN,
                                                 role : {"admin", "member", "none"}]]
              /\ uses' \in [OneTimeTokens -> Nat] /\ tokenRaces' \subseteq OneTimeTokens
          BY <4>1 DEF TokensTyped
        <4> QED  BY <4>3, <4>4, <4>5, <4>6 DEF TokensTyped
      <3> QED  BY <2>1, <3>1, <3>2
    <2>5. AccountTyped'
      BY <1>11 DEF MfaVerify, AccountTyped
    <2> QED  BY <2>4, <2>5
  <1>13. ASSUME NEW x \in AuthTxns, RecoveryCodeRead(x)
         PROVE  AccountTyped' /\ TokensTyped'
    <2>1. authTxn[x].op \in Purposes /\ DOMAIN authTxn[x] = {"op", "token", "recoveryCode"}
      BY <1>13 DEF RecoveryCodeRead, AccountsSound, Purposes
    <2>2. ASSUME NEW y \in AuthTxns
          PROVE  /\ authTxn'[y].op = authTxn[y].op
                 /\ authTxn[y].op \in Purposes => authTxn'[y].token = authTxn[y].token
                 /\ authTxn[y].op \notin Purposes => authTxn'[y] = authTxn[y]
      BY <1>13, <2>1 DEF RecoveryCodeRead, TokensTyped
    <2>3. UNCHANGED <<oneTime, uses, tokenRaces>> /\ DOMAIN authTxn' = AuthTxns
      BY <1>13 DEF RecoveryCodeRead, TokensTyped
    <2>4. ASSUME NEW t PROVE TokenReaders(t)' = TokenReaders(t)
      BY <2>2 DEF TokenReaders
    <2>5. ASSUME NEW y \in AuthTxns
          PROVE  /\ authTxn'[y].op \in {"password", "verified"} =>
                       authTxn'[y].role \in {"admin", "member"}
                 /\ authTxn'[y].op = "issue" => authTxn'[y].via \in {"magic_link", "oauth"}
                 /\ authTxn'[y].op \in Purposes =>
                       authTxn'[y].token \in OneTimeTokens
                          /\ oneTime[authTxn'[y].token].purpose = authTxn'[y].op
      BY <2>2 DEF TokensTyped, Purposes
    <2>6. TokensTyped'
      BY <2>3, <2>4, <2>5 DEF TokensTyped
    <2>7. AccountTyped'
      BY <1>13 DEF RecoveryCodeRead, AccountTyped
    <2> QED  BY <2>6, <2>7
  <1>14. ASSUME NEW x \in AuthTxns, NEW failed, MfaOpens(x, failed)
         PROVE  AccountTyped' /\ TokensTyped'
    <2>0. /\ authTxn[x].op = "verified" /\ authTxn[x].op \notin Purposes /\ EndAuth(x)
          /\ UNCHANGED <<oneTime, uses, tokenRaces>>
      BY <1>14 DEF MfaOpens, Purposes
    <2>1. ASSUME NEW u PROVE TokenReaders(u)' = TokenReaders(u)
      BY <1>3, <2>0 DEF TokenReaders, NoAuthTxn, Purposes
    <2>2. ASSUME NEW y \in AuthTxns
          PROVE  authTxn'[y] = authTxn[y] \/ authTxn'[y] = NoAuthTxn
      BY <1>3, <2>0
    <2>3. TokensTyped'
      BY <1>3, <2>0, <2>1, <2>2 DEF TokensTyped, NoAuthTxn, Purposes
    <2>4. authTxn[x].role \in {"admin", "member"}
      BY <2>0 DEF TokensTyped
    <2>5. AccountTyped'
      BY <1>14, <1>u, <2>4 DEF MfaOpens, AccountTyped
    <2> QED  BY <2>3, <2>5
  <1>12. ASSUME LoginFails \/ LockLapses \/ MfaSetup \/ MfaConfirm \/ RoleChanges
         PROVE  AccountTyped' /\ TokensTyped'
    <2>1. UNCHANGED <<oneTime, uses, authTxn, tokenRaces>>
      BY <1>12 DEF LoginFails, LockLapses, MfaSetup, MfaConfirm, RoleChanges
    <2>2. ASSUME NEW u PROVE TokenReaders(u)' = TokenReaders(u)
      BY <2>1 DEF TokenReaders
    <2>3. TokensTyped'
      BY <2>1, <2>2 DEF TokensTyped
    <2>4. AccountTyped'
      <3>1. CASE LoginFails
        <4>1. account.failures + 1 \in 0 .. MaxFailures
          BY <3>1, AccountsAssumption DEF LoginFails, AccountTyped
        <4>2. PICK locked \in BOOLEAN :
                 account' = [account EXCEPT !.failures = account.failures + 1, !.locked = locked]
          <5>1. CASE account.failures + 1 >= MaxFailures
            <6>1. account' = [account EXCEPT !.failures = account.failures + 1, !.locked = TRUE]
              BY <3>1, <5>1 DEF LoginFails
            <6> QED  BY <6>1
          <5>2. CASE ~ (account.failures + 1 >= MaxFailures)
            <6>1. account' = [account EXCEPT !.failures = account.failures + 1, !.locked = FALSE]
              <7>1. (account.failures + 1 >= MaxFailures) = FALSE
                BY <5>2
              <7> QED  BY <3>1, <7>1, Zenon DEF LoginFails
            <6> QED  BY <6>1
          <5> QED  BY <5>1, <5>2
        <4>3. UNCHANGED <<role, recovery, opened, lockRaces>>
          BY <3>1 DEF LoginFails
        <4> QED  BY <4>1, <4>2, <4>3 DEF AccountTyped
      <3>2. CASE LockLapses \/ MfaSetup \/ MfaConfirm \/ RoleChanges
        BY <3>2 DEF LockLapses, MfaSetup, MfaConfirm, RoleChanges, AccountTyped
      <3> QED  BY <1>12, <3>1, <3>2
    <2> QED  BY <2>3, <2>4
  <1> QED
    BY <1>2, <1>4, <1>5, <1>6, <1>7, <1>9, <1>10, <1>11, <1>12, <1>13, <1>14
    DEF AccountsNext

\* Together they are the types of the accounts.
LEMMA AccountsTyped ==
    ASSUME AccountsSound, AccountTyped, TokensTyped
    PROVE  AccountsTypeOK
  <1>1. ASSUME NEW t \in OneTimeTokens
        PROVE  uses[t] \in 0 .. Cardinality(AuthTxns)
    BY ReadersFinite DEF TokensTyped
  <1> QED  BY <1>1 DEF AccountsSound, TokensTyped, AccountTyped, AccountsTypeOK

\* The newest of a partition's rows is one of them.
LEMMA NewestIsRow ==
    ASSUME NEW rows \in SUBSET Instants
    PROVE  Newest(rows) \in rows \cup {NoHash}
  <1>1. CASE rows # {}
    <2> DEFINE uppers == {n \in 0 .. LastInstant : \A e \in rows : e <= n}
    <2>0. /\ rows \subseteq Nat /\ LastInstant \in Nat
          /\ \A e \in rows : e <= LastInstant
      BY AuditTrailAssumption DEF Instants
    <2>1. uppers \subseteq 0 .. LastInstant /\ uppers # {}
      <3>1. LastInstant \in uppers
        BY <2>0
      <3> QED  BY <3>1
    <2> HIDE DEF uppers
    <2>2. PICK n \in uppers : \A m \in uppers : n <= m
      BY <2>0, <2>1, LeastElement
    <2>3. n \in 0 .. LastInstant /\ \A e \in rows : e <= n
      BY <2>2 DEF uppers
    <2>4. n \in rows
      <3>1. SUFFICES ASSUME n \notin rows
                     PROVE  FALSE
        OBVIOUS
      <3>2. \A e \in rows : e < n
        BY <2>0, <2>3, <3>1
      <3>3. n - 1 \in 0 .. LastInstant /\ \A e \in rows : e <= n - 1
        <4>1. PICK e \in rows : TRUE
          BY <1>1
        <4>2. e \in Nat /\ e < n
          BY <2>0, <3>2, <4>1
        <4>3. ASSUME NEW f \in rows PROVE f <= n - 1
          BY <2>0, <2>3, <3>2, <4>3
        <4> QED  BY <2>0, <2>3, <4>2, <4>3
      <3>4. n - 1 \in uppers
        BY <3>3 DEF uppers
      <3> QED  BY <2>2, <2>3, <3>4
    <2>5. Max(rows) \in rows
      <3>1. \E m \in rows : \A e \in rows : m >= e
        BY <2>0, <2>3, <2>4
      <3> QED  BY <3>1, Zenon DEF Max
    <2> QED  BY <1>1, <2>5 DEF Newest
  <1>2. CASE rows = {}
    BY <1>2 DEF Newest
  <1> QED  BY <1>1, <1>2

\* Every hash names a row of the trail.
HashesTyped == \A e \in DOMAIN auditLog : auditLog[e] \in DOMAIN auditLog \cup {NoHash}

\* A row that is committed follows one that is there.
LEMMA HashesKeepTypes ==
    ASSUME AuditTxnsSound, AuditRowsSound, HashesTyped, AuditTrailNext
    PROVE  HashesTyped'
  <1>1. ASSUME NEW x \in AuditTxns, AuditTxnCommit(x)
        PROVE  HashesTyped'
    <2>0. PICK rows : rows = InPartition(auditLog, Partition(auditTxn[x].at))
      OBVIOUS
    <2>1. /\ auditTxn[x].prev = Newest(rows)
          /\ auditLog' = [f \in DOMAIN auditLog \cup {auditTxn[x].at} |->
                             IF f = auditTxn[x].at THEN auditTxn[x].prev ELSE auditLog[f]]
      BY <1>1, <2>0 DEF AuditTxnCommit, AuditTxnsSound
    <2>2. rows \subseteq DOMAIN auditLog /\ rows \in SUBSET Instants
      BY <2>0 DEF InPartition, AuditRowsSound, Instants
    <2>3. auditTxn[x].prev \in DOMAIN auditLog \cup {NoHash}
      BY <2>1, <2>2, NewestIsRow
    <2> QED  BY <2>1, <2>3 DEF HashesTyped
  <1>2. ASSUME UNCHANGED auditLog
        PROVE  HashesTyped'
    BY <1>2 DEF HashesTyped
  <1> QED
    BY <1>1, <1>2 DEF AuditTrailNext, AuditTxnBegin, InsertAudit, AuditTxnAbort, VerifyAllStart,
       CheckPartition, CreateExport

\* With the rest of the invariant that is the type of the trail.
LEMMA AuditTrailTyped ==
    ASSUME AuditTxnsSound, AuditRowsSound, VerifiedIsChain, HashesTyped
    PROVE  AuditTrailTypeOK
  BY AuditTrailAssumption DEF AuditTxnsSound, AuditRowsSound, VerifiedIsChain, HashesTyped,
     AuditTrailTypeOK, Instants

AgentPcs == {"none", "starting", "loop", "cleared", "acted", "killed", "finished", "usage", "dead"}

\* A run that has been cleared for an invoice is at one.
RunTyped(r) ==
    /\ agentRun[r].status \in {"none", "running", "killed", "failed", "completed"}
    /\ agentRun[r].pc \in AgentPcs
    /\ agentRun[r].pod \in Pods \cup {"none"}
    /\ agentRun[r].next \in 1 .. 3
    /\ agentRun[r].pc \in {"cleared", "acted"} => agentRun[r].next \in OverdueInvoices

\* The switch, the policy, the runs, the summary and the months.
AssistantTyped ==
    /\ engaged \subseteq KillScopes /\ cachedKill \in [Pods -> SUBSET KillScopes]
    /\ policyTools \in [versions : 0 .. 2, tools : SUBSET AgentTools]
    /\ \A r \in AgentRuns : RunTyped(r)
    /\ summary \in {"none", "suggested", "accepted", "rejected"}
    /\ aiMonth \in 1 .. LastAiMonth /\ aiTokens.month \in Nat \ {0}

\* An agent run keeps its types.
LEMMA RunsKeepTypes ==
    ASSUME RunsSound, AssistantTyped, AssistantNext, NEW r \in AgentRuns
    PROVE  RunTyped(r)'
  <1>0. /\ DOMAIN agentRun = AgentRuns /\ RunTyped(r) /\ OverdueInvoices = {1, 2}
        /\ DOMAIN agentRun[r] = {"status", "pc", "pod", "tools", "next", "acted"}
    <2>1. OverdueInvoices = {1, 2}
      BY DEF OverdueInvoices
    <2> QED  BY <2>1 DEF RunsSound, RunSound, AssistantTyped
  <1>1. ASSUME NEW p \in Pods, NEW scope \in KillScopes, NEW on \in BOOLEAN,
               SetKillSwitch(p, scope, on)
        PROVE  RunTyped(r)'
    BY <1>0, <1>1 DEF SetKillSwitch, RunTyped
  <1>2. ASSUME NEW q \in AgentRuns, NEW p \in Pods, StartAndRun(q, p)
        PROVE  RunTyped(r)'
    BY <1>0, <1>2 DEF StartAndRun, RunTyped, AgentPcs
  <1>3. ASSUME NEW q \in AgentRuns, InsertRun(q) \/ MarkRun(q) \/ AccountRun(q)
        PROVE  RunTyped(r)'
    <2>1. CASE InsertRun(q)
      BY <1>0, <2>1 DEF InsertRun, RunTyped, AgentPcs
    <2>2. CASE MarkRun(q)
      BY <1>0, <2>2 DEF MarkRun, RunTyped, AgentPcs
    <2>3. CASE AccountRun(q)
      BY <1>0, <2>3 DEF AccountRun, AgentGoes, RunTyped, AgentPcs
    <2> QED  BY <1>3, <2>1, <2>2, <2>3
  <1>4. ASSUME NEW q \in AgentRuns, NextInvoice(q)
        PROVE  RunTyped(r)'
    <2>1. PICK pc \in {"finished", "killed", "cleared"} :
             /\ agentRun' = [agentRun EXCEPT ![q].pc = pc]
             /\ pc = "cleared" => agentRun[q].next \in OverdueInvoices
      BY <1>4 DEF NextInvoice, AgentGoes
    <2> QED  BY <1>0, <2>1 DEF RunTyped, AgentPcs
  <1>5. ASSUME NEW q \in AgentRuns, ChaseInvoice(q)
        PROVE  RunTyped(r)'
    <2>1. /\ agentRun[q].next \in OverdueInvoices
          /\ \/ agentRun' = [agentRun EXCEPT ![q].pc = "acted"]
             \/ agentRun' = [agentRun EXCEPT ![q].pc = "loop", ![q].next = agentRun[q].next + 1]
      BY <1>5, Chased
    <2>2. CASE agentRun' = [agentRun EXCEPT ![q].pc = "acted"]
      BY <1>0, <2>1, <2>2 DEF RunTyped, AgentPcs
    <2>3. CASE agentRun' = [agentRun EXCEPT ![q].pc = "loop", ![q].next = agentRun[q].next + 1]
      <3>1. agentRun[q].next + 1 \in 1 .. 3
        BY <1>0, <2>1
      <3> QED  BY <1>0, <2>3, <3>1 DEF RunTyped, AgentPcs
    <2> QED  BY <2>1, <2>2, <2>3
  <1>6. ASSUME NEW q \in AgentRuns, RecordEffect(q)
        PROVE  RunTyped(r)'
    <2>1. agentRun[q].next + 1 \in 1 .. 3
      BY <1>0, <1>6 DEF RecordEffect, AssistantTyped, RunTyped
    <2>2. CASE q = r
      <3>1. /\ agentRun'[r].pc = "loop" /\ agentRun'[r].next = agentRun[r].next + 1
            /\ agentRun'[r].pod = agentRun[r].pod /\ agentRun'[r].status = agentRun[r].status
        BY <1>0, <1>6, <2>2 DEF RecordEffect
      <3> QED  BY <1>0, <2>1, <2>2, <3>1 DEF RunTyped, AgentPcs
    <2>3. CASE q # r
      <3>1. agentRun'[r] = agentRun[r]
        BY <1>0, <1>6, <2>3 DEF RecordEffect
      <3> QED  BY <1>0, <3>1 DEF RunTyped
    <2> QED  BY <2>2, <2>3
  <1>7. ASSUME NEW p \in Pods, RestartPod(p)
        PROVE  RunTyped(r)'
    BY <1>0, <1>7 DEF RestartPod, RunTyped, AgentPcs
  <1>8. ASSUME UNCHANGED agentRun
        PROVE  RunTyped(r)'
    BY <1>0, <1>8 DEF RunTyped
  <1> QED
    BY <1>1, <1>2, <1>3, <1>4, <1>5, <1>6, <1>7, <1>8 DEF AssistantNext, AgentNext, CopilotNext,
       GetKillSwitch, PublishPolicy, ReverseAction, NextAiMonth, ProcessChat,
       PersistInteraction, DecideSummaryRead, ExtractDocument, PersistInsight, CancelProposal,
       RunTool, PersistProposal, ConfirmProposalRead, ForwardUserRequest, ConfirmProposalWrite,
       CreateFromCalendar, DecideSummaryWrite, PatchSettings, AiReads, NotCopilot

\* The AI service keeps its types.
LEMMA AssistantKeepsTypes ==
    ASSUME RunsSound, UsageSound, AssistantTyped, AssistantNext
    PROVE  AssistantTyped'
  <1>1. ASSUME NEW r \in AgentRuns PROVE RunTyped(r)'
    BY RunsKeepTypes
  <1>2. engaged' \subseteq KillScopes /\ cachedKill' \in [Pods -> SUBSET KillScopes]
    <2>1. engaged \subseteq KillScopes /\ cachedKill \in [Pods -> SUBSET KillScopes]
      BY DEF AssistantTyped
    <2>2. ASSUME NEW p \in Pods, NEW scope \in KillScopes, NEW on \in BOOLEAN,
                 SetKillSwitch(p, scope, on)
          PROVE  engaged' \subseteq KillScopes /\ cachedKill' \in [Pods -> SUBSET KillScopes]
      BY <2>1, <2>2 DEF SetKillSwitch
    <2>3. ASSUME NEW p, CacheKill(p) \/ UNCHANGED cachedKill
          PROVE  cachedKill' \in [Pods -> SUBSET KillScopes]
      BY <2>1, <2>3 DEF CacheKill
    <2>4. ASSUME NEW p \in Pods, GetKillSwitch(p) \/ RestartPod(p)
          PROVE  engaged' \subseteq KillScopes /\ cachedKill' \in [Pods -> SUBSET KillScopes]
      BY <2>1, <2>4 DEF GetKillSwitch, RestartPod
    <2>5. ASSUME NEW r \in AgentRuns, NEW p, StartAndRun(r, p) \/ NextInvoice(r)
          PROVE  engaged' \subseteq KillScopes /\ cachedKill' \in [Pods -> SUBSET KillScopes]
      BY <2>1, <2>3, <2>5 DEF StartAndRun, NextInvoice
    <2>6. ASSUME UNCHANGED <<engaged, cachedKill>>
          PROVE  engaged' \subseteq KillScopes /\ cachedKill' \in [Pods -> SUBSET KillScopes]
      BY <2>1, <2>6
    <2> QED
      BY <2>2, <2>4, <2>5, <2>6 DEF AssistantNext, AgentNext, CopilotNext, PublishPolicy,
         ReverseAction, NextAiMonth, InsertRun, ChaseInvoice, RecordEffect, MarkRun, AccountRun,
         ProcessChat, PersistInteraction, DecideSummaryRead, ExtractDocument, PersistInsight,
         CancelProposal, RunTool, PersistProposal, ConfirmProposalRead, ForwardUserRequest,
         ConfirmProposalWrite, CreateFromCalendar, DecideSummaryWrite, PatchSettings, AiReads,
         NotCopilot, killVars
  <1>3. policyTools' \in [versions : 0 .. 2, tools : SUBSET AgentTools]
    <2>1. policyTools \in [versions : 0 .. 2, tools : SUBSET AgentTools]
      BY DEF AssistantTyped
    <2>2. ASSUME NEW doc \in PolicyDocs, PublishPolicy(doc)
          PROVE  policyTools' \in [versions : 0 .. 2, tools : SUBSET AgentTools]
      <3>1. policyTools.versions + 1 \in 0 .. 2
        BY <2>1, <2>2 DEF PublishPolicy
      <3>2. doc \subseteq AgentTools
        BY AssistantAssumption DEF AgentTools
      <3> QED  BY <2>2, <3>1, <3>2 DEF PublishPolicy
    <2>3. ASSUME UNCHANGED policyTools
          PROVE  policyTools' \in [versions : 0 .. 2, tools : SUBSET AgentTools]
      BY <2>1, <2>3
    <2> QED
      BY <2>2, <2>3 DEF AssistantNext, AgentNext, CopilotNext, SetKillSwitch, GetKillSwitch,
         RestartPod, StartAndRun, NextInvoice, ReverseAction, NextAiMonth, InsertRun,
         ChaseInvoice, RecordEffect, MarkRun, AccountRun, ProcessChat, PersistInteraction,
         DecideSummaryRead, ExtractDocument, PersistInsight, CancelProposal, RunTool,
         PersistProposal, ConfirmProposalRead, ForwardUserRequest, ConfirmProposalWrite,
         CreateFromCalendar, DecideSummaryWrite, PatchSettings, AiReads, NotCopilot
  <1>4. summary' \in {"none", "suggested", "accepted", "rejected"}
    BY DEF AssistantTyped, AssistantNext, AgentNext, CopilotNext, SetKillSwitch, GetKillSwitch,
       RestartPod, StartAndRun, PublishPolicy, NextInvoice, ReverseAction, NextAiMonth,
       InsertRun, ChaseInvoice, RecordEffect, MarkRun, AccountRun, ProcessChat,
       PersistInteraction, DecideSummaryRead, ExtractDocument, PersistInsight, CancelProposal,
       RunTool, PersistProposal, ConfirmProposalRead, ForwardUserRequest, ConfirmProposalWrite,
       CreateFromCalendar, DecideSummaryWrite, PatchSettings, AiReads, copilotVars
  <1>5. aiMonth' \in 1 .. LastAiMonth /\ aiTokens'.month \in Nat \ {0}
    <2>1. /\ aiMonth \in 1 .. LastAiMonth /\ aiTokens.month \in Nat \ {0} /\ LastAiMonth \in Nat
          /\ DOMAIN aiTokens = {"used", "month", "copilot"}
      BY AssistantAssumption DEF AssistantTyped, UsageSound
    <2>2. ASSUME UNCHANGED aiTokens, aiMonth' = aiMonth \/ NextAiMonth
          PROVE  aiMonth' \in 1 .. LastAiMonth /\ aiTokens'.month \in Nat \ {0}
      BY <2>1, <2>2 DEF NextAiMonth
    <2>3. ASSUME UNCHANGED aiMonth, RecordTokenUsage(1)
          PROVE  aiMonth' \in 1 .. LastAiMonth /\ aiTokens'.month \in Nat \ {0}
      <3>1. aiTokens'.month = aiMonth
        BY <2>1, <2>3 DEF RecordTokenUsage
      <3> QED  BY <2>1, <2>3, <3>1
    <2>4. ASSUME NEW on, PatchSettings(on)
          PROVE  aiMonth' \in 1 .. LastAiMonth /\ aiTokens'.month \in Nat \ {0}
      <3>1. aiTokens'.month = aiTokens.month /\ aiMonth' = aiMonth
        BY <2>1, <2>4 DEF PatchSettings
      <3> QED  BY <2>1, <3>1
    <2>5. ASSUME NEW x, AccountRun(x) \/ PersistInteraction(x)
          PROVE  aiMonth' \in 1 .. LastAiMonth /\ aiTokens'.month \in Nat \ {0}
      BY <2>2, <2>3, <2>5 DEF AccountRun, PersistInteraction, RecordTokenUsage, budgetVars
    <2>6. \/ UNCHANGED aiTokens /\ (aiMonth' = aiMonth \/ NextAiMonth)
          \/ \E on : PatchSettings(on)
          \/ \E x : AccountRun(x) \/ PersistInteraction(x)
      BY DEF AssistantNext, AgentNext, CopilotNext, SetKillSwitch, GetKillSwitch, RestartPod,
         StartAndRun, PublishPolicy, NextInvoice, ReverseAction, NextAiMonth, InsertRun,
         ChaseInvoice, RecordEffect, MarkRun, ProcessChat, DecideSummaryRead, ExtractDocument,
         PersistInsight, CancelProposal, RunTool, PersistProposal, ConfirmProposalRead,
         ForwardUserRequest, ConfirmProposalWrite, CreateFromCalendar, DecideSummaryWrite,
         AiReads, budgetVars
    <2> QED  BY <2>2, <2>4, <2>5, <2>6
  <1> QED  BY <1>1, <1>2, <1>3, <1>4, <1>5 DEF AssistantTyped

\* With the invariant, which bounds the stored month, that is its type.
LEMMA AssistantIsTyped ==
    ASSUME ProposalsSound, UsageSound, AssistantTyped
    PROVE  AssistantTypeOK
  <1>1. Cardinality(OverdueInvoices) = 2
    <2>1. 1 \in Int /\ 2 \in Int
      OBVIOUS
    <2>2. ASSUME NEW a \in Int, NEW b \in Int, a = 1, b = 2
          PROVE  Cardinality(a .. b) = 2
      <3>1. Cardinality(a .. b) = IF a > b THEN 0 ELSE b - a + 1
        BY FS_Interval
      <3> QED  BY <2>2, <3>1
    <2> QED  BY <2>1, <2>2 DEF OverdueInvoices
  <1>2. aiTokens.month \in 1 .. LastAiMonth
    BY AssistantAssumption DEF UsageSound, AssistantTyped
  <1>3. aiTokens \in [used : Nat, month : 1 .. LastAiMonth, copilot : BOOLEAN]
    BY <1>2 DEF UsageSound
  <1>4. ASSUME NEW r \in AgentRuns
        PROVE  /\ agentRun[r].status \in {"none", "running", "killed", "failed", "completed"}
               /\ agentRun[r].pc \in
                     {"none", "starting", "loop", "cleared", "acted", "killed", "finished", "usage", "dead"}
               /\ agentRun[r].pod \in Pods \cup {"none"}
               /\ agentRun[r].next \in 1 .. Cardinality(OverdueInvoices) + 1
    BY <1>1 DEF AssistantTyped, RunTyped, AgentPcs
  <1> QED  BY <1>3, <1>4 DEF AssistantTyped, ProposalsSound, AssistantTypeOK

\* The definitions and what packages carry of them.
PackagesTyped ==
    /\ definition \in [Slugs -> [state : {"none", "draft", "published", "deleted"}, fields : SUBSET FieldNames]]
    /\ entityPerms \subseteq Slugs
    /\ decor \in [Slugs -> [DecorKinds -> {"none", "own", "pack"}]]
    /\ pack \in [installed : BOOLEAN, listing : {"none", "active", "revoked"}]

\* An import gives definitions fields of the package, and decorates them.
LEMMA ImportTyped ==
    ASSUME RecordsSound, PackagesTyped, NEW p, ApplyPackageImport(p),
           DOMAIN p.entities \subseteq Slugs,
           \A s \in DOMAIN p.entities : p.entities[s] \subseteq FieldNames
    PROVE  /\ definition' \in [Slugs -> [state : {"none", "draft", "published", "deleted"}, fields : SUBSET FieldNames]]
           /\ entityPerms' \subseteq Slugs
           /\ decor' \in [Slugs -> [DecorKinds -> {"none", "own", "pack"}]]
  <1>1. ASSUME NEW s \in Slugs
        PROVE  (IF s \in DOMAIN p.entities
                THEN [state |-> "published",
                      fields |-> IF Defined(s) THEN definition[s].fields ELSE p.entities[s]]
                ELSE definition[s])
                  \in [state : {"none", "draft", "published", "deleted"}, fields : SUBSET FieldNames]
    <2>1. definition[s] \in [state : {"none", "draft", "published", "deleted"}, fields : SUBSET FieldNames]
      BY DEF PackagesTyped
    <2>2. (IF Defined(s) THEN definition[s].fields ELSE p.entities[s]) \in SUBSET FieldNames
             \/ s \notin DOMAIN p.entities
      BY <2>1
    <2> QED  BY <2>1, <2>2
  <1>d. definition' \in [Slugs -> [state : {"none", "draft", "published", "deleted"}, fields : SUBSET FieldNames]]
    BY <1>1 DEF ApplyPackageImport, ImportEntities
  <1>2. entityPerms' \subseteq Slugs
    BY DEF ApplyPackageImport, ImportEntities, RegisterCustomPermissions, PackagesTyped
  <1>3. ASSUME NEW s \in Slugs
        PROVE  [k \in DecorKinds |-> IF <<s, k>> \in p.decor /\ decor[s][k] = "none" THEN "pack" ELSE decor[s][k]]
                  \in [DecorKinds -> {"none", "own", "pack"}]
    BY DEF PackagesTyped
  <1>4. decor' \in [Slugs -> [DecorKinds -> {"none", "own", "pack"}]]
    BY <1>3 DEF ApplyPackageImport, ImportDecor
  <1> QED  BY <1>d, <1>2, <1>4

\* Definitions and packages keep their types.
LEMMA PackagesKeepTypes ==
    ASSUME RecordsSound, PackagesTyped, CustomObjectsNext
    PROVE  PackagesTyped'
  <1>0. /\ DOMAIN definition = Slugs
        /\ \A s \in Slugs : DOMAIN definition[s] = {"state", "fields"}
    BY DEF RecordsSound
  <1>1. ASSUME NEW s \in Slugs, NEW fields \in SUBSET FieldNames,
               CreateEntity(s, fields) \/ UpdateEntity(s, fields)
        PROVE  PackagesTyped'
    <2>1. PICK state \in {"draft", "published"} :
             /\ definition' = [definition EXCEPT ![s] = [state |-> state, fields |-> fields]]
             /\ UNCHANGED <<entityPerms, decor, pack>>
      <3>1. CASE CreateEntity(s, fields)
        BY <3>1 DEF CreateEntity
      <3>2. CASE UpdateEntity(s, fields)
        <4>1. definition[s] = [state |-> definition[s].state, fields |-> definition[s].fields]
          BY DEF PackagesTyped
        <4>2. [definition[s] EXCEPT !.fields = fields] = [state |-> definition[s].state, fields |-> fields]
          BY <4>1
        <4> QED  BY <3>2, <4>2 DEF UpdateEntity, Defined
      <3> QED  BY <1>1, <3>1, <3>2
    <2> QED  BY <2>1 DEF PackagesTyped
  <1>2. ASSUME NEW s \in Slugs, DeleteEntity(s) \/ PublishEntity(s)
        PROVE  PackagesTyped'
    <2>1. CASE DeleteEntity(s)
      BY <1>0, <2>1 DEF DeleteEntity, PackagesTyped
    <2>2. CASE PublishEntity(s)
      BY <1>0, <2>2 DEF PublishEntity, RegisterCustomPermissions, PackagesTyped
    <2> QED  BY <1>2, <2>1, <2>2
  <1>3. ASSUME NEW s \in Slugs, UpsertScript(s) \/ CreateView(s) \/ UpsertLayout(s)
        PROVE  PackagesTyped'
    <2>1. PICK kind \in DecorKinds : Decorate(s, kind)
      BY <1>3 DEF UpsertScript, CreateView, UpsertLayout, DecorKinds
    <2>2. /\ decor' = [decor EXCEPT ![s][kind] = "own"]
          /\ UNCHANGED <<definition, entityPerms, pack>>
      BY <2>1 DEF Decorate, definitionVars
    <2>3. decor' \in [Slugs -> [DecorKinds -> {"none", "own", "pack"}]]
      <3>1. [decor[s] EXCEPT ![kind] = "own"] \in [DecorKinds -> {"none", "own", "pack"}]
        BY DEF PackagesTyped
      <3>2. decor' = [decor EXCEPT ![s] = [decor[s] EXCEPT ![kind] = "own"]]
        BY <2>2
      <3> QED  BY <3>1, <3>2 DEF PackagesTyped
    <2> QED  BY <2>2, <2>3 DEF PackagesTyped
  <1>4. ASSUME RecordNext
        PROVE  PackagesTyped'
    <2>1. UNCHANGED <<definition, entityPerms, decor, pack>>
      BY <1>4 DEF RecordNext, CreateRecordRead, CreateRecordWrite, GetRecord, UpdateRecordRead,
         UpdateRecordWrite, CreateRecordRefused, UpdateRecordRefused, DeleteRecord,
         CustomReads, definitionVars
    <2> QED  BY <2>1 DEF PackagesTyped
  <1>5. ASSUME NEW p \in Packages, ImportPackage(p)
        PROVE  PackagesTyped'
    <2>1. ApplyPackageImport(p) /\ UNCHANGED pack
      BY <1>5 DEF ImportPackage
    <2>2. /\ DOMAIN p.entities \subseteq Slugs
          /\ \A s \in DOMAIN p.entities : p.entities[s] \subseteq FieldNames
      BY CustomObjectsAssumption
    <2> QED  BY <2>1, <2>2, ImportTyped DEF PackagesTyped
  <1>7. ASSUME NEW listed \in BOOLEAN, InstallPack(listed)
        PROVE  PackagesTyped'
    <2>1. /\ ApplyPackageImport(IndustryPack)
          /\ pack' = [installed |-> TRUE, listing |-> TryInstallMarketplaceListing(listed)]
      BY <1>7 DEF InstallPack
    <2>2. IndustryPack.entities = [s \in {PackSlug} |-> PackFields]
      BY DEF IndustryPack
    <2>3. /\ DOMAIN IndustryPack.entities \subseteq Slugs
          /\ \A s \in DOMAIN IndustryPack.entities : IndustryPack.entities[s] \subseteq FieldNames
      BY <2>2, CustomObjectsAssumption
    <2>4. TryInstallMarketplaceListing(listed) \in {"none", "active", "revoked"}
      BY DEF TryInstallMarketplaceListing, PackagesTyped
    <2> QED  BY <2>1, <2>3, <2>4, ImportTyped DEF PackagesTyped
  <1>8. ASSUME UninstallPack
        PROVE  PackagesTyped'
    BY <1>8 DEF UninstallPack, PackagesTyped, definitionVars
  <1> QED
    BY <1>1, <1>2, <1>3, <1>4, <1>5, <1>7, <1>8 DEF CustomObjectsNext, DefinitionNext,
       PackageNext

\* The records' versions, and what is noted of them.
VersionsTyped ==
    /\ \A r \in Records : custom[r].version <= MaxRecordVersion
    /\ overwrote \in BOOLEAN /\ outdated \subseteq Records
    /\ scripted \in [Records -> SUBSET FieldNames]

\* Versions keep within the bound.
LEMMA VersionsKeepTypes ==
    ASSUME RecordsSound, VersionsTyped, CustomObjectsNext
    PROVE  VersionsTyped'
  <1>0. /\ custom \in [Records -> [state : {"none", "live", "deleted"}, slug : Slugs, keys : SUBSET FieldNames,
                                   version : Nat]]
        /\ MaxRecordVersion \in Nat \ {0} /\ overwrote \in BOOLEAN
    BY CustomObjectsAssumption DEF RecordsSound, VersionsTyped
  <1>s. ASSUME NEW r \in Records, NEW s, NEW seen, NEW keys, NEW version \in Nat,
               NEW added \in SUBSET FieldNames, version <= MaxRecordVersion,
               SaveRecord(r, s, seen, keys, added, version), overwrote' \in BOOLEAN
        PROVE  VersionsTyped'
    BY <1>0, <1>s DEF SaveRecord, VersionsTyped
  <1>1. ASSUME NEW x \in CustomTxns, NEW r \in Records, NEW keys \in SUBSET FieldNames,
               NEW added \in SUBSET FieldNames, CreateRecordWrite(x, r, keys, added)
        PROVE  VersionsTyped'
    <2>1. overwrote' = overwrote /\ 1 \in Nat /\ 1 <= MaxRecordVersion
      BY <1>0, <1>1 DEF CreateRecordWrite
    <2> QED  BY <1>0, <1>1, <1>s, <2>1 DEF CreateRecordWrite
  <1>2. ASSUME NEW x \in CustomTxns, NEW keys \in SUBSET FieldNames,
               NEW added \in SUBSET FieldNames, UpdateRecordWrite(x, keys, added)
        PROVE  VersionsTyped'
    <2>1. customTxn[x].record \in Records
      BY <1>2 DEF UpdateRecordWrite, RecordsSound
    <2>2. PICK r, version, s, seen, stored :
             /\ r \in Records /\ version \in Nat /\ version <= MaxRecordVersion
             /\ SaveRecord(r, s, seen, stored, added, version)
      <3>1. /\ custom[customTxn[x].record].version + 1 \in Nat
            /\ custom[customTxn[x].record].version + 1 <= MaxRecordVersion
        BY <1>0, <1>2, <2>1 DEF UpdateRecordWrite
      <3> QED  BY <1>2, <2>1, <3>1 DEF UpdateRecordWrite
    <2>3. overwrote' \in BOOLEAN
      BY <1>2, Zenon DEF UpdateRecordWrite
    <2> QED  BY <1>s, <2>2, <2>3
  <1>3. ASSUME NEW r \in Records, DeleteRecord(r)
        PROVE  VersionsTyped'
    BY <1>0, <1>3 DEF DeleteRecord, VersionsTyped
  <1>4. ASSUME NEW s \in Slugs, NEW fields, UpdateEntity(s, fields)
        PROVE  VersionsTyped'
    BY <1>4 DEF UpdateEntity, LiveRecords, VersionsTyped
  <1>5. ASSUME UNCHANGED <<custom, overwrote, outdated, scripted>>
        PROVE  VersionsTyped'
    BY <1>5 DEF VersionsTyped
  <1> QED
    BY <1>1, <1>2, <1>3, <1>4, <1>5 DEF CustomObjectsNext, DefinitionNext, RecordNext,
       PackageNext, CreateEntity, DeleteEntity, PublishEntity, UpsertScript, CreateView,
       UpsertLayout, Decorate, CreateRecordRead, GetRecord, UpdateRecordRead,
       CreateRecordRefused, UpdateRecordRefused, CustomReads, ImportPackage, InstallPack,
       UninstallPack, recordVars

\* Together with the records' columns these are the types.
LEMMA CustomObjectsTyped ==
    ASSUME RecordsSound, PackagesTyped, VersionsTyped
    PROVE  CustomObjectsTypeOK
  <1>1. ASSUME NEW r \in Records
        PROVE  custom[r] \in [state : {"none", "live", "deleted"}, slug : Slugs, keys : SUBSET FieldNames,
                              version : 0 .. MaxRecordVersion]
    BY CustomObjectsAssumption DEF RecordsSound, VersionsTyped
  <1>2. custom \in [Records -> [state : {"none", "live", "deleted"}, slug : Slugs, keys : SUBSET FieldNames,
                                version : 0 .. MaxRecordVersion]]
    BY <1>1 DEF RecordsSound
  <1>3. DOMAIN customTxn = CustomTxns
    BY DEF RecordsSound
  <1> QED  BY <1>2, <1>3 DEF PackagesTyped, VersionsTyped, CustomObjectsTypeOK

InstallRows == [status : {"none", "active", "revoked"}, consent : SUBSET Scopes]
GrantRows == [install : Installs \cup {NoInstall}, scopes : SUBSET Scopes, access : BOOLEAN, refresh : BOOLEAN]
CodeRows == [state : {"none", "issued", "used", "expired"}, scopes : SUBSET Scopes]

\* The installs that were made.
InstallsMade == {i \in Installs : install[i].status # "none"}

\* The columns of the listing, its review and the installs, and what the
\* requests that write them have read.
MarketRowsTyped ==
    /\ listing \in {"none", "draft", "submitted", "in_review", "published", "rejected"}
    /\ review \in [there : BOOLEAN, done : SUBSET ReviewItems, secure : BOOLEAN]
    /\ install \in [Installs -> InstallRows]
    /\ grant \in [Grants -> GrantRows]
    /\ authCode \in [AuthCodes -> CodeRows]
    /\ DOMAIN marketTxn = MarketTxns
    /\ \A x \in MarketTxns :
          /\ marketTxn[x].op = "checklist" => marketTxn[x].items \subseteq ReviewItems
          /\ marketTxn[x].op = "code" => marketTxn[x].seen \in CodeRows
          /\ marketTxn[x].op = "refresh" => marketTxn[x].seen[2] \in InstallRows

\* Each install that a code made is one of those that were made.
CodesCounted ==
    /\ codeInstalls \in [AuthCodes -> Nat]
    /\ \A c \in AuthCodes : codeInstalls[c] <= Cardinality(InstallsMade)

\* An install that was made stays made, and the codes count with it.
LEMMA CodesStayCounted ==
    ASSUME CodesCounted, UNCHANGED codeInstalls,
           \A i \in Installs : install[i].status # "none" => install'[i].status # "none"
    PROVE  CodesCounted'
  <1>1. InstallsMade \subseteq InstallsMade' /\ InstallsMade' \subseteq Installs
    BY DEF InstallsMade
  <1>2. IsFiniteSet(InstallsMade')
    BY <1>1, MarketplaceAssumption, FS_Subset
  <1>3. /\ Cardinality(InstallsMade) <= Cardinality(InstallsMade')
        /\ Cardinality(InstallsMade) \in Nat /\ Cardinality(InstallsMade') \in Nat
    BY <1>1, <1>2, FS_Subset, FS_CardinalityType
  <1>4. ASSUME NEW c \in AuthCodes
        PROVE  codeInstalls[c] <= Cardinality(InstallsMade')
    BY <1>3 DEF CodesCounted
  <1> QED  BY <1>4 DEF CodesCounted

\* A step keeps the codes counted: only an exchange counts, and it makes an
\* install.
LEMMA CodesKeepCounted ==
    ASSUME CodesCounted, MarketRowsTyped, MarketReadsSound, MarketplaceNext
    PROVE  CodesCounted'
  <1>0. install \in [Installs -> InstallRows]
    BY DEF MarketRowsTyped
  <1>1. ASSUME NEW x \in MarketTxns, NEW i \in Installs, NEW g \in Grants,
               ExchangeCodeWrite(x, i, g)
        PROVE  CodesCounted'
    <2>1. /\ install[i].status = "none"
          /\ \A j \in Installs : install'[j].status = IF j = i THEN "active" ELSE install[j].status
      BY <1>0, <1>1 DEF ExchangeCodeWrite, InstallListing, InstallRows
    <2>2. InstallsMade' = InstallsMade \cup {i} /\ i \notin InstallsMade
      BY <2>1 DEF InstallsMade
    <2>3. IsFiniteSet(InstallsMade)
      <3>1. InstallsMade \subseteq Installs
        BY DEF InstallsMade
      <3> QED  BY <3>1, MarketplaceAssumption, FS_Subset
    <2>4. /\ Cardinality(InstallsMade') = Cardinality(InstallsMade) + 1
          /\ Cardinality(InstallsMade) \in Nat
      BY <2>2, <2>3, FS_AddElement, FS_CardinalityType
    <2>5. /\ marketTxn[x].code \in AuthCodes
          /\ codeInstalls' = [codeInstalls EXCEPT ![marketTxn[x].code] = @ + 1]
      BY <1>1 DEF ExchangeCodeWrite, MarketReadsSound
    <2>6. ASSUME NEW c \in AuthCodes
          PROVE  codeInstalls'[c] \in Nat /\ codeInstalls'[c] <= Cardinality(InstallsMade')
      BY <2>4, <2>5 DEF CodesCounted
    <2> QED  BY <2>5, <2>6 DEF CodesCounted
  <1>2. ASSUME NEW i \in Installs, NEW g \in Grants, NEW scopes \in Consents,
               CreateInstall(i, g, scopes)
        PROVE  CodesCounted'
    <2>1. /\ \A j \in Installs : install'[j].status = IF j = i THEN "active" ELSE install[j].status
          /\ UNCHANGED codeInstalls
      BY <1>0, <1>2 DEF CreateInstall, InstallListing, InstallRows
    <2> QED  BY <2>1, CodesStayCounted
  <1>3. ASSUME NEW i \in Installs, RevokeInstall(i)
        PROVE  CodesCounted'
    <2>1. /\ \A j \in Installs : install'[j].status = IF j = i THEN "revoked" ELSE install[j].status
          /\ UNCHANGED codeInstalls
      BY <1>0, <1>3 DEF RevokeInstall, InstallRows
    <2> QED  BY <2>1, CodesStayCounted
  <1>4. ASSUME NEW x \in MarketTxns, NEW g \in Grants, NEW scopes \in Consents,
               Reconsent(x, g, scopes)
        PROVE  CodesCounted'
    <2>1. /\ \A j \in Installs : install'[j].status = install[j].status
          /\ UNCHANGED codeInstalls
      BY <1>0, <1>4 DEF Reconsent, InstallRows
    <2> QED  BY <2>1, CodesStayCounted
  <1>5. ASSUME UNCHANGED <<install, codeInstalls>>
        PROVE  CodesCounted'
    BY <1>5 DEF CodesCounted, InstallsMade
  <1> QED
    BY <1>1, <1>2, <1>3, <1>4, <1>5 DEF MarketplaceNext, PublisherNext, InstallNext,
       CreateListing, SeedOne, PublishListing, RejectListing, SubmitListingRead,
       SubmitListingWrite, UpdateChecklistWrite, UpdateChecklistRead, ReconsentRead,
       CreateAuthorizationCode, CodeExpires, ExchangeCodeRead, ExchangeRefreshRead,
       ExchangeRefreshWrite, MarketTxnFails, MarketReads, installVars

\* A request that reads, or ends.
LEMMA MarketReadTyped ==
    ASSUME MarketRowsTyped, NEW x \in MarketTxns, NEW what,
           marketTxn' = [marketTxn EXCEPT ![x] = what], UNCHANGED <<listing, review, install, grant, authCode>>,
           what.op = "checklist" => what.items \subseteq ReviewItems,
           what.op = "code" => what.seen \in CodeRows,
           what.op = "refresh" => what.seen[2] \in InstallRows
    PROVE  MarketRowsTyped'
  BY DEF MarketRowsTyped

\* The marketplace keeps its types.
LEMMA MarketRowsKeepTypes ==
    ASSUME InstallsSound, MarketReadsSound, MarketRowsTyped, MarketplaceNext
    PROVE  MarketRowsTyped'
  <1>0. /\ install \in [Installs -> InstallRows] /\ grant \in [Grants -> GrantRows]
        /\ authCode \in [AuthCodes -> CodeRows] /\ DOMAIN marketTxn = MarketTxns
        /\ review \in [there : BOOLEAN, done : SUBSET ReviewItems, secure : BOOLEAN]
    BY DEF MarketRowsTyped
  <1>e. NoMarketTxn.op = "idle"
    BY DEF NoMarketTxn
  <1>p. ASSUME NEW g \in Grants, NEW i \in Installs, NEW scopes \in SUBSET Scopes,
               NEW grants \in [Grants -> GrantRows]
        PROVE  [grants EXCEPT ![g] = IssuedPair(i, scopes)] \in [Grants -> GrantRows]
    BY DEF GrantRows, IssuedPair
  <1>v. ASSUME NEW i
        PROVE  RevokeInstallTokens(i) \in [Grants -> GrantRows]
    BY <1>0 DEF RevokeInstallTokens, GrantRows
  <1>1. ASSUME CreateListing \/ SeedOne \/ PublishListing \/ RejectListing
        PROVE  MarketRowsTyped'
    BY <1>1
    DEF CreateListing, SeedOne, PublishListing, RejectListing, MarketRowsTyped, installVars
  <1>2. ASSUME NEW x \in MarketTxns, SubmitListingRead(x)
        PROVE  MarketRowsTyped'
    <2> DEFINE what == [op |-> "submit", seen |-> listing]
    <2>1. MarketReads(x, what) /\ what.op = "submit"
      BY <1>2 DEF SubmitListingRead
    <2> HIDE DEF what
    <2> QED  BY <2>1, MarketReadTyped DEF MarketReads, publisherVars, installVars
  <1>3. ASSUME NEW x \in MarketTxns, SubmitListingWrite(x)
        PROVE  MarketRowsTyped'
    <2>1. review' \in [there : BOOLEAN, done : SUBSET ReviewItems, secure : BOOLEAN]
      BY <1>0, <1>3 DEF SubmitListingWrite
    <2> QED  BY <1>3, <1>e, <2>1 DEF SubmitListingWrite, EndMarketTxn, MarketRowsTyped,
                installVars
  <1>4. ASSUME NEW x \in MarketTxns, NEW items \in SUBSET ReviewItems,
               UpdateChecklistRead(x, items)
        PROVE  MarketRowsTyped'
    <2> DEFINE what == [op |-> "checklist", items |-> items \cup review.done, status |-> listing, seen |-> review]
    <2>1. MarketReads(x, what) /\ what.op = "checklist" /\ what.items \subseteq ReviewItems
      BY <1>0, <1>4 DEF UpdateChecklistRead
    <2> HIDE DEF what
    <2> QED  BY <2>1, MarketReadTyped DEF MarketReads, publisherVars, installVars
  <1>5. ASSUME NEW x \in MarketTxns, UpdateChecklistWrite(x)
        PROVE  MarketRowsTyped'
    <2>1. marketTxn[x].items \subseteq ReviewItems
      BY <1>5 DEF UpdateChecklistWrite, MarketRowsTyped
    <2>2. SecurityReviewComplete(marketTxn[x].items) \in BOOLEAN
      BY DEF SecurityReviewComplete
    <2>3. review' \in [there : BOOLEAN, done : SUBSET ReviewItems, secure : BOOLEAN]
      BY <1>5, <2>1, <2>2 DEF UpdateChecklistWrite
    <2> QED  BY <1>5, <1>e, <2>3 DEF UpdateChecklistWrite, EndMarketTxn, MarketRowsTyped,
                installVars
  <1>6. ASSUME NEW i \in Installs, NEW g \in Grants, NEW scopes \in Consents,
               CreateInstall(i, g, scopes)
        PROVE  MarketRowsTyped'
    <2>1. scopes \in SUBSET Scopes
      BY DEF Consents
    <2>2. install' \in [Installs -> InstallRows]
      BY <1>0, <1>6, <2>1 DEF CreateInstall, InstallListing, InstallRows
    <2>3. grant' \in [Grants -> GrantRows]
      BY <1>0, <1>6, <1>p, <2>1 DEF CreateInstall, InstallListing, IssueTokens
    <2> QED  BY <1>6, <2>2, <2>3 DEF CreateInstall, MarketRowsTyped, publisherVars
  <1>7. ASSUME NEW i \in Installs, RevokeInstall(i)
        PROVE  MarketRowsTyped'
    <2>1. install' \in [Installs -> InstallRows]
      BY <1>0, <1>7 DEF RevokeInstall, InstallRows
    <2> QED  BY <1>7, <1>v, <2>1 DEF RevokeInstall, MarketRowsTyped, publisherVars
  <1>8. ASSUME NEW x \in MarketTxns, NEW i \in Installs, ReconsentRead(x, i)
        PROVE  MarketRowsTyped'
    <2> DEFINE what == [op |-> "reconsent", install |-> i, seen |-> install[i]]
    <2>1. MarketReads(x, what) /\ what.op = "reconsent"
      BY <1>8 DEF ReconsentRead
    <2> HIDE DEF what
    <2> QED  BY <2>1, MarketReadTyped DEF MarketReads, publisherVars, installVars
  <1>9. ASSUME NEW x \in MarketTxns, NEW g \in Grants, NEW scopes \in Consents,
               Reconsent(x, g, scopes)
        PROVE  MarketRowsTyped'
    <2>1. scopes \in SUBSET Scopes /\ marketTxn[x].install \in Installs
      BY <1>9 DEF Consents, Reconsent, MarketReadsSound
    <2>2. install' \in [Installs -> InstallRows]
      BY <1>0, <1>9, <2>1 DEF Reconsent, InstallRows
    <2>3. grant' \in [Grants -> GrantRows]
      BY <1>9, <1>p, <1>v, <2>1 DEF Reconsent
    <2> QED  BY <1>9, <1>e, <2>2, <2>3 DEF Reconsent, EndMarketTxn, MarketRowsTyped,
                publisherVars
  <1>10. ASSUME NEW c \in AuthCodes,
                CodeExpires(c) \/ \E scopes \in Consents : CreateAuthorizationCode(c, scopes)
         PROVE  MarketRowsTyped'
    <2>1. authCode' \in [AuthCodes -> CodeRows]
      BY <1>0, <1>10 DEF CreateAuthorizationCode, CodeExpires, Consents, CodeRows
    <2> QED  BY <1>10, <2>1 DEF CreateAuthorizationCode, CodeExpires, MarketRowsTyped,
                publisherVars
  <1>11. ASSUME NEW x \in MarketTxns, NEW c \in AuthCodes, ExchangeCodeRead(x, c)
         PROVE  MarketRowsTyped'
    <2> DEFINE what == [op |-> "code", code |-> c, seen |-> authCode[c]]
    <2>1. MarketReads(x, what) /\ what.op = "code" /\ what.seen \in CodeRows
      BY <1>0, <1>11 DEF ExchangeCodeRead
    <2> HIDE DEF what
    <2> QED  BY <2>1, MarketReadTyped DEF MarketReads, publisherVars, installVars
  <1>12. ASSUME NEW x \in MarketTxns, NEW i \in Installs, NEW g \in Grants,
                ExchangeCodeWrite(x, i, g)
         PROVE  MarketRowsTyped'
    <2>1. marketTxn[x].seen.scopes \in SUBSET Scopes
      BY <1>12 DEF ExchangeCodeWrite, MarketRowsTyped, CodeRows
    <2>2. install' \in [Installs -> InstallRows]
      BY <1>0, <1>12, <2>1 DEF ExchangeCodeWrite, InstallListing, InstallRows
    <2>3. grant' \in [Grants -> GrantRows]
      BY <1>0, <1>12, <1>p, <2>1 DEF ExchangeCodeWrite, InstallListing, IssueTokens
    <2>4. authCode' \in [AuthCodes -> CodeRows]
      BY <1>0, <1>12 DEF ExchangeCodeWrite, CodeRows
    <2> QED
      BY <1>12, <1>e, <2>2, <2>3, <2>4 DEF ExchangeCodeWrite, EndMarketTxn, MarketRowsTyped,
         publisherVars
  <1>13. ASSUME NEW x \in MarketTxns, NEW g \in Grants, ExchangeRefreshRead(x, g)
         PROVE  MarketRowsTyped'
    <2> DEFINE what == [op |-> "refresh", grant |-> g, seen |-> <<grant[g], install[grant[g].install]>>]
    <2>1. grant[g].install \in Installs
      BY <1>13 DEF ExchangeRefreshRead, ResolveToken, ActiveInstalls
    <2>2. MarketReads(x, what) /\ what.op = "refresh" /\ what.seen[2] \in InstallRows
      BY <1>0, <1>13, <2>1 DEF ExchangeRefreshRead
    <2> HIDE DEF what
    <2> QED  BY <2>2, MarketReadTyped DEF MarketReads, publisherVars, installVars
  <1>14. ASSUME NEW x \in MarketTxns, NEW g \in Grants, ExchangeRefreshWrite(x, g)
         PROVE  MarketRowsTyped'
    <2>1. /\ marketTxn[x].grant \in Grants /\ grant[marketTxn[x].grant].install \in Installs
          /\ marketTxn[x].seen[2].consent \in SUBSET Scopes
      BY <1>14 DEF ExchangeRefreshWrite, MarketReadsSound, MarketRowsTyped, InstallRows
    <2>2. [grant EXCEPT ![marketTxn[x].grant].refresh = FALSE] \in [Grants -> GrantRows]
      BY <1>0, <2>1 DEF GrantRows
    <2>3. grant' \in [Grants -> GrantRows]
      BY <1>14, <1>p, <2>1, <2>2 DEF ExchangeRefreshWrite
    <2> QED
      BY <1>14, <1>e, <2>3 DEF ExchangeRefreshWrite, EndMarketTxn, MarketRowsTyped,
         publisherVars
  <1>15. ASSUME NEW x \in MarketTxns, MarketTxnFails(x)
         PROVE  MarketRowsTyped'
    BY <1>15, <1>e, MarketReadTyped DEF MarketTxnFails, EndMarketTxn, publisherVars, installVars
  <1> QED
    BY <1>1, <1>2, <1>3, <1>4, <1>5, <1>6, <1>7, <1>8, <1>9, <1>10, <1>11, <1>12, <1>13, <1>14,
       <1>15 DEF MarketplaceNext, PublisherNext, InstallNext

\* A count of installs is at most their number.
LEMMA MarketplaceTyped ==
    ASSUME MarketRowsTyped, CodesCounted
    PROVE  MarketplaceTypeOK
  <1>1. /\ Cardinality(InstallsMade) <= Cardinality(Installs)
        /\ Cardinality(InstallsMade) \in Nat /\ Cardinality(Installs) \in Nat
    <2>1. InstallsMade \subseteq Installs
      BY DEF InstallsMade
    <2> QED  BY <2>1, MarketplaceAssumption, FS_Subset, FS_CardinalityType
  <1>2. ASSUME NEW c \in AuthCodes
        PROVE  codeInstalls[c] \in 0 .. Cardinality(Installs)
    BY <1>1 DEF CodesCounted
  <1> QED
    BY <1>2 DEF MarketRowsTyped, CodesCounted, MarketplaceTypeOK, InstallRows, GrantRows,
       CodeRows

\* What is added to the invariants of the services of ServicesProofs.
ServicesTypes ==
    /\ SalesLeadsTypeOK /\ DealsTyped /\ SalesQuotesTypeOK
    /\ PackagesTyped /\ VersionsTyped /\ MarketRowsTyped /\ CodesCounted /\ AssistantTyped

PlatformTypes == AccountTyped /\ TokensTyped /\ HashesTyped /\ ServicesTypes

\* The initial states have the types.
LEMMA TypesStart == PlatformInit => PlatformTypes
  <1> SUFFICES ASSUME PlatformInit
               PROVE  PlatformTypes
    OBVIOUS
  <1>1. AccountTyped
    <2>1. 0 \in 0 .. MaxFailures
      BY AccountsAssumption
    <2> QED  BY <2>1 DEF PlatformInit, AccountsInit, AccountTyped
  <1>2. TokensTyped
    <2>1. /\ oneTime = [t \in OneTimeTokens |-> Unissued] /\ uses = [t \in OneTimeTokens |-> 0]
          /\ authTxn = [x \in AuthTxns |-> NoAuthTxn] /\ tokenRaces = {}
      BY DEF PlatformInit, AccountsInit
    <2>2. NoAuthTxn.op = "idle" /\ "idle" \notin Purposes
      BY DEF NoAuthTxn, Purposes
    <2>3. ASSUME NEW t \in OneTimeTokens
          PROVE  uses[t] + Cardinality(TokenReaders(t)) <= Cardinality(AuthTxns)
      BY <2>1, ReadersFinite
    <2> QED  BY <2>1, <2>2, <2>3 DEF TokensTyped, Unissued
  <1>3. HashesTyped
    BY DEF PlatformInit, AuditTrailInit, HashesTyped
  <1>4. SalesLeadsTypeOK
    <2>1. /\ lead = [l \in Leads |-> [status |-> "none", email |-> NoEmail, customer |-> NoCustomer]]
          /\ customer = [c \in Customers |-> NoCustomerRow]
          /\ DOMAIN converting = LeadTxns /\ staleLeads = {} /\ patchedLeads = {}
      BY DEF PlatformInit, SalesLeadsInit
    <2>2. NoEmail \in AnyEmail
      BY DEF AnyEmail
    <2> QED  BY <2>1, <2>2 DEF SalesLeadsTypeOK, NoCustomerRow
  <1>5. DealsTyped
    <2>1. /\ deal.status = "none" /\ deal.stage = "none" /\ deal.moves = <<>>
                /\ deal.events = <<>>
          /\ salesContract = [status |-> "none", terms |-> "none", published |-> FALSE]
          /\ orderStatus = "draft" /\ staleDeal = FALSE /\ staleDoc = FALSE
          /\ dealing = [x \in DealTxns |-> NotDealing]
      BY DEF PlatformInit, SalesDealsInit, NoDealRow
    <2>2. deal.moves \in Seq(AllStages \X AllStages) /\ deal.events \in Seq({"won", "lost"})
      BY <2>1
    <2>3. SalesDealsTypeOK
      BY <2>1, <2>2 DEF SalesDealsTypeOK
    <2> QED  BY <2>1, <2>3 DEF DealsTyped, NotDealing
  <1>6. SalesQuotesTypeOK
    <2>1. /\ quote = [q \in Quotes |-> NoQuoteRow]
                /\ salesOrder = [o \in SalesOrders |-> NoOrderRow]
          /\ discountApproval = [q \in Quotes |-> "none"]
          /\ DOMAIN quoting = QuoteTxns /\ staleQuotes = {} /\ slipped = {}
      BY DEF PlatformInit, SalesQuotesInit
    <2> QED  BY <2>1 DEF SalesQuotesTypeOK, NoQuoteRow, NoOrderRow, QuoteStatuses
  <1>7. PackagesTyped /\ VersionsTyped
    <2>1. /\ definition = [s \in Slugs |-> [state |-> "none", fields |-> {}]]
          /\ entityPerms = {} /\ decor = [s \in Slugs |-> [k \in DecorKinds |-> "none"]]
          /\ pack = [installed |-> FALSE, listing |-> "none"]
          /\ overwrote = FALSE /\ outdated = {} /\ scripted = [r \in Records |-> {}]
      BY DEF PlatformInit, CustomObjectsInit
    <2>2. ASSUME NEW r \in Records
          PROVE  custom[r].version <= MaxRecordVersion
      <3>1. custom[r].version = 0
        BY DEF PlatformInit, CustomObjectsInit
      <3> QED  BY <3>1, CustomObjectsAssumption
    <2>3. PackagesTyped
      BY <2>1 DEF PackagesTyped
    <2>4. VersionsTyped
      BY <2>1, <2>2 DEF VersionsTyped
    <2> QED  BY <2>3, <2>4
  <1>8. MarketRowsTyped
    BY DEF PlatformInit, MarketplaceInit, MarketRowsTyped, InstallRows, GrantRows, CodeRows,
       NoMarketTxn
  <1>9. CodesCounted
    <2>1. codeInstalls = [c \in AuthCodes |-> 0]
      BY DEF PlatformInit, MarketplaceInit
    <2>2. Cardinality(InstallsMade) \in Nat
      <3>1. InstallsMade \subseteq Installs
        BY DEF InstallsMade
      <3> QED  BY <3>1, MarketplaceAssumption, FS_Subset, FS_CardinalityType
    <2> QED  BY <2>1, <2>2 DEF CodesCounted
  <1>10. AssistantTyped
    <2>1. /\ engaged = {} /\ cachedKill = [p \in Pods |-> {}]
          /\ policyTools = [versions |-> 0, tools |-> {}] /\ summary = "none"
      BY DEF PlatformInit, AssistantInit
    <2>2. aiMonth \in 1 .. LastAiMonth /\ aiTokens.month \in Nat \ {0}
      <3>1. aiMonth = 1 /\ aiTokens.month = 1
        BY DEF PlatformInit, AssistantInit
      <3> QED  BY <3>1, AssistantAssumption
    <2>3. ASSUME NEW r \in AgentRuns
          PROVE  RunTyped(r)
      BY DEF PlatformInit, AssistantInit, NoAgentRun, RunTyped, AgentPcs
    <2> QED  BY <2>1, <2>2, <2>3 DEF AssistantTyped
  <1> QED
    BY <1>1, <1>2, <1>3, <1>4, <1>5, <1>6, <1>7, <1>8, <1>9, <1>10
    DEF PlatformTypes, ServicesTypes

\* A component that does not move keeps its types.
LEMMA TypesIdle ==
    /\ UNCHANGED accountsVars /\ AccountTyped /\ TokensTyped => AccountTyped' /\ TokensTyped'
    /\ UNCHANGED auditTrailVars /\ HashesTyped => HashesTyped'
    /\ UNCHANGED salesLeadsVars /\ SalesLeadsTypeOK => SalesLeadsTypeOK'
    /\ UNCHANGED salesDealsVars /\ DealsTyped => DealsTyped'
    /\ UNCHANGED salesQuotesVars /\ SalesQuotesTypeOK => SalesQuotesTypeOK'
    /\ UNCHANGED customObjectsVars /\ PackagesTyped /\ VersionsTyped =>
          PackagesTyped' /\ VersionsTyped'
    /\ UNCHANGED marketplaceVars /\ MarketRowsTyped /\ CodesCounted =>
          MarketRowsTyped' /\ CodesCounted'
    /\ UNCHANGED assistantVars /\ AssistantTyped => AssistantTyped'
  <1>1. UNCHANGED accountsVars /\ AccountTyped /\ TokensTyped => AccountTyped' /\ TokensTyped'
    <2> SUFFICES ASSUME UNCHANGED accountsVars, AccountTyped, TokensTyped
                 PROVE  AccountTyped' /\ TokensTyped'
      OBVIOUS
    <2>1. UNCHANGED <<account, role, recovery, oneTime, uses, authTxn, opened, tokenRaces, lockRaces>>
      BY DEF accountsVars
    <2>2. ASSUME NEW t PROVE TokenReaders(t)' = TokenReaders(t)
      BY <2>1 DEF TokenReaders
    <2>3. AccountTyped'
      BY <2>1 DEF AccountTyped
    <2>4. TokensTyped'
      BY <2>1, <2>2 DEF TokensTyped
    <2> QED  BY <2>3, <2>4
  <1>2. UNCHANGED auditTrailVars /\ HashesTyped => HashesTyped'
    BY DEF auditTrailVars, HashesTyped
  <1>3. UNCHANGED salesLeadsVars /\ SalesLeadsTypeOK => SalesLeadsTypeOK'
    BY DEF salesLeadsVars, SalesLeadsTypeOK
  <1>4. UNCHANGED salesDealsVars /\ DealsTyped => DealsTyped'
    BY DEF salesDealsVars, DealsTyped, SalesDealsTypeOK
  <1>5. UNCHANGED salesQuotesVars /\ SalesQuotesTypeOK => SalesQuotesTypeOK'
    BY DEF salesQuotesVars, SalesQuotesTypeOK
  <1>6. UNCHANGED customObjectsVars /\ PackagesTyped /\ VersionsTyped =>
           PackagesTyped' /\ VersionsTyped'
    BY DEF customObjectsVars, PackagesTyped, VersionsTyped
  <1>7. UNCHANGED marketplaceVars /\ MarketRowsTyped /\ CodesCounted =>
           MarketRowsTyped' /\ CodesCounted'
    BY DEF marketplaceVars, MarketRowsTyped, CodesCounted, InstallsMade
  <1>8. UNCHANGED assistantVars /\ AssistantTyped => AssistantTyped'
    BY DEF assistantVars, AssistantTyped, RunTyped
  <1> QED  BY <1>1, <1>2, <1>3, <1>4, <1>5, <1>6, <1>7, <1>8

\* Every step of the platform keeps the types.
LEMMA TypesKeep == PlatformIInv /\ PlatformTypes /\ [PlatformNext]_PlatformVars => PlatformTypes'
  <1> SUFFICES ASSUME PlatformIInv, PlatformTypes, [PlatformNext]_PlatformVars
               PROVE  PlatformTypes'
    OBVIOUS
  <1> USE PlatformStep, TypesIdle
  <1>1. AccountTyped' /\ TokensTyped'
    BY AccountsKeepTypes DEF PlatformIInv, AccountsIInv, PlatformTypes
  <1>2. HashesTyped'
    BY HashesKeepTypes DEF PlatformIInv, AuditTrailIInv, PlatformTypes
  <1>3. SalesLeadsTypeOK'
    BY LeadsTyped DEF PlatformIInv, ServicesIInv, PlatformTypes, ServicesTypes
  <1>4. DealsTyped'
    BY DealsKeepTypes DEF PlatformIInv, ServicesIInv, PlatformTypes, ServicesTypes
  <1>5. SalesQuotesTypeOK'
    BY QuotesTyped DEF PlatformIInv, ServicesIInv, PlatformTypes, ServicesTypes
  <1>6. PackagesTyped' /\ VersionsTyped'
    BY PackagesKeepTypes, VersionsKeepTypes
    DEF PlatformIInv, ServicesIInv, CustomRecordsIInv, PlatformTypes, ServicesTypes
  <1>7. MarketRowsTyped' /\ CodesCounted'
    BY MarketRowsKeepTypes, CodesKeepCounted
    DEF PlatformIInv, ServicesIInv, MarketplaceIInv, PlatformTypes, ServicesTypes
  <1>8. AssistantTyped'
    BY AssistantKeepsTypes DEF PlatformIInv, ServicesIInv, AssistantIInv, PlatformTypes,
       ServicesTypes
  <1> QED  BY <1>1, <1>2, <1>3, <1>4, <1>5, <1>6, <1>7, <1>8 DEF PlatformTypes, ServicesTypes

\* The invariants and the types together.
LEMMA PlatformTypesInvariant == PlatformSpec => [](PlatformIInv /\ PlatformTypes)
  BY PlatformStarts, PlatformKeeps, TypesStart, TypesKeep, PTL DEF PlatformSpec

\* Every row, token, request and history of the platform keeps its type, and a
\* token, a code, a record and an agent run keep within their bounds: for every
\* set of requests, rows and definitions.
THEOREM PlatformTyped == PlatformSpec => []PlatformTypeOK
  <1>1. PlatformIInv /\ PlatformTypes => PlatformTypeOK
    <2> SUFFICES ASSUME PlatformIInv, PlatformTypes
                 PROVE  PlatformTypeOK
      OBVIOUS
    <2>1. /\ ApprovalsTypeOK /\ SigningKeysTypeOK /\ RequestAuthorizationTypeOK
                /\ CustomerKeysTypeOK
      BY DEF PlatformIInv, ApprovalsIInv, SigningKeysIInv, RequestAuthorizationIInv,
         CustomerKeysIInv
    <2>2. WorkflowEngineTypeOK
      BY DEF PlatformIInv, ServicesIInv, WorkflowIInv, RunsIInv
    <2>3. SalesLeadsTypeOK /\ SalesDealsTypeOK /\ SalesQuotesTypeOK
      BY DEF PlatformTypes, ServicesTypes, DealsTyped
    <2>4. AccountsTypeOK
      BY AccountsTyped DEF PlatformIInv, AccountsIInv, PlatformTypes
    <2>5. AuditTrailTypeOK
      BY AuditTrailTyped DEF PlatformIInv, AuditTrailIInv, PlatformTypes
    <2>6. CustomObjectsTypeOK
      BY CustomObjectsTyped DEF PlatformIInv, ServicesIInv, CustomRecordsIInv, PlatformTypes,
         ServicesTypes
    <2>7. MarketplaceTypeOK
      BY MarketplaceTyped DEF PlatformTypes, ServicesTypes
    <2>8. AssistantTypeOK
      BY AssistantIsTyped DEF PlatformIInv, ServicesIInv, AssistantIInv, PlatformTypes,
         ServicesTypes
    <2> QED  BY <2>1, <2>2, <2>3, <2>4, <2>5, <2>6, <2>7, <2>8 DEF PlatformTypeOK
  <1> QED  BY <1>1, PlatformTypesInvariant, PTL

=============================================================================
