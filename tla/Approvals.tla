------------------------------ MODULE Approvals ------------------------------
(***************************************************************************)
(* The approval process of the operations service, for one subject (an     *)
(* expense, a quote discount, a leave request, a payroll run ...).  A      *)
(* policy has immutable published versions; a new approval takes a         *)
(* snapshot of the current one.  decide_approval ends with a conditional   *)
(* UPDATE; escalate_approval reads without a lock and writes               *)
(* unconditionally, so each has a read step and a write step.  The answer  *)
(* to the subject's own service is one HTTP call whose failure is ignored. *)
(***************************************************************************)
EXTENDS Naturals, Sequences, FiniteSets

CONSTANTS
    Approvers,      \* users with operations.approval.decide
    Definitions,    \* policy definitions: sequences of [assignees, escalate]
    ApprovalTxns,   \* concurrent requests
    MaxVersion,     \* bound on published versions
    MaxDecisions,   \* bound on decision rows
    NoRole          \* escalate_to_role is absent

ASSUME ApprovalsAssumption ==
    /\ MaxVersion \in Nat \ {0} /\ MaxDecisions \in Nat \ {0}
    /\ \A d \in Definitions :
           d \in Seq([assignees : SUBSET Approvers, escalate : {NoRole} \cup SUBSET Approvers])

VARIABLES
    policy,         \* operations_approval_policy and its versions
    approval,       \* operations_approval and its steps
    decisions,      \* operations_approval_decision: rows that approve or reject
    delegated,      \* operations_approval_delegation: <<from, to>>
    answered,       \* what the subject's service was told first
    deciding,       \* what each request has read
    overtaken       \* history: an escalation wrote after a decision it had not seen

approvalsVars == <<policy, approval, decisions, delegated, answered, deciding, overtaken>>

NotDeciding == [op |-> "idle"]
NoApproval == [status |-> "none", step |-> 0, version |-> 0, steps |-> <<>>]

StepStatuses == {"active", "pending", "escalated", "approved", "rejected"}

ApprovalsTypeOK ==
    /\ policy.active \in BOOLEAN /\ policy.versions \in Seq(Definitions)
    /\ approval.status \in {"none", "pending", "approved", "rejected"}
    /\ \A k \in DOMAIN approval.steps : approval.steps[k].status \in StepStatuses
    /\ decisions \in Seq([step : Nat, outcome : {"approved", "rejected"}])
    /\ delegated \subseteq Approvers \X Approvers
    /\ answered \in {"none", "approved", "rejected"}
    /\ DOMAIN deciding = ApprovalTxns
    /\ overtaken \in BOOLEAN

ApprovalsInit ==
    /\ \E d \in Definitions : policy = [active |-> TRUE, versions |-> <<d>>]
    /\ approval = NoApproval /\ decisions = <<>> /\ delegated = {}
    /\ answered = "none"
    /\ deciding = [x \in ApprovalTxns |-> NotDeciding]
    /\ overtaken = FALSE

-----------------------------------------------------------------------------
(* Policies *)

\* publish_new_version: the unique (policy, version) refuses a concurrent one.
PublishVersion(d) ==
    /\ Len(policy.versions) < MaxVersion
    /\ policy' = [policy EXCEPT !.versions = Append(@, d)]
    /\ UNCHANGED <<approval, decisions, delegated, answered, deciding, overtaken>>

SetActive(active) ==
    /\ policy.active # active
    /\ policy' = [policy EXCEPT !.active = active]
    /\ UNCHANGED <<approval, decisions, delegated, answered, deciding, overtaken>>

\* build_routing_snapshot
Snapshot(d) ==
    [k \in DOMAIN d |-> [assignees |-> d[k].assignees, escalate |-> d[k].escalate,
                         status |-> IF k = 1 THEN "active" ELSE "pending"]]

\* create_approval: a second request for the subject is answered with the first.
CreateApproval ==
    LET version == Len(policy.versions)
    IN  /\ approval.status = "none"
        /\ policy.active /\ policy.versions[version] # <<>>
        /\ approval' = [status |-> "pending", step |-> 1, version |-> version,
                        steps |-> Snapshot(policy.versions[version])]
        /\ UNCHANGED <<policy, decisions, delegated, answered, deciding, overtaken>>

CreateDelegation(from, to) ==
    /\ delegated' = delegated \cup {<<from, to>>}
    /\ UNCHANGED <<policy, approval, decisions, answered, deciding, overtaken>>

-----------------------------------------------------------------------------
(* Decisions *)

\* actor_can_decide_step, and anyone when the step has no assignee.
CanDecide(actor, k) ==
    LET assignees == approval.steps[k].assignees
    IN  assignees = {} \/ actor \in assignees \/ \E a \in assignees : <<a, actor>> \in delegated

DecideApprovalRead(x, actor) ==
    /\ deciding[x] = NotDeciding
    /\ approval.status = "pending" /\ Len(decisions) < MaxDecisions
    /\ CanDecide(actor, approval.step)
    /\ deciding' = [deciding EXCEPT ![x] = [op |-> "decide", step |-> approval.step]]
    /\ UNCHANGED <<policy, approval, decisions, delegated, answered, overtaken>>

\* Mutant: the UPDATE forgets AND status = 'pending'.
DecideApprovalWriteAlways(x, outcome) ==
    LET read == deciding[x]
    IN  /\ read.op = "decide"
        /\ approval' = [approval EXCEPT !.status = outcome, !.steps[read.step].status = outcome]
        /\ decisions' = Append(decisions, [step |-> read.step, outcome |-> outcome])
        /\ deciding' = [deciding EXCEPT ![x] = [op |-> "answer", outcome |-> outcome]]
        /\ UNCHANGED <<policy, delegated, answered, overtaken>>

\* UPDATE ... WHERE status = 'pending', the step that was read, and the
\* decision row; the loser of a race answers with what there is.
DecideApprovalWrite(x, outcome) ==
    LET read == deciding[x]
        won == approval.status = "pending"
    IN  /\ read.op = "decide"
        /\ approval' = IF won THEN [approval EXCEPT !.status = outcome,
                                                    !.steps[read.step].status = outcome]
                       ELSE approval
        /\ decisions' = IF won THEN Append(decisions, [step |-> read.step, outcome |-> outcome])
                        ELSE decisions
        /\ deciding' = [deciding EXCEPT ![x] = IF won THEN [op |-> "answer", outcome |-> outcome]
                                               ELSE NotDeciding]
        /\ UNCHANGED <<policy, delegated, answered, overtaken>>

\* apply_subject_side_effect, after the commit: the subject's service keeps the
\* first answer; a call that fails, or a crash before it, is not repeated.
AnswerSubject(x, lost) ==
    /\ deciding[x].op = "answer"
    /\ answered' = IF lost \/ answered # "none" THEN answered ELSE deciding[x].outcome
    /\ deciding' = [deciding EXCEPT ![x] = NotDeciding]
    /\ UNCHANGED <<policy, approval, decisions, delegated, overtaken>>

-----------------------------------------------------------------------------
(* Escalation *)

EscalateApprovalRead(x) ==
    /\ deciding[x] = NotDeciding
    /\ approval.status = "pending"
    /\ deciding' = [deciding EXCEPT ![x] = [op |-> "escalate", step |-> approval.step, seen |-> approval.status,
                                            role |-> approval.steps[approval.step].escalate]]
    /\ UNCHANGED <<policy, approval, decisions, delegated, answered, overtaken>>

\* The next step becomes active, or the last step goes to the members of the
\* escalation role and the approval is set to pending whatever it was.
EscalateApprovalWrite(x) ==
    LET read == deciding[x]
        k == read.step
        left == [approval EXCEPT !.steps[k].status = "escalated"]
    IN  /\ read.op = "escalate"
        /\ approval' = IF k < Len(approval.steps)
                       THEN [left EXCEPT !.step = k + 1, !.steps[k + 1].status = "active"]
                       ELSE IF read.role # NoRole
                       THEN [left EXCEPT !.status = "pending", !.steps[k].status = "active",
                                         !.steps[k].assignees = read.role]
                       ELSE left
        /\ overtaken' = (overtaken \/ approval.status # read.seen \/ approval.step # k)
        /\ deciding' = [deciding EXCEPT ![x] = NotDeciding]
        /\ UNCHANGED <<policy, decisions, delegated, answered>>

ApprovalsNext ==
    \/ CreateApproval
    \/ \E d \in Definitions : PublishVersion(d)
    \/ \E active \in BOOLEAN : SetActive(active)
    \/ \E from, to \in Approvers : from # to /\ CreateDelegation(from, to)
    \/ \E x \in ApprovalTxns : EscalateApprovalRead(x) \/ EscalateApprovalWrite(x)
    \/ \E x \in ApprovalTxns, lost \in BOOLEAN : AnswerSubject(x, lost)
    \/ \E x \in ApprovalTxns, a \in Approvers : DecideApprovalRead(x, a)
    \/ \E x \in ApprovalTxns, outcome \in {"approved", "rejected"} : DecideApprovalWrite(x, outcome)

-----------------------------------------------------------------------------
(* Properties *)

\* A subject is decided once: one decision row, the approval's status is its
\* outcome, the step it names carries it, and the subject's service heard that
\* outcome or nothing; the exception is an escalation that wrote after a
\* decision it had not seen, which reopens the approval.
SubjectDecidedOnce ==
    ~overtaken =>
        /\ Len(decisions) = IF approval.status \in {"approved", "rejected"} THEN 1 ELSE 0
        /\ \A n \in DOMAIN decisions :
               /\ approval.status = decisions[n].outcome
               /\ approval.steps[decisions[n].step].status = decisions[n].outcome
               /\ answered \in {"none", decisions[n].outcome}
        /\ decisions = <<>> => answered = "none"

\* A pending approval waits for somebody: its current step is the active one,
\* or it is the last one, escalated with no role to go to.  Its steps are those
\* of the version it was created from, whatever was published since.
PendingStepIsOpen ==
    approval.status # "none" =>
        /\ Len(approval.steps) = Len(policy.versions[approval.version])
        /\ (approval.status = "pending" /\ ~overtaken) =>
               LET step == approval.steps[approval.step]
               IN  \/ step.status = "active"
                   \/ step.status = "escalated" /\ approval.step = Len(approval.steps) /\ step.escalate = NoRole

=============================================================================
