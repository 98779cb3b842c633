-------------------------- MODULE EmployeeLifecycle --------------------------
(***************************************************************************)
(* Onboarding and offboarding of employees in the HR service.  Each is one *)
(* transaction of several steps; with fail_after the steps done so far are *)
(* compensated and the transaction commits, any other error rolls it back. *)
(* One user, a member at first, is linked to the employees of Linked.      *)
(* offboard and update_employee read the employee without a lock and write *)
(* it later; a login reads the membership in one transaction and creates   *)
(* the session in another.  Assets, documents, tasks and the timeline are  *)
(* left out.                                                               *)
(***************************************************************************)
EXTENDS Integers, FiniteSets

CONSTANTS
    Employees,    \* people_employee ids
    Linked,       \* the employees whose user_id is the user of the model
    HrTxns,       \* concurrent requests
    GivenStatuses, \* statuses that create_employee and update_employee are given
    FailAfter,    \* the steps after which a failure is injected; NoFailure for none
    NoManager

VARIABLES
    employee,     \* people_employee: status and manager_employee_id
    workflowRun,  \* people_workflow_run, offboarding
    access,       \* the user's membership; whether a session is live, and whether
                  \* one stands revoked by an offboarding
    loggingIn,    \* a login has read the membership and has yet to create its session
    hrWork,       \* what each request has read
    readmitted,   \* history: since the last offboarding of a linked employee, an
                  \* administrator or a compensation made the user a member again
    crossed       \* history: a live session was created by a login that had read the
                  \* membership before it was suspended or revoked

employeeLifecycleVars ==
    <<employee, workflowRun, access, loggingIn, hrWork, readmitted, crossed>>
accessVars == <<access, loggingIn, readmitted, crossed>>

EmployeeStatus == {"none", "draft", "onboarding", "active", "on_leave", "offboarding", "terminated"}

\* The steps are numbered: mark_offboarding, reassign_reports, create_return_tasks,
\* revoke_access, terminate, notify; and create_employee, assign_role,
\* allocate_assets, create_documents, create_tasks, notify.
NoFailure == 7

ASSUME EmployeeLifecycleAssumption ==
    /\ Linked \subseteq Employees /\ NoManager \notin Employees /\ FailAfter \subseteq 1..NoFailure
    /\ GivenStatuses \subseteq EmployeeStatus \ {"none"}

NotAtWork == [op |-> "idle"]

EmployeeLifecycleTypeOK ==
    /\ employee \in [Employees -> [status : EmployeeStatus, manager : Employees \cup {NoManager}]]
    /\ workflowRun \in [Employees -> {"none", "completed", "compensated"}]
    /\ access \in [member : {"active", "suspended", "revoked"}, live : BOOLEAN, offboarded : BOOLEAN]
    /\ DOMAIN hrWork = HrTxns
    /\ loggingIn \in BOOLEAN /\ readmitted \in BOOLEAN /\ crossed \in BOOLEAN

EmployeeLifecycleInit ==
    /\ employee = [e \in Employees |-> [status |-> "none", manager |-> NoManager]]
    /\ workflowRun = [e \in Employees |-> "none"]
    /\ access = [member |-> "active", live |-> FALSE, offboarded |-> FALSE]
    /\ hrWork = [x \in HrTxns |-> NotAtWork]
    /\ loggingIn = FALSE /\ readmitted = FALSE /\ crossed = FALSE

\* A step was reached: the failure is injected after it, or later, or never.
Done(fail, i) == i <= fail

-----------------------------------------------------------------------------
(* Employees and onboarding *)

IsManager(m) == m \in {NoManager} \cup {e \in Employees : employee[e].status # "none"}

\* The status given is any valid one.
CreateEmployee(e, status, m) ==
    /\ employee[e].status = "none"
    /\ m # e /\ IsManager(m)
    /\ employee' = [employee EXCEPT ![e] = [status |-> status, manager |-> m]]
    /\ UNCHANGED <<workflowRun, hrWork, accessVars>>

\* onboard.  compensate_onboarding leaves a draft employee.
Onboard(e, m, fail) ==
    /\ employee[e].status = "none"
    /\ m # e /\ IsManager(m)
    /\ employee' = [employee EXCEPT ![e] =
                       [status |-> IF fail = NoFailure THEN "onboarding" ELSE "draft", manager |-> m]]
    /\ UNCHANGED <<workflowRun, hrWork, accessVars>>

Fetch(x, op, e) ==
    /\ hrWork[x] = NotAtWork
    /\ employee[e].status # "none"
    /\ hrWork' = [hrWork EXCEPT ![x] = [op |-> op, emp |-> e, seen |-> employee[e]]]
    /\ UNCHANGED <<employee, workflowRun, accessVars>>

FinishHr(x) == hrWork' = [hrWork EXCEPT ![x] = NotAtWork]

\* update_employee compares the version of the row it read, and writes every
\* field of it, changed or not.
UpdateEmployeeRead(x, e) == Fetch(x, "update", e)

UpdateEmployeeWrite(x, status, m) ==
    LET e == hrWork[x].emp
    IN  /\ hrWork[x].op = "update"
        /\ status \in GivenStatuses \cup {hrWork[x].seen.status}
        /\ m = hrWork[x].seen.manager \/ IsManager(m)
        /\ employee' = [employee EXCEPT ![e] = [status |-> status, manager |-> m]]
        /\ FinishHr(x)
        /\ UNCHANGED <<workflowRun, accessVars>>

-----------------------------------------------------------------------------
(* Offboarding *)

OffboardRead(x, e) == Fetch(x, "offboard", e)

\* Mutant: the membership is revoked and the sessions go on.
RevokeAccessKeepsSessions(a) == [a EXCEPT !.member = "revoked"]

\* revoke_all_access_paths of the linked user: a suspended membership too, and
\* every session that is live.
RevokeAccess(a) ==
    [member |-> "revoked", live |-> FALSE, offboarded |-> a.offboarded \/ a.live]

\* Mutant: the sessions are revived whoever revoked them.
RestoreAccessRevivesAll(a) == [member |-> "active", live |-> TRUE, offboarded |-> FALSE]

\* compensate_offboarding makes whatever membership is revoked active, and
\* revives every session that some offboarding has revoked.
RestoreAccess(a) ==
    [member |-> IF a.member = "revoked" THEN "active" ELSE a.member,
     live |-> a.live \/ a.offboarded, offboarded |-> FALSE]

\* Access that somebody, or an earlier offboarding, has taken away.
WasTaken == access.member # "active" \/ access.offboarded

\* The steps up to the failure, and the compensation of what they did: the
\* status that was read, the manager of the reports, the access.
OffboardWrite(x, m, fail) ==
    LET e == hrWork[x].emp
        reports == {r \in Employees : employee[r].manager = e /\ m # NoManager}
        revokes == e \in Linked /\ Done(fail, 4)
        failed == fail # NoFailure
    IN  /\ hrWork[x].op = "offboard"
        /\ m # e /\ IsManager(m)
        /\ employee' = [r \in Employees |->
              [status |-> IF r # e THEN employee[r].status
                          ELSE IF failed THEN hrWork[x].seen.status ELSE "terminated",
               manager |-> IF r \in reports /\ ~failed THEN m ELSE employee[r].manager]]
        /\ workflowRun' = [workflowRun EXCEPT ![e] = IF failed THEN "compensated" ELSE "completed"]
        /\ access' = IF ~revokes THEN access
                     ELSE IF failed THEN RestoreAccess(RevokeAccess(access)) ELSE RevokeAccess(access)
        /\ readmitted' = IF revokes THEN failed /\ (readmitted \/ WasTaken) ELSE readmitted
        /\ crossed' = (crossed /\ (failed \/ ~revokes))
        /\ FinishHr(x)
        /\ UNCHANGED loggingIn

\* ensure_not_last_owner and any other error roll the transaction back.
HrRequestFails(x) ==
    /\ hrWork[x] # NotAtWork
    /\ FinishHr(x)
    /\ UNCHANGED <<employee, workflowRun, accessVars>>

-----------------------------------------------------------------------------
(* The core service: the user logs in; an administrator suspends, revokes  *)
(* or readmits                                                             *)

hrVars == <<employee, workflowRun, hrWork>>

\* issue_for_user reads the memberships and commits.  A privileged user is
\* asked for a second factor, and the login waits for minutes.
LoginReads ==
    /\ access.member = "active"
    /\ loggingIn' = TRUE
    /\ UNCHANGED <<hrVars, access, readmitted, crossed>>

\* The session is created in a later transaction, which does not look at the
\* membership again; other logins may have read it as well.
LoginCreatesSession ==
    /\ loggingIn
    /\ access' = [access EXCEPT !.live = TRUE]
    /\ loggingIn' \in BOOLEAN
    /\ crossed' = (crossed \/ access.member # "active")
    /\ UNCHANGED <<hrVars, readmitted>>

\* suspend_member, revoke_member and a SCIM deactivation; a membership that is
\* revoked already is not found, and its sessions stay.
MembershipBecomes(from, to) ==
    /\ access.member \in from
    /\ access' = [access EXCEPT !.member = to, !.live = FALSE]
    /\ crossed' = FALSE
    /\ UNCHANGED <<hrVars, loggingIn, readmitted>>

MembershipSuspended == MembershipBecomes({"active"}, "suspended")
MembershipRevoked == MembershipBecomes({"active", "suspended"}, "revoked")

\* logout, and revoke_all_sessions.
SessionsEnd ==
    /\ access' = [access EXCEPT !.live = FALSE]
    /\ crossed' = FALSE
    /\ UNCHANGED <<hrVars, loggingIn, readmitted>>

\* accept_invitation, and SCIM provisioning or reactivation.
MemberReadmitted ==
    /\ access.member # "active"
    /\ access' = [access EXCEPT !.member = "active"]
    /\ readmitted' = TRUE
    /\ UNCHANGED <<hrVars, loggingIn, crossed>>

EmployeeLifecycleNext ==
    \/ \E e \in Employees, status \in GivenStatuses, m \in Employees \cup {NoManager} : CreateEmployee(e, status, m)
    \/ \E e \in Employees, m \in Employees \cup {NoManager}, fail \in FailAfter : Onboard(e, m, fail)
    \/ \E x \in HrTxns, e \in Employees : UpdateEmployeeRead(x, e) \/ OffboardRead(x, e)
    \/ \E x \in HrTxns, status \in EmployeeStatus, m \in Employees \cup {NoManager} : UpdateEmployeeWrite(x, status, m)
    \/ \E x \in HrTxns, m \in Employees \cup {NoManager}, fail \in FailAfter : OffboardWrite(x, m, fail)
    \/ \E x \in HrTxns : HrRequestFails(x)
    \/ LoginReads \/ LoginCreatesSession \/ SessionsEnd
    \/ MembershipSuspended \/ MembershipRevoked \/ MemberReadmitted

-----------------------------------------------------------------------------
(* Properties *)

\* As long as the workflow of a linked employee stands as completed the user has
\* no membership, and no live session but one of a login that the offboarding
\* overtook, which had read the membership before and looks at it no more; unless
\* an administrator made the user a member again, or the compensation of another
\* employee's offboarding did.
OffboardedHasNoAccess ==
    \A e \in Linked : workflowRun[e] = "completed" /\ ~readmitted
                          => access.member = "revoked" /\ (access.live => crossed)

\* An offboarding that is compensated gives nobody a manager or access they did
\* not have before it, unless their membership was suspended or revoked, or a
\* session revoked by an offboarding, before it began: those it gives back.
CompensationRestores ==
    [][\A x \in HrTxns :
          LET e == hrWork[x].emp
          IN  hrWork[x].op = "offboard" /\ hrWork'[x] = NotAtWork /\ workflowRun'[e] = "compensated"
                  => /\ \A r \in Employees : employee'[r].manager = employee[r].manager
                     /\ access' = access \/ WasTaken]_employeeLifecycleVars
=============================================================================
