-------------------------------- MODULE Leave --------------------------------
(***************************************************************************)
(* Leave requests of one employee and one leave type of the HR service,    *)
(* and the append-only ledger their balance is the sum of.  A day is one   *)
(* unit.  submit, cancel and decide read the request without a lock and    *)
(* write it later whatever it has become; lateLeave remembers the requests *)
(* written from an old read.                                               *)
(***************************************************************************)
EXTENDS Integers, FiniteSets, FiniteSetsExt

CONSTANTS
    LeaveRequests,    \* people_leave_request ids
    LeaveTxns,        \* concurrent requests to the service
    LastLeaveDay,     \* bound: dates are the days 0..LastLeaveDay
    DaysPerYear,
    CarryCap,         \* carry_forward_cap_milli
    ExpiryDays,       \* expiry_days
    LeaveStarts,      \* start_date of a request
    LeaveLengths,     \* units_milli of a request
    AccrualDays,      \* effective_date of an accrual
    AccrualUnits,     \* units_milli of an accrual
    NeedsApproval     \* requires_approval values of the leave type

ASSUME LeaveAssumption ==
    /\ LastLeaveDay \in Nat /\ DaysPerYear \in Nat \ {0}
    /\ CarryCap \in Nat /\ ExpiryDays \in Nat /\ AccrualUnits \in Nat \ {0}
    /\ LeaveStarts \subseteq 0..LastLeaveDay /\ AccrualDays \subseteq 0..LastLeaveDay
    /\ LeaveLengths \subseteq Nat \ {0} /\ NeedsApproval \subseteq BOOLEAN

VARIABLES
    leave,         \* people_leave_request: status, start_date, units_milli
    ledger,        \* people_leave_ledger: source_key -> units, effective and expiry date
    approvalNeeded,
    presence,      \* people_employee.status: "other" is any but active and on_leave
    byHand,        \* history: no leave handler has written it since an employee handler did
    today,
    carried,       \* people_leave_carry_forward_run: the years that were run
    leaving,       \* what each request to the service has read
    lateLeave      \* history: leave requests written from an old read

leaveVars == <<leave, ledger, approvalNeeded, presence, byHand, today, carried, leaving, lateLeave>>

LeaveDays == 0..LastLeaveDay
NoLeave == [status |-> "none", start |-> 0, units |-> 0]
NotLeaving == [op |-> "idle"]
Never == -1
EmployeeStates == {"active", "on_leave", "other"}
Years == {y \in 0..LastLeaveDay : (y + 1) * DaysPerYear <= LastLeaveDay}
YearEnd(y) == (y + 1) * DaysPerYear - 1

Entry(key, units, from, expires) == [key |-> key, units |-> units, from |-> from, expires |-> expires]

LeaveTypeOK ==
    /\ leave \in [LeaveRequests -> [status : {"none", "draft", "pending_approval", "approved", "rejected", "cancelled"},
                                    start : LeaveDays, units : LeaveLengths \cup {0}]]
    /\ \A e \in ledger : e.units \in Int /\ e.from \in LeaveDays /\ e.expires \in Nat \cup {Never}
    /\ approvalNeeded \in NeedsApproval
    /\ presence \in EmployeeStates /\ byHand \in BOOLEAN
    /\ today \in LeaveDays /\ carried \subseteq Years
    /\ DOMAIN leaving = LeaveTxns
    /\ lateLeave \subseteq LeaveRequests

\* create_leave_type gives requires_approval its value, create_employee the
\* status: active, or at once another one.
LeaveInit ==
    /\ leave = [r \in LeaveRequests |-> NoLeave]
    /\ ledger = {}
    /\ approvalNeeded \in NeedsApproval
    /\ presence = "active" /\ byHand = TRUE
    /\ today = 0 /\ carried = {}
    /\ leaving = [x \in LeaveTxns |-> NotLeaving]
    /\ lateLeave = {}

-----------------------------------------------------------------------------
(* The ledger *)

Units(entries) == SumFunction([e \in entries |-> e.units])

\* balance_as_of: what is effective, less the credits that have expired.
BalanceAsOf(entries, day) ==
    LET counted == {e \in entries : /\ e.from <= day
                                    /\ ~(e.expires # Never /\ e.units > 0 /\ e.expires < day)}
    IN  Units(counted)

\* insert_ledger_entry: a source_key that is there is not posted again.
Post(entry) == IF \E e \in ledger : e.key = entry.key THEN {} ELSE {entry}

\* carry_forward_credit
CarryForwardCredit(balance) == IF balance < CarryCap THEN balance ELSE CarryCap

\* run_carry_forward of a year zeroes the balance of its last day on the first
\* day of the next, and carries what the cap allows.
RunCarryForward(y) ==
    LET balance == BalanceAsOf(ledger, YearEnd(y))
        credit == IF balance > 0 THEN CarryForwardCredit(balance) ELSE 0
    IN  /\ y \notin carried
        /\ carried' = carried \cup {y}
        /\ ledger' = ledger
              \cup (IF balance # 0 THEN Post(Entry(<<"cf-zero", y>>, -balance, YearEnd(y) + 1, Never)) ELSE {})
              \cup (IF credit > 0 THEN Post(Entry(<<"cf", y>>, credit, YearEnd(y) + 1, YearEnd(y) + ExpiryDays)) ELSE {})
        /\ UNCHANGED <<leave, approvalNeeded, presence, byHand, today, leaving, lateLeave>>

\* accrue_leave, at most one accrual of a date: the bound on the ledger.
AccrueLeave(day) ==
    /\ ~\E e \in ledger : e.key = <<"accrual", day>>
    /\ ledger' = ledger \cup {Entry(<<"accrual", day>>, AccrualUnits, day, Never)}
    /\ UNCHANGED <<leave, approvalNeeded, presence, byHand, today, carried, leaving, lateLeave>>

-----------------------------------------------------------------------------
(* Requests *)

Current(r) == leave[r].status = "approved" /\ leave[r].start <= today /\ today < leave[r].start + leave[r].units
Debit(r) == Entry(<<"debit", r>>, -leave[r].units, leave[r].start, Never)

\* do_submit, of a request that was a draft when it was read.
SubmittedStatus == IF approvalNeeded THEN "pending_approval" ELSE "approved"
CanSubmit(start, units) == BalanceAsOf(ledger, start) >= units

CreateLeaveRequest(r, start, units, submit) ==
    LET status == IF submit THEN SubmittedStatus ELSE "draft"
        debit == Entry(<<"debit", r>>, -units, start, Never)
    IN  /\ leave[r].status = "none"
        /\ submit => CanSubmit(start, units)
        /\ leave' = [leave EXCEPT ![r] = [status |-> status, start |-> start, units |-> units]]
        /\ ledger' = IF status = "approved" THEN ledger \cup {debit} ELSE ledger
        /\ UNCHANGED <<approvalNeeded, presence, byHand, today, carried, leaving, lateLeave>>

Ask(x, op, r) ==
    /\ leaving[x] = NotLeaving
    /\ leaving' = [leaving EXCEPT ![x] = [op |-> op, req |-> r, seen |-> leave[r].status]]
    /\ UNCHANGED <<leave, ledger, approvalNeeded, presence, byHand, today, carried, lateLeave>>

Answer(x, status) ==
    LET r == leaving[x].req
    IN  /\ leave' = [leave EXCEPT ![r].status = status]
        /\ lateLeave' = IF leave[r].status = leaving[x].seen THEN lateLeave ELSE lateLeave \cup {r}
        /\ leaving' = [leaving EXCEPT ![x] = NotLeaving]
        /\ UNCHANGED <<approvalNeeded, today, carried>>

\* The balance is tested, and the approval requested, before the status is written.
SubmitLeaveRead(x, r) ==
    /\ leave[r].status = "draft"
    /\ CanSubmit(leave[r].start, leave[r].units)
    /\ Ask(x, "submit", r)

SubmitLeaveWrite(x) ==
    /\ leaving[x].op = "submit"
    /\ Answer(x, SubmittedStatus)
    /\ ledger' = IF SubmittedStatus = "approved" THEN ledger \cup Post(Debit(leaving[x].req)) ELSE ledger
    /\ UNCHANGED <<presence, byHand>>

DecideLeaveRead(x, r) ==
    /\ leave[r].status = "pending_approval"
    /\ Ask(x, "decide", r)

\* A leave handler writes the status with the status it expects in the WHERE.
StatusBecomes(from, to) ==
    IF presence = from THEN presence' = to /\ byHand' = FALSE ELSE UNCHANGED <<presence, byHand>>

DecideLeaveWrite(x, approve) ==
    LET r == leaving[x].req
    IN  /\ leaving[x].op = "decide"
        /\ Answer(x, IF approve THEN "approved" ELSE "rejected")
        /\ ledger' = IF approve THEN ledger \cup Post(Debit(r)) ELSE ledger
        /\ IF approve /\ leave[r].start <= today /\ today < leave[r].start + leave[r].units
           THEN StatusBecomes("active", "on_leave") ELSE UNCHANGED <<presence, byHand>>

CancelLeaveRead(x, r) ==
    /\ leave[r].status \in {"draft", "pending_approval", "approved"}
    /\ Ask(x, "cancel", r)

\* The debit is credited if the request was approved when it was read;
\* maybe_clear_on_leave then looks for another leave that is current.
CancelLeaveWrite(x) ==
    LET r == leaving[x].req
        approved == leaving[x].seen = "approved"
    IN  /\ leaving[x].op = "cancel"
        /\ Answer(x, "cancelled")
        /\ ledger' = IF approved THEN ledger \cup Post(Entry(<<"cancel", r>>, leave[r].units, today, Never)) ELSE ledger
        /\ IF approved /\ ~\E q \in LeaveRequests \ {r} : Current(q)
           THEN StatusBecomes("on_leave", "active") ELSE UNCHANGED <<presence, byHand>>

\* create_employee, update_employee, offboarding and onboarding write the status
\* they are given or had read, on_leave included, whatever the leave requests say.
WriteEmployeeStatus(status) ==
    /\ presence' = status /\ byHand' = TRUE
    /\ UNCHANGED <<leave, ledger, approvalNeeded, today, carried, leaving, lateLeave>>

DayPasses ==
    /\ today < LastLeaveDay
    /\ today' = today + 1
    /\ UNCHANGED <<leave, ledger, approvalNeeded, presence, byHand, carried, leaving, lateLeave>>

LeaveNext ==
    \/ \E y \in Years : RunCarryForward(y)
    \/ \E day \in AccrualDays : AccrueLeave(day)
    \/ \E r \in LeaveRequests, start \in LeaveStarts, units \in LeaveLengths, submit \in BOOLEAN :
          CreateLeaveRequest(r, start, units, submit)
    \/ \E x \in LeaveTxns, r \in LeaveRequests : SubmitLeaveRead(x, r) \/ CancelLeaveRead(x, r) \/ DecideLeaveRead(x, r)
    \/ \E x \in LeaveTxns : SubmitLeaveWrite(x) \/ CancelLeaveWrite(x)
    \/ \E x \in LeaveTxns, approve \in BOOLEAN : DecideLeaveWrite(x, approve)
    \/ \E status \in EmployeeStates : WriteEmployeeStatus(status)
    \/ DayPasses

-----------------------------------------------------------------------------
(* Properties *)

\* The ledger takes from the balance exactly the units of the approved requests,
\* whatever was submitted, decided and cancelled before, and an employee whom a
\* decision has put on leave is there because of a request that is approved,
\* unless two handlers wrote a request from overlapping reads.  A status that an
\* employee handler wrote has no request behind it, until a decision or a
\* cancellation writes it again.
LeaveLedgerMatchesRequests ==
    LET net(r) == Units({e \in ledger : e.key \in {<<"debit", r>>, <<"cancel", r>>}})
    IN  /\ \A r \in LeaveRequests \ lateLeave :
              net(r) = IF leave[r].status = "approved" THEN -leave[r].units ELSE 0
        /\ presence = "on_leave" /\ ~byHand =>
              \/ lateLeave # {}
              \/ \E r \in LeaveRequests : leave[r].status = "approved" /\ leave[r].start <= today

\* A carry-forward leaves of the balance of the year's last day what the cap
\* allows, unless a credit expired on that very day: it is then taken twice.  An
\* expiry of no days leaves nothing, whatever the cap.
KeepsTheCap(y) ==
    LET before == BalanceAsOf(ledger, YearEnd(y))
        posted == {e \in ledger' : e.from <= YearEnd(y) \/ e \notin ledger}
    IN  \/ \E e \in ledger : e.expires = YearEnd(y)
        \/ BalanceAsOf(posted, YearEnd(y) + 1)
              = IF before < 0 \/ ExpiryDays = 0 THEN 0
                ELSE IF before < CarryCap THEN before ELSE CarryCap

CarryForwardKeepsTheCap == [][\A y \in carried' \ carried : KeepsTheCap(y)]_leaveVars
=============================================================================
