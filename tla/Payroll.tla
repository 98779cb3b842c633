------------------------------- MODULE Payroll -------------------------------
(***************************************************************************)
(* Payroll runs of the HR service, their payslips and the journal entry    *)
(* that pays them.  Every handler reads the run without a lock and writes  *)
(* it later; triggers refuse to change a run that is approved or paid.     *)
(* The finance service posts one entry for a run, and answers with that    *)
(* entry from then on.                                                     *)
(***************************************************************************)
EXTENDS Integers, FiniteSets, FiniteSetsExt

CONSTANTS
    Runs,             \* people_payroll_run ids
    Staff,            \* employees
    PayTxns,          \* concurrent requests
    Situations,       \* of an employee in the period: salary, unpaid days, overtime hours
    WorkingDays,      \* weekdays of the period
    OvertimeRate,     \* overtime_rate_minor
    TaxPercent,       \* percent_bps of the payroll tax
    MaxCalculations   \* bound on the calculations

ASSUME PayrollAssumption ==
    /\ WorkingDays \in Nat \ {0} /\ OvertimeRate \in Nat /\ TaxPercent \in 0..100
    /\ MaxCalculations \in Nat /\ IsFiniteSet(Staff)
    /\ Situations \subseteq [salary : Nat, unpaid : Nat, hours : Nat]

VARIABLES
    run,           \* people_payroll_run: status, gross_minor, deductions_minor
    slips,         \* people_payslip: run, employee, amounts and the calculation that inserted it
    situation,     \* what compensation, leave and attendance say of an employee
    calculations,  \* number of calculations so far, the id of their payslips
    journaled,     \* finance: the gross amount of the entry of a run, 0 without one
    payWork,       \* what each request has read
    payOverlapped     \* history: runs calculated over payslips that were not seen

payrollVars == <<run, slips, situation, calculations, journaled, payWork, payOverlapped>>

NoRun == [status |-> "none", gross |-> 0, deductions |-> 0]
NoPayWork == [op |-> "idle"]
Locked == {"approved", "paid"}
SlipsOf(r) == {s \in slips : s.run = r}
GrossSum(S) == SumFunction([s \in S |-> s.gross])
DeductionSum(S) == SumFunction([s \in S |-> s.deductions])

PayrollTypeOK ==
    /\ run \in [Runs -> [status : {"none", "draft", "calculated", "in_review", "approved", "paid"},
                         gross : Nat, deductions : Nat]]
    /\ \A s \in slips : s.run \in Runs /\ s.emp \in Staff /\ s.gross \in Nat /\ s.deductions \in Nat
    /\ situation \in [Staff -> Situations]
    /\ calculations \in 0..MaxCalculations
    /\ journaled \in [Runs -> Nat]
    /\ DOMAIN payWork = PayTxns
    /\ payOverlapped \subseteq Runs

PayrollInit ==
    /\ run = [r \in Runs |-> NoRun]
    /\ slips = {}
    /\ situation \in [Staff -> Situations]
    /\ calculations = 0
    /\ journaled = [r \in Runs |-> 0]
    /\ payWork = [x \in PayTxns |-> NoPayWork]
    /\ payOverlapped = {}

\* replaced: the payslips that a calculation will delete.
FetchRun(x, op, r, replaced) ==
    /\ payWork[x] = NoPayWork
    /\ payWork' = [payWork EXCEPT ![x] = [op |-> op, run |-> r, replaced |-> replaced]]
    /\ UNCHANGED <<run, slips, situation, calculations, journaled, payOverlapped>>

FinishRun(x) == payWork' = [payWork EXCEPT ![x] = NoPayWork]

\* Mutant: the trigger protects only runs that are paid.
MayWriteApproved(r, status) == run[r].status # "paid"

\* The trigger on people_payroll_run: an approved run may only become paid.
MayWrite(r, status) ==
    /\ run[r].status # "paid"
    /\ run[r].status = "approved" => status = "paid"

SetStatus(x, status) ==
    /\ MayWrite(payWork[x].run, status)
    /\ run' = [run EXCEPT ![payWork[x].run].status = status]
    /\ FinishRun(x)

-----------------------------------------------------------------------------
(* Runs and their calculation *)

CreateRun(r) ==
    /\ run[r].status = "none"
    /\ run' = [run EXCEPT ![r].status = "draft"]
    /\ UNCHANGED <<slips, situation, calculations, journaled, payWork, payOverlapped>>

\* adjust_run: a new draft beside a run that is approved or paid.
AdjustRun(r, adjusted) ==
    /\ run[adjusted].status \in Locked
    /\ CreateRun(r)

\* create_compensation, an approved unpaid leave or attendance.
SituationChanges(e, s) ==
    /\ situation[e] # s
    /\ situation' = [situation EXCEPT ![e] = s]
    /\ UNCHANGED <<run, slips, calculations, journaled, payWork, payOverlapped>>

\* compute_line_amount of the default components.
GrossOf(s) == s.salary - (s.salary * s.unpaid) \div WorkingDays + OvertimeRate * s.hours
DeductionsOf(gross) == (gross * TaxPercent) \div 100

\* Employees without a salary, and payslips of nothing, are left out; a payslip
\* below zero violates a CHECK of its table.
NewSlips(r) ==
    {[run |-> r, emp |-> e, calc |-> calculations + 1, issued |-> FALSE,
      gross |-> GrossOf(situation[e]), deductions |-> DeductionsOf(GrossOf(situation[e]))] :
        e \in {f \in Staff : situation[f].salary > 0 /\ GrossOf(situation[f]) # 0}}

CalculateRunRead(x, r) ==
    /\ run[r].status \in {"draft", "calculated"}
    /\ FetchRun(x, "calculate", r, IF run[r].status = "calculated" THEN SlipsOf(r) ELSE {})

\* clear_run_payslips deletes the payslips that were there when a calculated
\* run was read; what another calculation has inserted since stays.
Remaining(x) == SlipsOf(payWork[x].run) \ payWork[x].replaced
Clashes(x) == \E s \in Remaining(x), n \in NewSlips(payWork[x].run) : s.emp = n.emp
Negative(x) == \E n \in NewSlips(payWork[x].run) : n.gross < 0

CalculateRunWrite(x) ==
    LET r == payWork[x].run
        new == NewSlips(r)
    IN  /\ payWork[x].op = "calculate"
        /\ calculations < MaxCalculations
        /\ run[r].status \notin Locked /\ ~Clashes(x) /\ ~Negative(x)
        /\ calculations' = calculations + 1
        /\ slips' = (slips \ SlipsOf(r)) \cup Remaining(x) \cup new
        /\ run' = [run EXCEPT ![r] = [status |-> "calculated",
                                      gross |-> GrossSum(new),
                                      deductions |-> DeductionSum(new)]]
        /\ payOverlapped' = IF Remaining(x) = {} THEN payOverlapped \ {r} ELSE payOverlapped \cup {r}
        /\ FinishRun(x)
        /\ UNCHANGED <<situation, journaled>>

-----------------------------------------------------------------------------
(* Review, approval and payment *)

SubmitRunRead(x, r) ==
    /\ run[r].status = "calculated"
    /\ FetchRun(x, "submit", r, {})

SubmitRunWrite(x) ==
    /\ payWork[x].op = "submit"
    /\ SetStatus(x, "in_review")
    /\ UNCHANGED <<slips, situation, calculations, journaled, payOverlapped>>

\* approve_run, and decide_run with either answer.
DecideRunRead(x, r) ==
    /\ run[r].status \in {"in_review", "calculated"}
    /\ FetchRun(x, "decide", r, {})

DecideRunWrite(x, approve) ==
    /\ payWork[x].op = "decide"
    /\ SetStatus(x, IF approve THEN "approved" ELSE "calculated")
    /\ UNCHANGED <<slips, situation, calculations, journaled, payOverlapped>>

PayRunRead(x, r) ==
    /\ run[r].status = "approved"
    /\ FetchRun(x, "pay", r, {})

\* post_payroll_journal: an entry without lines is refused, and the entry of a
\* source that was posted is returned.
PostPayrollJournal(x) ==
    LET r == payWork[x].run
    IN  /\ payWork[x].op = "pay"
        /\ run[r].gross > 0
        /\ journaled' = IF journaled[r] = 0 THEN [journaled EXCEPT ![r] = run[r].gross] ELSE journaled
        /\ payWork' = [payWork EXCEPT ![x].op = "posted"]
        /\ UNCHANGED <<run, slips, situation, calculations, payOverlapped>>

\* The payslips are issued with the payment.
PayRunWrite(x) ==
    /\ payWork[x].op = "posted"
    /\ SetStatus(x, "paid")
    /\ slips' = {IF s.run = payWork[x].run THEN [s EXCEPT !.issued = TRUE] ELSE s : s \in slips}
    /\ UNCHANGED <<situation, calculations, journaled, payOverlapped>>

\* A trigger, a UNIQUE or a CHECK refuses the write, the finance service refuses
\* the entry, or the service stops: the transaction is rolled back.
PayrollFails(x) ==
    /\ payWork[x] # NoPayWork
    /\ FinishRun(x)
    /\ UNCHANGED <<run, slips, situation, calculations, journaled, payOverlapped>>

PayrollNext ==
    \/ \E r \in Runs : CreateRun(r)
    \/ \E r, adjusted \in Runs : AdjustRun(r, adjusted)
    \/ \E e \in Staff, s \in Situations : SituationChanges(e, s)
    \/ \E x \in PayTxns, r \in Runs :
          CalculateRunRead(x, r) \/ SubmitRunRead(x, r) \/ DecideRunRead(x, r) \/ PayRunRead(x, r)
    \/ \E x \in PayTxns, approve \in BOOLEAN : DecideRunWrite(x, approve)
    \/ \E x \in PayTxns : \/ CalculateRunWrite(x) \/ SubmitRunWrite(x)
                          \/ PostPayrollJournal(x) \/ PayRunWrite(x) \/ PayrollFails(x)

-----------------------------------------------------------------------------
(* Properties *)

\* Whatever is recalculated, reviewed and approved at the same time, the totals
\* of a run are those of its payslips, one per employee, unless a calculation
\* left payslips behind that it had not seen.
PayslipsAddUp ==
    \A r \in Runs :
        /\ \A s, t \in SlipsOf(r) : s.emp = t.emp => s = t
        /\ r \notin payOverlapped =>
              /\ run[r].gross = GrossSum(SlipsOf(r))
              /\ run[r].deductions = DeductionSum(SlipsOf(r))

\* A run is paid with the amount that was approved: its entry exists before it
\* is paid, survives a pay request that fails, and is the entry of its totals;
\* exactly the payslips of paid runs are issued.
PaidAsApproved ==
    \A r \in Runs :
        /\ run[r].status = "paid" => journaled[r] > 0
        /\ journaled[r] > 0 => run[r].status \in Locked /\ journaled[r] = run[r].gross
        /\ \A s \in SlipsOf(r) : s.issued = (run[r].status = "paid")

=============================================================================
