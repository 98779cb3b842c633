---------------------------- MODULE MCBackOffice ----------------------------
(***************************************************************************)
(* The business services for TLC.  Finance, inventory, HR and projects     *)
(* have no rows in common, so one of them runs in a behaviour, and their   *)
(* states add up instead of multiplying.  The requests are interchangeable *)
(* and so are the two ids that the configuration gives to several sets.    *)
(***************************************************************************)
EXTENDS Receivables, GeneralLedger, Entities, VendorBills, Reimbursements,
        BankReconciliation, CardMatching, TaxRates, RecurringInvoices, StockLedger,
        Procurement, FixedAssets, Leave, Payroll, EmployeeLifecycle, Timesheets,
        Projects, Tasks, TLC

VARIABLE service   \* the component that runs

BackOfficeVars == <<service, receivablesVars, generalLedgerVars, entitiesVars,
                    vendorBillsVars, reimbursementsVars, bankReconciliationVars,
                    cardMatchingVars, taxRatesVars, recurringInvoicesVars,
                    stockLedgerVars, procurementVars, fixedAssetsVars, leaveVars,
                    payrollVars, employeeLifecycleVars, timesheetsVars,
                    projectsVars, tasksVars>>

\* Employees in a payroll period: one who earns nothing, one with a salary, an
\* unpaid day and an hour of overtime.
MCSituations ==
    {[salary |-> 0, unpaid |-> 0, hours |-> 0], [salary |-> 4, unpaid |-> 1, hours |-> 1]}

BackOfficeServices == {"receivables", "ledger", "entities", "bills",
                       "reimbursements", "bank", "cards", "taxes", "recurring",
                       "stock", "procurement", "assets", "leave", "payroll",
                       "employees", "timesheets", "projects", "tasks"}

\* A component that does not run starts in one of its initial states.
BackOfficeInit ==
    /\ service \in BackOfficeServices
    /\ ReceivablesInit /\ GeneralLedgerInit /\ EntitiesInit /\ VendorBillsInit
    /\ ReimbursementsInit /\ BankReconciliationInit /\ CardMatchingInit /\ TaxRatesInit
    /\ RecurringInvoicesInit /\ StockLedgerInit /\ ProcurementInit /\ FixedAssetsInit
    /\ LeaveInit /\ PayrollInit /\ EmployeeLifecycleInit /\ TimesheetsInit
    /\ ProjectsInit /\ TasksInit
    /\ service # "leave" => approvalNeeded
    /\ service # "payroll" => situation = [e \in Staff |-> CHOOSE s \in Situations : TRUE]

\* The components of the others stay as they are.
Only(vars) ==
    /\ UNCHANGED service
    /\ vars # "Receivables" => UNCHANGED receivablesVars
    /\ vars # "GeneralLedger" => UNCHANGED generalLedgerVars
    /\ vars # "Entities" => UNCHANGED entitiesVars
    /\ vars # "VendorBills" => UNCHANGED vendorBillsVars
    /\ vars # "Reimbursements" => UNCHANGED reimbursementsVars
    /\ vars # "BankReconciliation" => UNCHANGED bankReconciliationVars
    /\ vars # "CardMatching" => UNCHANGED cardMatchingVars
    /\ vars # "TaxRates" => UNCHANGED taxRatesVars
    /\ vars # "RecurringInvoices" => UNCHANGED recurringInvoicesVars
    /\ vars # "StockLedger" => UNCHANGED stockLedgerVars
    /\ vars # "Procurement" => UNCHANGED procurementVars
    /\ vars # "FixedAssets" => UNCHANGED fixedAssetsVars
    /\ vars # "Leave" => UNCHANGED leaveVars
    /\ vars # "Payroll" => UNCHANGED payrollVars
    /\ vars # "EmployeeLifecycle" => UNCHANGED employeeLifecycleVars
    /\ vars # "Timesheets" => UNCHANGED timesheetsVars
    /\ vars # "Projects" => UNCHANGED projectsVars
    /\ vars # "Tasks" => UNCHANGED tasksVars

BackOfficeNext ==
    \/ service = "receivables" /\ ReceivablesNext /\ Only("Receivables")
    \/ service = "ledger" /\ GeneralLedgerNext /\ Only("GeneralLedger")
    \/ service = "entities" /\ EntitiesNext /\ Only("Entities")
    \/ service = "bills" /\ VendorBillsNext /\ Only("VendorBills")
    \/ service = "reimbursements" /\ ReimbursementsNext /\ Only("Reimbursements")
    \/ service = "bank" /\ BankReconciliationNext /\ Only("BankReconciliation")
    \/ service = "cards" /\ CardMatchingNext /\ Only("CardMatching")
    \/ service = "taxes" /\ TaxRatesNext /\ Only("TaxRates")
    \/ service = "recurring" /\ RecurringInvoicesNext /\ Only("RecurringInvoices")
    \/ service = "stock" /\ StockLedgerNext /\ Only("StockLedger")
    \/ service = "procurement" /\ ProcurementNext /\ Only("Procurement")
    \/ service = "assets" /\ FixedAssetsNext /\ Only("FixedAssets")
    \/ service = "leave" /\ LeaveNext /\ Only("Leave")
    \/ service = "payroll" /\ PayrollNext /\ Only("Payroll")
    \/ service = "employees" /\ EmployeeLifecycleNext /\ Only("EmployeeLifecycle")
    \/ service = "timesheets" /\ TimesheetsNext /\ Only("Timesheets")
    \/ service = "projects" /\ ProjectsNext /\ Only("Projects")
    \/ service = "tasks" /\ TasksNext /\ Only("Tasks")

BackOfficeSpec == BackOfficeInit /\ [][BackOfficeNext]_BackOfficeVars

MCSymmetry == Permutations(LeaveTxns) \cup Permutations(Expenses)

-----------------------------------------------------------------------------

\* Every component of the back office keeps the types of its rows and requests.
BackOfficeTypeOK ==
    /\ service = "receivables" => ReceivablesTypeOK
    /\ service = "ledger" => GeneralLedgerTypeOK
    /\ service = "entities" => EntitiesTypeOK
    /\ service = "bills" => VendorBillsTypeOK
    /\ service = "reimbursements" => ReimbursementsTypeOK
    /\ service = "bank" => BankReconciliationTypeOK
    /\ service = "cards" => CardMatchingTypeOK
    /\ service = "taxes" => TaxRatesTypeOK
    /\ service = "recurring" => RecurringInvoicesTypeOK
    /\ service = "stock" => StockLedgerTypeOK
    /\ service = "procurement" => ProcurementTypeOK
    /\ service = "assets" => FixedAssetsTypeOK
    /\ service = "leave" => LeaveTypeOK
    /\ service = "payroll" => PayrollTypeOK
    /\ service = "employees" => EmployeeLifecycleTypeOK
    /\ service = "timesheets" => TimesheetsTypeOK
    /\ service = "projects" => ProjectsTypeOK
    /\ service = "tasks" => TasksTypeOK

\* Receivables of the finance service: under concurrent issues, payments,
\* allocations, credits and voids, which the upsert of the accounts puts one after
\* another, the journal and the balances follow from the documents, and an issued
\* total is the sum of its lines.
InvoicesAreAccounted ==
    /\ service = "receivables" => LedgerMatchesDocuments
    /\ service = "receivables" => IssuedTotalMatchesLines

\* What is asked for twice (a provider event, a payroll run, a bill, an expense
\* in a decision) moves money once, however often and by whomever.
MoneyMovesOnce ==
    /\ service = "receivables" => EventRecordsOnePayment
    /\ service = "ledger" => PayrollPostedOnce
    /\ service = "bills" => BillSettledOnce
    /\ service = "reimbursements" => ExpensePostedOnce

\* Bank lines with payments, card transactions with expenses, batches with
\* their expenses: what two runs of a matcher link stays one to one.
MatchesAgree ==
    /\ service = "bank" => PaymentReconciledOncePerStatement
    /\ service = "cards" => CardLinksAgree
    /\ service = "reimbursements" => BatchTotalsMatchExpenses

\* Entities, tax rates and recurring invoices over long sequences of edits: the
\* default entity resolves and eliminations net to zero, a superseded rate is
\* retired, and a template bills a period once.
FinanceSetUpHolds ==
    /\ service = "entities" => DefaultEntityResolves
    /\ service = "entities" => EliminationsNet
    /\ service = "taxes" => SupersededRateRetires
    /\ service = "recurring" => OneInvoicePerPeriod

\* Inventory: levels, values and cost of goods follow from the movements,
\* received quantities from the receipts, a request becomes one order, and an
\* asset has one holder, except through the races that the modules record.
StockIsAccounted ==
    /\ service = "stock" => LevelMatchesMovements
    /\ service = "stock" => StockIsValuedAtCost
    /\ service = "stock" => CogsHasMovement
    /\ service = "procurement" => ReceivedMatchesReceipts
    /\ service = "procurement" => RequestConvertedOnce
    /\ service = "assets" => AssetHasOneHolder

\* Leave balances and payslips follow from the requests and employees they were
\* computed from, an employee whom no employee handler put on leave has an
\* approved request, and a run is paid as it was approved.
PayIsAccounted ==
    /\ service = "leave" => LeaveLedgerMatchesRequests
    /\ service = "payroll" => PayslipsAddUp
    /\ service = "payroll" => PaidAsApproved

\* A won deal has one project, every completion of a task is announced, time
\* entries follow their sheet, and approved hours stay.
ProjectWorkIsAccounted ==
    /\ service = "projects" => OneProjectPerDeal
    /\ service = "tasks" => CompletionIsAnnounced
    /\ service = "timesheets" => EntriesFollowSheet
    /\ service = "timesheets" => ApprovedHoursStay

\* A user whose offboarding is complete can no longer use the organization, but
\* in the session of a login that had read the membership before.
OffboardingEndsAccess ==
    /\ service = "employees" => OffboardedHasNoAccess

\* What no step does: change an issued invoice, carry more leave forward than
\* the cap, compensate an offboarding into other access than there was, but for
\* what a suspension or a revocation had taken before.
BackOfficeStepsHold ==
    /\ IssuedIsImmutable
    /\ CarryForwardKeepsTheCap
    /\ CompensationRestores

=============================================================================
