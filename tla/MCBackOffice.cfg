SPECIFICATION BackOfficeSpec
CONSTANTS
    Invoices = {v1}
    Payments = {i1, i2}
    InvoiceTxns = {x1, x2}
    Amounts = {1, 2}
    PaymentKeys = {k1}
    NoInvoice = NoInvoice
    NoKey = NoKey
    Dates = {d1}
    NamedPeriods = {n1}
    LedgerAccounts = {l1}
    Entries = {i1, i2}
    PayrollSources = {s1}
    OtherSources = {}
    LedgerTxns = {x1, x2}
    NoSource = NoSource
    NoEntry = NoEntry
    Entities = {f1, f2, f3}
    DefaultEntity = f1
    MaxIntercompany = 1
    Bills = {b1}
    BillTxns = {x1, x2}
    BillAmount = 2
    Expenses = {i1, i2}
    Batches = {i1, i2}
    ExpenseTxns = {x1, x2}
    MaxListed = 2
    NoBatch = NoBatch
    StatementLines = {1, 2}
    Statements = {s1}
    Received = {i1, i2}
    MatchRuns = {x1, x2}
    NoStatement = NoStatement
    Cards = {1, 2}
    CardExpenses = {i1, i2}
    CardRuns = {x1, x2}
    Unmatched = Unmatched
    Rates = {i1, i2, r3}
    TaxGroups = {g1}
    LastDay = 2
    NoRate = NoRate
    NoGroup = NoGroup
    Templates = {i1, i2}
    LastMonth = 4
    Movements = {i1, i2}
    MoveKeys = {k1}
    StockTxns = {x1, x2}
    UnitCosts = {1, 2}
    MaxDelta = 2
    Keyless = Keyless
    Orders = {i1, i2}
    Receipts = {i1, i2}
    BuyTxns = {x1, x2}
    QtyOrdered = 1
    NoOrder = NoOrder
    Assignments = {i1, i2}
    AssetTxns = {x1, x2}
    AcquisitionCost = 4
    Salvages = {0, 1}
    UsefulLives = {2}
    LastMonthDay = 3
    LeaveRequests = {i1, i2}
    LeaveTxns = {x1, x2}
    LastLeaveDay = 1
    DaysPerYear = 1
    CarryCap = 1
    ExpiryDays = 1
    LeaveStarts = {1}
    LeaveLengths = {1}
    AccrualDays = {0}
    AccrualUnits = 2
    NeedsApproval = {TRUE, FALSE}
    Runs = {i1, i2}
    Staff = {i1, i2}
    PayTxns = {x1, x2}
    Situations <- MCSituations
    WorkingDays = 2
    OvertimeRate = 1
    TaxPercent = 50
    MaxCalculations = 2
    Employees = {i1, i2}
    Linked = {i1, i2}
    HrTxns = {h1}
    GivenStatuses = {"active"}
    FailAfter = {3, 4, 7}
    NoManager = NoManager
    TimeEntries = {i1, i2}
    Minutes = {1, 2}
    SheetTxns = {x1, x2}
    OwnerManages = FALSE
    Projects = {i1, i2}
    Deals = {d1}
    ProjectTxns = {x1, x2}
    NoDeal = NoDeal
    TaskIds = {i1, i2}
    TaskTxns = {x1, x2}
    MaxCompletions = 1
SYMMETRY MCSymmetry
CHECK_DEADLOCK FALSE
INVARIANTS
    BackOfficeTypeOK
    InvoicesAreAccounted
    MoneyMovesOnce
    MatchesAgree
    FinanceSetUpHolds
    StockIsAccounted
    PayIsAccounted
    ProjectWorkIsAccounted
    OffboardingEndsAccess
PROPERTIES
    BackOfficeStepsHold
