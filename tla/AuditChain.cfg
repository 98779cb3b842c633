SPECIFICATION AuditSpec
CONSTANTS
    Approvers = {a1, a2}
    Definitions <- MCDefinitions
    ApprovalTxns = {x1, x2}
    MaxVersion = 2
    MaxDecisions = 2
    NoRole = NoRole
    Quotes = {q1}
    SalesOrders = {i1, i2}
    QuoteTxns = {x1, x2}
    Discounts = {0, 1}
    Threshold = 1
    NoQuote = NoQuote
    Stages = {"new", "proposal"}
    Terms = {"a", "b"}
    DealTxns = {x1, x2}
    MaxMoves = 2
    Leads = {l1}
    Customers = {i1, i2}
    Emails = {e1}
    NoEmail = NoEmail
    LeadTxns = {x1, x2}
    LeadPatches = {"new", "converted"}
    NoCustomer = NoCustomer
    Graphs <- MCGraphs
    Payloads <- MCPayloads
    Instances = {i1, i2}
    StartTxns = {x1, x2}
    ConcurrentCaps = {1}
    StepCaps = {1, 2}
    RunLimit = 2
    SimulateLimit = 3
    MaxVersions = 1
    NoNode = NoNode
    OneTimeTokens = {i1, i2}
    AuthTxns = {x1, x2}
    MaxFailures = 2
    ApiKeys = {i1, i2}
    MaxPolicy = 2
    MaxTokens = 1
    Replicas = {i1, i2}
    KeyReaders = {"crm", "finance", "hr", "project", "inventory", "workflow", "custom", "analytics",
                  "notification", "file", "search", "ai", "integration"}
    NewKids = {n1}
    BootstrapKid = BootstrapKid
    AgentRuns = {r1}
    Pods = {i1, i2}
    Proposals = {p1}
    AiTxns = {x1, x2}
    PolicyDocs = {{}, {"send_invoice_reminder", "escalate_exception"}}
    TokenBudget = 2
    LastAiMonth = 2
    MaxForwards = 2
    Slugs = {s1}
    FieldNames = {f}
    Records = {r1}
    CustomTxns = {x1, x2}
    PackSlug = s1
    PackFields = {f}
    Packages <- MCPackages
    MaxRecordVersion = 3
    Installs = {i1, i2}
    Grants = {i1, i2}
    AuthCodes = {c1}
    MarketTxns = {x1, x2}
    Scopes = {s, t}
    SecurityItems = {c}
    RequiredItems = {c, d}
    ReviewItems = {c, d}
    NoInstall = NoInstall
    KmsKeys = {i1, i2, k3}
    KeyTxns = {x1, x2}
    NoKmsKey = NoKmsKey
    CoreProcesses = {o1, o2}
    NoProcess = NoProcess
    AuditTxns = {x1, x2}
    Exports = {y1}
    LastInstant = 4
    MonthLength = 3
    NoHash = NoHash
SYMMETRY MCSymmetry
CHECK_DEADLOCK FALSE
INVARIANT
    ChainStaysLinear
