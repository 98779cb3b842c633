# A TLA+ model of CompanyOS (noxara-os)

CompanyOS is a multi-tenant business suite: Rust services over one Postgres
schema, which tell each other what happened through a transactional outbox and
NATS JetStream. The project models the services' protocols statement by
statement where transactions interleave, checks them with TLC and proves most
of what is checked with TLAPS. Paths below are relative to the repository.

## The system and its parts

| Part | State | Operations | What is hard | What makes it correct |
|---|---|---|---|---|
| Outbox and relay, `crates/outbox` | `outbox_event`, `outbox_dlq`, the stream | insert in the domain transaction; claim, publish, mark, dead-letter, commit; replay | crash between publish and commit, lost acks, several relays, rows that become visible late, repeated replays | nothing committed is lost; every duplicate has a cause; replays never fork an event |
| Outbound webhooks, `services/platform/integration-service`, `core/src/governance/webhooks.rs` | `webhook_endpoint`, `webhook_delivery` | consume and fan out; claim with a lease, POST, mark; auto-pause; rotate, disable, replay | the claim commits before the POST; stale counters; leases that run out under a working dispatcher | POSTs bounded by claims; auto-pause holds; deliveries settle |
| Sessions, `core/src/auth` | `auth_session`, `refresh_token`, `membership` | login, refresh (rotation with reuse detection), switch organization, revocation | statements of concurrent READ COMMITTED transactions | one usable token per session; revoked sessions stay closed; removed members have no session |
| Accounts and signing keys, `core/src/auth` | users, one-time tokens, MFA factors; `jwks_signing_key` and each process's ring | register, verify, reset, magic link, OAuth, MFA; rotate keys, restart | look-up, mark and use are separate statements; the ring changes before the table | a token works once; administrators passed MFA; every signing key is stored |
| Memberships and the last owner, `core/src/workspace`; SCIM, `core/src/enterprise/scim.rs` | `membership`, `invitation` | invite, accept, change role, suspend, revoke; provision, deprovision | check and write are separate statements without a lock; writers elsewhere | an organization keeps an owner |
| Authorization, `crates/authz`, every service's `auth.rs`, the gateway | grants, delegations, `policy_version`, API keys | admit a token, exchange a key, decide | fourteen copies of one rule; a check before a change | services admit alike; what is allowed is allowed now |
| Approvals, `project-service/src/approvals` | approval, steps, decisions, delegations | create, decide, delegate, escalate, call back | two deciders, an escalation that meets a decision | one outcome per subject |
| Finance, `finance-service` | invoices, payments, journal, periods, bills, expenses, statements, rates, templates | issue, pay, credit, void; post; match; reimburse; recur | rows read and written by id in separate statements, kept apart only by the upsert of the standard accounts; events delivered again | ledger and documents agree; money moves once |
| Inventory, `inventory-service` | movements, levels, orders, receipts, assets | post, reconcile, receive, assign, depreciate | unlocked read of a cached total; journals in another service | cached totals equal the rows they sum |
| HR, `hr-service` | employees, leave ledger, payroll runs; memberships | on- and offboarding sagas, leave, payroll | compensation; a login that crosses an offboarding; tests at one time and debits at another | paid as approved; the balance follows from the requests; offboarding ends access |
| CRM, `crm-service` | quotes, orders, contracts, deals, leads, customers | send, approve, accept, order, close, convert | write by id after an unlocked read; callbacks that anybody with a permission may send | discounts were approved; one order, one customer, one conversion |
| Projects, `project-service` | projects, tasks, timesheets | from a deal, file, complete, submit, decide | events twice, entries moved by their own status | one project per deal; approved hours stay |
| Workflow engine, `workflow-service` | definitions, instances, steps, bounds | publish, start, advance, cancel, simulate | cap counted without a lock; failure inside the transaction; two readers of one path | the cap holds; simulation predicts where the readers agree |
| AI service, `ai-service` | kill switch, runs, actions, proposals, usage | run, act, undo, confirm, account | caches per pod; forwarded before recorded | a killed agent stops; a proposal is applied once |
| Custom objects and marketplace | definitions, records, packages; listings, installs, tokens | edit, publish, save, import; review, install, exchange | a definition read without a lock; scripts after the validation; tokens resolved before they are revoked | no lost update; tokens within the consent |
| Customer keys and audit, `core/src/enterprise`, `core/src/governance` | `org_cmk`, the KMS; `audit_entry` | provision, rotate, revoke; insert, verify, export | a KMS no transaction covers, in the memory of one process; the order of `created_at` | data stays readable until that process restarts; the chain is intact |
| Provisioning, tenancy, notifications, search, analytics, files, workflow host, clients | | | see `PROJECT.json` | |

Services call each other over HTTP in a few places (payroll and inventory post
journals to finance, subjects ask the approval service and are called back, AI
forwards proposals); otherwise they share the database, and events go domain
write, outbox row, relay, JetStream, consumers, of which the webhook service is
one. Membership rows are written by the workspace API, by SCIM and by HR, and
read by every login, refresh and request.

## Modules

| Module | Models |
|---|---|
| `EventDelivery` | What the outbox promises: an event is pending once its write is committed, then delivered for good, or parked until an operator replays it. |
| `OutboxRelay`, `OutboxRelayProofs` | `insert_event`, `publish_batch`, `move_to_dlq`, `replay_dlq_row`; refines `EventDelivery`; the theorems. |
| `Webhooks` | `enqueue_event`, `dispatch_once`, `process_one`, `mark_delivered`, `mark_failed`, and the governance API. |
| `Sessions` | `create_session_with_tokens`, `switch_org`, `rotate_refresh`, `revoke_family` and its callers, SCIM deprovisioning. |
| `Ownership` | `ensure_not_last_owner` and every writer of `membership.role` and `membership.status` of one organization; its theorems. |
| `Receivables` | Invoices, payments, Stripe events, allocations, credit notes and their journal. |
| `GeneralLedger`, `Entities` | Periods, accounts, `post_journal` by source; legal entities, intercompany entries and eliminations. |
| `VendorBills`, `Reimbursements` | Paying a bill; expenses, expense policy and reimbursement batches. |
| `GreedyMatching`, `BankReconciliation`, `CardMatching` | The greedy pass both matchers share, from its free entries to a set of matches; statements against payments, cards against expenses. |
| `TaxRates`, `RecurringInvoices` | Successive rates and groups; templates, cadences and `run_due`. |
| `StockLedger`, `Procurement`, `FixedAssets` | Movements and the cached level at weighted average cost; request, order, receipt; assignment and straight-line depreciation. |
| `Leave`, `Payroll`, `EmployeeLifecycle` | The leave ledger; runs and payslips; the on- and offboarding sagas. |
| `Projects`, `Tasks`, `Timesheets` | Projects from deals, filed records; tasks and completion; sheets and entries. |
| `Approvals` | Policies, approvals, deciders, escalation. |
| `SalesQuotes`, `SalesDeals`, `SalesLeads` | Quotes and orders; deals, contracts, order status; leads and customers. |
| `WorkflowEngine` | Definitions, `advance_instance` by node kind, the driver, `simulate`. |
| `Accounts`, `SigningKeys`, `RequestAuthorization` | One-time tokens, MFA and lockout; key rotation; admission and decision in every service. |
| `Assistant` | Agent runs, kill switch, proposals, usage. |
| `CustomObjects`, `Marketplace` | Definitions, records, packages; listings, installs, OAuth. |
| `CustomerKeys`, `AuditTrail` | The data key's wrapping; the hash chain and its verification. |
| `MCBackOffice`, `MCPlatform` | The two suites of business and of platform services, with their instances for TLC. |
| `SessionsProofs`, `WebhooksProofs`, `ServicesProofs`, `PlatformProofs`, `FinanceInventoryProofs`, `BackOfficeProofs` | The theorems, below. |

Mutated operators, marked `Mutant:`, are defined next to what they mutate and
are not part of any specification.

**How a request is modelled.** Most handlers read a row without a lock, decide,
and later write by id. Such a handler is a read step, which copies what it
decides on, and a write step, which holds everything the handler does from its
first write to its commit, calls to other services included; between the two any other step
may happen. A handler that takes a row lock or a conditional UPDATE is one step,
or a write step with the condition as its guard. Failing requests are actions
of their own where a failure leaves something behind. What the request carries
is chosen where it is used.

**Races that the code allows.** Many handlers have no lock and no document
promises more, so a property that ignored this would just be false. The modules
record such a race in a history variable at the step where the stale write
happens (`overlapped`, `lateLeave`, `overtaken`, `unmarked`, ...), and the
property says that it holds unless that race happened. So each property is
also a statement of which races, and no others, can break it. Where a document
does promise more, there is a run that shows the violation (below).

**OutboxRelay.** A domain transaction draws `created_at` when it begins and its
row becomes visible at its commit, so rows appear out of order. A relay's record is its
open transaction: claimed rows are locked, marks and dead letters wait for the
commit, copies in the stream do not. A publish succeeds, fails, or fails although
the stream stored it; a relay can roll back or die at any point. Replays
draw a fresh row id. `excused` is a history variable that counts the copies
which a lost ack or a rollback explains.

**Webhooks.** A claim copies attempt and failure count into the dispatcher's
batch and commits; from then on the dispatcher works on the copy, as in the
code. `due` stands for `next_retry_at <= now()` or the end of the lease, and
`TimePasses` sets it at any time, also while a dispatcher still works on the row.

**Sessions.** Each transaction is a program counter with its row locks. SELECT
... FOR UPDATE waits for the lock; an UPDATE of several rows takes its snapshot
and then locks row by row; writes become visible at the commit. `Abort` covers
errors, crashes and the deadlocks that Postgres breaks. `late` records the
sessions that came to a membership after its removal had begun.

**Ownership.** The role's key of an accepted invitation is looked up without an
organization, and is `member` where that fails. The check reads the target's role and then counts owners, in
two statements without locks; the UPDATE and commit follow. `raced` and `bypassed` record
how an owner was removed.

**Finance.** Issue, edit, void, payment, allocation and credit note, the payment of
a bill and the decision about an expense all read without a lock and write by
id. All of them first call `ensure_ledger_accounts`
(`finance-service/src/journal.rs:307-438`), whose `ON CONFLICT DO UPDATE` writes
the organization's standard accounts and so holds their rows until the commit.
In the modules a read step waits until no other request is under way
(`LedgerUnlocked` of `Receivables`, and its like in `VendorBills` and
`Reimbursements`); the mutants `...Unlocked` take the wait away. The lock is
modelled within a module, between the requests that share its rows; the modules
share none.

**Leave and offboarding.** `people_employee.status` is written by the employee
handlers too (`employees.rs:521-598`, `839-930`), on_leave included, without a leave
request: `WriteEmployeeStatus` of `Leave` notes that in `byHand`. In
`EmployeeLifecycle` the one linked user is a member at first, whom core may
suspend, revoke or make a member again. A login reads the membership in one
transaction and creates its session in another, so an offboarding in between
leaves a live session (`crossed`). A compensation makes every revoked membership
active and un-revokes the sessions of any offboarding, whoever took them.
The step that refuses to revoke the last owner is a failing request
(`HrRequestFails`).

**Credentials.** `mfa_verify` uses up the recovery code and the challenge in
statements whose errors it drops (`flows.rs:912-916`, `931-935`), and opens the
session in either case. `MfaVerify` takes the set of statements that fail;
`unmarked` records the challenges that stay usable.

**Sales.** `approval_complete` and `approval_reject` are routes like any other:
`ApprovalCallback` comes with any outcome at any time, and a callback that no
decision is behind puts its quote into `slipped`, as a write after an old
read does.

**Workflows.** The engine looks for the whole path under a single key and then
splits it at every dot; the simulator drops empty parts, and a branch splits
only. A payload is what these three readers find of a path, a run is
predicted where they find the same (`PathsReadAlike`). The clamp of `max_steps` is
modelled (`Clamped`). Two refusals are not, because no request reaches them:
`start_approval` is denied (`engine.rs:509-537`) only if the principal may not do
what the graph's creator must be allowed (`enforce_creator_can_own_graph`),
which the two handlers that drive an instance test of the same principal before
they start it (`instances.rs:184-187` and `288`, `632-635` and `701`); the simulator's
denial is preceded by the same test in its handler (`handlers/simulate.rs:47`). A
signal does not drive.

**Custom objects.** `ImportPackage` applies any package of a given set: entities,
views, layouts, and scripts, which are stored enabled and unparsed. A script runs
after the validation of every save and may set any field or fail the save.
`scripted` holds what it set.

**Customer keys.** The only KMS in the program is `MockKms`, a map in the memory
of one core process. `kmsHolder` says which process has a key, `CoreRestarts`
empties the map of one, and `lostKeys` records what was in it.

**The suites.** `MCBackOffice` and `MCPlatform` run the other modules. The services
have no rows in common, so a behaviour belongs to one of them, chosen
initially, and the states of the services add up instead of multiplying.
`SalesDeals`, `Assistant`, `CustomObjects` and `Marketplace` are run by halves
that share no rows either, or of which one only adds rows that the other reads.
Requests are symmetric, and so are the ids `i1`, `i2` that several sets share.

## Runs

| Run | Result | Shows |
|---|---|---|
| `outbox` | pass | `NoLostEvent`, `DuplicatesExplained`, `NoForkedEvent`, refinement of `EventDelivery`, and liveness `DeliveredOrParked` |
| `webhooks` | pass | `PostsExplained`, `ActiveBelowThreshold`, `DisabledStaysDisabled`, liveness `Settles` |
| `webhooks_batch` | pass | the two safety properties with batches of two and stale counts |
| `webhook_lease` | violation | a delivery abandoned on its last attempt is never recovered |
| `webhook_replay` | violation | a replayed dead delivery is never sent |
| `sessions` | pass | `OneUsableToken`, `ReuseEndsSession`, `InactiveMemberHasNoSession`, `RevokedSessionIsClosed` |
| `ownership` | pass | an ownerless organization is always explained by a race or an unchecked write |
| `last_owner_invitation` | violation | accepting an invitation removes the last owner |
| `back_office` | pass | the business services, below |
| `platform` | pass | the platform services, below |
| `workflow_failure` | violation | an instance whose step fails stays running |
| `audit_chain` | violation | transactions that overlap fork the hash chain |

The violations are described in `PROJECT.json` with the line of documentation
they contradict.

The two suites state one property for each concern, a conjunction of the
properties that the modules define and comment:

| Property | Is made of |
|---|---|
| `InvoicesAreAccounted` | `LedgerMatchesDocuments`, `IssuedTotalMatchesLines` |
| `MoneyMovesOnce` | `EventRecordsOnePayment`, `PayrollPostedOnce`, `BillSettledOnce`, `ExpensePostedOnce` |
| `MatchesAgree` | `PaymentReconciledOncePerStatement`, `CardLinksAgree`, `BatchTotalsMatchExpenses` |
| `FinanceSetUpHolds` | `DefaultEntityResolves`, `EliminationsNet`, `SupersededRateRetires`, `OneInvoicePerPeriod` |
| `StockIsAccounted` | `LevelMatchesMovements`, `StockIsValuedAtCost`, `CogsHasMovement`, `ReceivedMatchesReceipts`, `RequestConvertedOnce`, `AssetHasOneHolder` |
| `PayIsAccounted` | `LeaveLedgerMatchesRequests`, `PayslipsAddUp`, `PaidAsApproved` |
| `ProjectWorkIsAccounted` | `OneProjectPerDeal`, `CompletionIsAnnounced`, `EntriesFollowSheet`, `ApprovedHoursStay` |
| `OffboardingEndsAccess` | `OffboardedHasNoAccess` |
| `BackOfficeStepsHold` (steps) | `IssuedIsImmutable`, `CarryForwardKeepsTheCap`, `CompensationRestores` |
| `ApprovalsDecideOnce` | `SubjectDecidedOnce`, `PendingStepIsOpen` |
| `SalesDocumentsAgree` | `LeadConvertedOnce`, `OneCustomerPerEmail`, `DiscountIsApproved`, `OrderMatchesQuote`, `DealHistoryIsAChain` |
| `WorkflowRunsHold` | `SimulationPredicts`, `StepsAreRecorded`, `ConcurrencyCapHolds` |
| `CredentialsHold` | `TokensWorkOnce`, `AdminSessionsPassedMfa`, `FailuresLock`, `SigningKeysAreStored` |
| `ServicesAdmitAlike` | `AdmissionsAgree` |
| `AssistantStaysBounded` | `KillSwitchHalts`, `EffectsFollowActions`, `ProposalAppliedOnce`, `UsageIsOfTheMonth` |
| `ExtensionsHold` | `NoLostRecordUpdate`, `RecordsFitDefinition`, `PublishedPassedReview`, `TokensWithinConsent`, `CodesWorkOnce` |
| `EvidenceHolds` | `DataKeyOutlivesRotation`, `AuditBreaksExplained` |
| `PlatformStepsHold` (steps) | `AllowedIsCurrent`, `RestartKeepsVerifying`, `SettledDocumentsStay`, `OwnWorkIsKept` |

### Bounds

- `outbox`: two events (the least that commit out of order), two relays,
  batches of two, three attempts as in a small configuration, six publish
  errors (two events can both be dead-lettered), one rollback, two replays (the
  second replays the row of the first).
- `webhooks`: one endpoint and event, two dispatchers, three attempts, pause
  after two failures, two faults and one administrative call, so that a lost
  ack, a crash and an expired lease meet. `webhooks_batch` has two events and
  batches of two, no faults.
- `sessions`: two sessions, three tokens (two rotations of one session, or one of
  each), two concurrent transactions, two organizations. The conflicts in the
  code are between two transactions.
- `ownership`: three users, of whom SCIM manages one and HR another, one
  invitation, two concurrent requests.
- `back_office`: two concurrent requests per service on one or two rows of each
  table, the least that overwrite each other. Amounts 1 and 2 give partial and
  full payments; four months give templates that fall behind; three month ends
  give depreciation that is changed between runs; two calculations give a
  payroll that is recalculated while it is reviewed; batches list two expenses,
  the same one twice included. Orders have one line: the sums that two receipts of
  two lines of one order would each compute without the other are outside
  `Procurement`. Unit costs are not negative in `StockLedger`, which the handlers do
  not check. The HR sagas fail after step 3, 4 or 7 (before, at and after the
  revocation of access), with one HR request beside core's steps and a login.
- `platform`: two requests per service. Two approvers, a one-step and a two-step
  policy and two versions; three graphs that reach every node kind and a missing
  node; three payloads, of which one is found by every reader of a path, one
  under the whole path only and one by the simulator only; a driver that runs
  two steps and step caps of one and three, below and above what the driver
  runs; two tokens of
  any purpose; one access token and two policy versions for all fourteen
  services; two core replicas and any of the thirteen readers of keys; two pods
  and two months of usage; records up to version 3 and every package of
  their entity, with no decoration, with scripts alone and with all; two grants
  and installs around one code; three KMS keys and two core processes; five
  instants over two partitions.

Bounds on faults and counters (`MaxErrors`, `MaxAborts`, `MaxFaults`,
`MaxAdmin`, `MaxMoves`, `MaxRecordVersion`, ...) are guards of the actions and are
named constants. `CHECK_DEADLOCK FALSE` is used where the system may rest: the
outbox and the webhooks when there is nothing to deliver, the suites when every
id is used up.

### Fairness

`OutboxRelay!FairSpec` assumes weak fairness of each relay's steps:
`run_relay_loop` polls for ever and waits for an ack with a timeout. Rollbacks
and writes are not fair. `Webhooks!FairSpec` assumes weak fairness of each
dispatcher's steps (`run_poll_loop` ticks for ever, the HTTP client has a
timeout) and of the passing of time; crashes, faults and administrators are not
fair.

## Proofs

Eight modules with theorems, checked by TLAPS for every value of the constants
that the assumptions allow. Each theorem about a safety property goes the same
way: an inductive invariant, which strengthens the property by what its
argument needs; a lemma that the invariant holds initially; one that every
action keeps it, with a step for each action and below it one for each conjunct
that the action disturbs; and the property as a consequence.

| Module | Theorems | Property of a run |
|---|---|---|
| `OutboxRelayProofs` | `TypeCorrect`, `NoLost`, `Duplicates`, `NoFork`, `Refinement`; `Invariant` | `TypeOK`, `NoLostEvent`, `DuplicatesExplained`, `NoForkedEvent`, `ImplementsEventDelivery` |
| `SessionsProofs` | `TypeCorrect`, `RefreshChain`, `ReuseRevokes`, `LeaversLoseSessions`, `RevokedStaysClosed`; `Invariance` | `TypeOK`, `OneUsableToken`, `ReuseEndsSession`, `InactiveMemberHasNoSession`, `RevokedSessionIsClosed` |
| `WebhooksProofs` | `TypeCorrect`, `NoUnexplainedPost`, `AutoPauseHolds`, `DisabledIsFinal`; `Invariance` | `TypeOK`, `PostsExplained`, `ActiveBelowThreshold`, `DisabledStaysDisabled` |
| `Ownership` | `TypeCorrect`, `LastOwnerLossExplained`; `Invariance` | `TypeOK`, `OwnerlessExplained` |
| `ServicesProofs`, `PlatformProofs` | `ApprovalDecidedOnce`, `CredentialsSound`, `EvidenceSound`, `AdmissionsAlike`, `SalesAgree`, `ExtensionsSound`, `AssistantBounded`, `WorkflowRuns`, `StepsHold`, `PlatformTyped`; `WorkflowRecords`; `PlatformInvariance` | `ApprovalsDecideOnce`, `CredentialsHold`, `EvidenceHolds`, `ServicesAdmitAlike`, `SalesDocumentsAgree`, `ExtensionsHold`, `AssistantStaysBounded`, `WorkflowRunsHold`, `PlatformStepsHold`, `PlatformTypeOK` |
| `FinanceInventoryProofs`, `BackOfficeProofs` | `InvoicesAccounted`, `MoneyMoves`, `MatchersAgree`, `FinanceSetUp`, `StockAccounted`, `PayAccounted`, `ProjectWork`, `OffboardingEnds`, `StepsHold`, `BackOfficeTyped`; `BackOfficeInvariance` | `InvoicesAreAccounted`, `MoneyMovesOnce`, `MatchesAgree`, `FinanceSetUpHolds`, `StockIsAccounted`, `PayIsAccounted`, `ProjectWorkIsAccounted`, `OffboardingEndsAccess`, `BackOfficeStepsHold`, `BackOfficeTypeOK` |

`ServicesProofs` has the lemmas of the services beside the core (sales, custom
objects, marketplace, AI, workflow engine), `PlatformProofs` those of the rest
and the theorems. `FinanceInventoryProofs` has the lemmas about sums and those
of finance and inventory, `BackOfficeProofs` those of HR and projects and the
theorems.

### Assumptions

The modules name theirs (`OutboxAssumption`, `WebhooksAssumption`, ...). They
say that limits are natural numbers (and that a task may be completed at least
once), that the sets the code counts or sums over are finite (dispatchers, running workflow instances, requests on accounts, app
installs, entities, expenses, receipts, employees, assignments of an asset,
requests on a deal's project, and the unit costs, which are 64-bit amounts), and that a placeholder is not a value: no lead is called
`"none"`, no reader of the keys `"gateway"`, `NoNode` is no node of a graph,
`NoProcess` is no process, and `NoKey`, a NULL `stripe_payment_id`, is no payment's source. Nothing else is assumed
of the number of users, rows, requests or processes. The bounds on faults
and counters are constants too, so the theorems hold for each of them.

### What the invariants add

**Outbox.** None of the safety properties is inductive. `IInv` adds that rows
carry committed events, and an event's first row has its own id
(`RowsCommitted`); relays hold unpublished rows only, no two hold the same row,
and a relay marks or dead-letters only what it holds (`LocksSound`); a row has
at most one dead letter, and only once it is published (`DeadLettersSound`); at
most one row of an event waits for a relay or an operator (`OneWaiting`); what
is marked is stored, and only committed events are (`MarkedStored`,
`StreamCommitted`); and while a row waits and no acknowledged publish of it is
in an open transaction, every stored copy is excused (`CopiesExplained`), which
is what lets the next publish add one. The refinement uses the same invariant:
a publish maps to `Deliver`, a commit with dead letters to `Park` of those
events that no copy was stored of, and a replay to `Replay`.

**Sessions.** A row has one holder (`LocksExclusive`), so what a rotation read
under its locks still holds when it commits (`RotationsSound`): this gives
`OneUsableToken`. What a revocation writes was live when it took the lock
(`RevocationsSound`). That it misses nothing is the other half: a request that
found a reused token has the session still before it, in hand, or revoked
(`FamilyUnderWay`), and one that ends a membership reaches every live session
of it that did not come late (`LeaversUnderWay`).

**Webhooks.** `PostsExplained` alone says nothing of a dispatcher that is about
to POST. `PostsCovered` counts, for each delivery, the POSTs sent, the
dispatchers whose batch still holds it and an expired lease that may be taken
up: together they are covered by attempts and expiries. A claim gives up the
expired lease and adds a dispatcher; a POST removes the dispatcher and adds a
POST. `ActiveBelowThreshold` needs the counts in the batches
(`ClaimsBelowThreshold`), since `mark_failed` adds to the count that was
claimed.

**Ownership.** A check that was passed had counted two owners (`CountedTwo`),
and a request that accepts is about an invitation (`AcceptsInvitation`): a
checked removal takes one of the two, and the other is still there unless what
the check had read has changed, which is the race that is recorded.

**Platform.** `PlatformIInv` is the conjunction of thirteen invariants, one for
each component; in a step of `PlatformSpec` one component moves and the others'
variables stay. Most of them relate a request under way to the row that it
read: the step of an approval that a decision has read (`ApprovalSound`,
`DecidingSound`); which process holds a key before the table does
(`CoreRingsSound`, `StoringSound`); the policy version that a member's tokens
carry (`TokensBehind`, `KeyTokensCurrent`); that a rotation under way wraps the
current data key with a KMS key of its own process which nobody else has
(`KeyTxnsSound`, `KeyTxnsApart`), and that the data key's key was made by a KMS
(`KeysKnown`); that a record holds what fitted its definition and what a script
set (`FieldsFit`, `ScriptsSound`); the instant of an audit transaction, its row and the lock on
the newest row (`AuditTxnsSound`, `AuditRowsSound`).

**Simulation.** `simulate` walks the graph alone and reads paths in its own way, the engine commits a step at a
time between crashes, failures and changes of the bounds. What relates them is
that an instance stands, after so many counted steps, where the walk of its
graph and payload, read as the engine reads, stands after as many (`OnItsWalk`);
where the readers agree that walk is the simulator's. The provers have no
induction over the walk's length, so the walk is characterised by its start and
its steps (`SimulateWalks`): a shorter walk is the beginning of a longer one, and
one that has left the graph stays outside, each by a least counterexample.
When an organization's bound exceeds the driver's own run limit, `simulate` walks
further than any run is driven: an instance is compared with its walk up to
`RunCap`, the steps that the driver runs at most.

**Types.** Most of a type invariant follows from the inductive invariants; what does
not is what only counts. A token is used at most once by each request that has
read it (`TokenReaders`), each install that a code made is one of the installs
made (`CodesCounted`), and these sets are finite; a run that was cleared to act
is at an action of its own. In the back office the order of an assignment is at
most the number of assignments made (`AssetsTyped`), and the records filed under
a key, with the requests that are about to file one, are at most the requests
(`ProjectsTyped`). Whole rows are written from what was read, so the types of
what the requests hold are invariants too.

**Back office.** For an invoice, `RowSound` relates the row to its journal and
to whether it was voided: nothing is owed before it is issued, afterwards the
balance, and an issued total is that of its lines. One request at a time holds
the accounts (`RequestsSound`), so what it has read of its invoice is still so
when it writes (`HoldsInvoice`, `HoldsPayment`). A bill's payment, the only one,
fits into what the bill still is (`PaymentsFit`); a patch of a time entry read a draft (`PatchesDrafts`); a
filed record without a stored key is not there yet (`KeysStored`); the stamp
that a request has read of its task says whether it was done (`TasksSound`).

Stock, payroll and purchasing need the write to be tied to what it was computed
from: a posting carries the level it read and the one it computed from it
(`PostingSound`), a request that pays a run carries whether its journal was
posted (`RunsSound`), a conversion the request it read (`ProcurementSound`,
`OrdersApart`), an assignment the asset (`AssetReadsSound`). The matchers rest on
what the greedy pass returns, whatever order the database gives the candidates
(`GreedyMatch`): every item gets a candidate that fits it, and no candidate goes
to two.

**Sums.** Levels, average costs, payslip totals, batches, receipts, eliminations
and the leave ledger are sums over sets of rows. The community modules define
them with a fold, whose recursive function exists for every finite set
(`SumsExist`); that any element may be taken out of a sum (`SumRemove`), and what
follows from it, is proved by a smallest counterexample, for which the strict
subsets of a finite set are well founded (`SmallestCounterexample`). An action
then adds, removes or replaces one row, and the sum changes by that row
(`OneMovementMore`, `PostedOneMore`, `EntryAdds`). What is proved of the ledger is
the set of entries that each request has in it (`Settled`), from which its net
follows: nothing, the debit, or the debit and the credit that undoes it.

**Carry-forward.** `CarryForwardKeepsTheCap` needs from the invariant that the
year's entries are fresh (`LedgerSound`): the run posts both, so that the day
after the year's end counts the old balance, its negation and the credit. The
proof showed that an expiry of no days, which `create_leave_type` accepts, leaves
nothing of any balance: the credit has expired on the day it takes effect. The
property says so.

### What stays with TLC

Liveness (`DeliveredOrParked`, `Settles`): the prover has no fairness. Every
invariant and every action property of a passing run has a theorem.

## Documented promises without a run

The models also show that the following do not hold; they are recorded here
because a run of its own would add nothing to the reading of the code.

- `docs/adrs/022-finance-accounting-phase24.md:20`: a closed period rejects
  postings, but `post_journal` tests the period in an earlier statement than
  it inserts, without a lock.
- `assets.rs:759-761` says that the journal and the asset are one transaction:
  the journal is an HTTP call before the commit (`assets.rs:858`), and stays
  when the commit fails.
- `relay.rs:166` says that `move_to_dlq` keeps the outbox row unpublished; it
  marks it published.
- `last_owner.rs:26-27`: two checked removals of the two last owners both go
  through (`OwnerlessExplained` names this race).

Also met while modelling: an approved payroll run with nothing to pay can never
be paid; nothing checks cycles of tasks; nothing resumes a waiting workflow
instance; the driver's own run limit ignores a larger bound of the organization;
an AI budget that is used up stays so in the next month, because only a use
advances the stored month and the check comes first; after the active customer
key is revoked neither provision nor rotate works.

## Not modelled

Payload contents, signatures, subject strings, metrics; expiry
of sessions and invitations by time alone (an expired one is refused without a
write); reports and read-only views; the period checklist of finance; the names
in the permission catalogue; organization provisioning, which runs once and is never
retried; tenancy, which Postgres enforces; notifications, search, analytics
and files, which are idempotent consumers and I/O; the workflow host, whose
durability belongs to an external engine; shared value types, clients and SDKs.
Each component's note in `PROJECT.json` says what of it is left out.

## Plan

Composition of `OutboxRelay` and `Webhooks` through the stream, to bound the
POSTs of one domain write.
