----------------------------- MODULE MCPlatform -----------------------------
(***************************************************************************)
(* Approvals, sales, workflows and the platform services for TLC.  They    *)
(* have no rows in common, so one of them runs in a behaviour, and their   *)
(* states add up instead of multiplying; four modules run by halves.  The  *)
(* requests are interchangeable, and so are the two ids that the           *)
(* configuration gives to several sets.                                    *)
(***************************************************************************)
EXTENDS Approvals, SalesQuotes, SalesDeals, SalesLeads, WorkflowEngine, Accounts,
        RequestAuthorization, SigningKeys, Assistant, CustomObjects, Marketplace,
        CustomerKeys, AuditTrail, TLC

VARIABLE service   \* the component that runs

PlatformVars == <<service, approvalsVars, salesQuotesVars, salesDealsVars,
                  salesLeadsVars, workflowEngineVars, accountsVars,
                  requestAuthorizationVars, signingKeysVars, assistantVars,
                  customObjectsVars, marketplaceVars, customerKeysVars,
                  auditTrailVars>>

\* One step, and two steps of which the second escalates to everyone.
ApprovalStep(users, to) == [assignees |-> users, escalate |-> to]
FirstApprover == CHOOSE u \in Approvers : TRUE
MCDefinitions ==
    {<<ApprovalStep({FirstApprover}, NoRole)>>,
     <<ApprovalStep({FirstApprover}, NoRole), ApprovalStep({}, Approvers)>>}

\* A graph that an event triggers, one that waits in an approval or a timer,
\* and one whose condition leads to a node that does not exist or to an end
\* that is farther than the driver goes.
GraphNode(kind, next, alt) == [kind |-> kind, path |-> "p", next |-> next, alt |-> alt]
MCGraphs ==
    {[entry |-> "a", sla |-> FALSE, event |-> TRUE,
      nodes |-> [a |-> GraphNode("action", "e", NoNode), e |-> GraphNode("end", NoNode, NoNode)]],
     [entry |-> "b", sla |-> TRUE, event |-> FALSE,
      nodes |-> [b |-> GraphNode("branch", "h", "t"), h |-> GraphNode("approval", "b", NoNode),
                 t |-> GraphNode("timer", "b", NoNode)]],
     [entry |-> "c", sla |-> FALSE, event |-> FALSE,
      nodes |-> [c |-> GraphNode("condition", "d", "x"), d |-> GraphNode("branch", "e", "c"),
                 e |-> GraphNode("end", NoNode, NoNode)]]}

\* A value that every reader finds, one that is there only under the path as a
\* single key, and one that only a reader that drops empty parts finds.
Found(literal, split, dropped) ==
    [p |-> [literal |-> literal, split |-> split, dropped |-> dropped]]
MCPayloads ==
    {Found("none", "equal", "equal"), Found("equal", "none", "none"), Found("none", "none", "equal")}

\* Every package of entities, with no views, layouts and scripts, with scripts
\* alone and with all.
MCPackages ==
    [entities : UNION {[slugs -> SUBSET FieldNames] : slugs \in SUBSET Slugs},
     decor : {{}, Slugs \X {"script"}, Slugs \X DecorKinds}]

PlatformServices == {"approvals", "quotes", "deals", "contracts", "leads",
                     "workflow", "accounts", "authorization", "keys", "agents",
                     "copilot", "records", "packages", "publisher", "installs",
                     "cmk", "audit"}

\* A component that does not run starts in one of its initial states.
PlatformInit ==
    /\ service \in PlatformServices
    /\ ApprovalsInit /\ SalesQuotesInit /\ SalesDealsInit /\ SalesLeadsInit
    /\ WorkflowEngineInit /\ AccountsInit /\ RequestAuthorizationInit /\ SigningKeysInit
    /\ AssistantInit /\ CustomObjectsInit /\ MarketplaceInit /\ CustomerKeysInit
    /\ AuditTrailInit
    /\ service # "approvals" => policy.versions = <<CHOOSE d \in Definitions : TRUE>>
    /\ service # "workflow" => draft = (CHOOSE g \in Graphs : TRUE) /\ bounds.steps = CHOOSE n \in StepCaps : TRUE
    /\ service # "authorization" => member.owner /\ ~member.delegated
    /\ service # "keys" => reader = CHOOSE r \in KeyReaders : TRUE

\* The components of the others stay as they are.
Only(vars) ==
    /\ UNCHANGED service
    /\ vars # "Approvals" => UNCHANGED approvalsVars
    /\ vars # "SalesQuotes" => UNCHANGED salesQuotesVars
    /\ vars # "SalesDeals" => UNCHANGED salesDealsVars
    /\ vars # "SalesLeads" => UNCHANGED salesLeadsVars
    /\ vars # "WorkflowEngine" => UNCHANGED workflowEngineVars
    /\ vars # "Accounts" => UNCHANGED accountsVars
    /\ vars # "RequestAuthorization" => UNCHANGED requestAuthorizationVars
    /\ vars # "SigningKeys" => UNCHANGED signingKeysVars
    /\ vars # "Assistant" => UNCHANGED assistantVars
    /\ vars # "CustomObjects" => UNCHANGED customObjectsVars
    /\ vars # "Marketplace" => UNCHANGED marketplaceVars
    /\ vars # "CustomerKeys" => UNCHANGED customerKeysVars
    /\ vars # "AuditTrail" => UNCHANGED auditTrailVars

PlatformNext ==
    \/ service = "approvals" /\ ApprovalsNext /\ Only("Approvals")
    \/ service = "quotes" /\ SalesQuotesNext /\ Only("SalesQuotes")
    \/ service = "deals" /\ DealNext /\ Only("SalesDeals")
    \/ service = "contracts" /\ DocumentNext /\ Only("SalesDeals")
    \/ service = "leads" /\ SalesLeadsNext /\ Only("SalesLeads")
    \/ service = "workflow" /\ WorkflowEngineNext /\ Only("WorkflowEngine")
    \/ service = "accounts" /\ AccountsNext /\ Only("Accounts")
    \/ service = "authorization" /\ RequestAuthorizationNext /\ Only("RequestAuthorization")
    \/ service = "keys" /\ SigningKeysNext /\ Only("SigningKeys")
    \/ service = "agents" /\ AgentNext /\ Only("Assistant")
    \/ service = "copilot" /\ CopilotNext /\ Only("Assistant")
    \/ service = "records" /\ (DefinitionNext \/ RecordNext) /\ Only("CustomObjects")
    \/ service = "packages" /\ (DefinitionNext \/ PackageNext) /\ Only("CustomObjects")
    \/ service = "publisher" /\ PublisherNext /\ Only("Marketplace")
    \/ service = "installs" /\ (SeedOne \/ InstallNext) /\ Only("Marketplace")
    \/ service = "cmk" /\ CustomerKeysNext /\ Only("CustomerKeys")
    \/ service = "audit" /\ AuditTrailNext /\ Only("AuditTrail")

PlatformSpec == PlatformInit /\ [][PlatformNext]_PlatformVars

MCSymmetry == Permutations(ApprovalTxns) \cup Permutations(SalesOrders) \cup Permutations(CoreProcesses)

\* Only the workflow engine, and only the audit trail.
WorkflowSpec == PlatformInit /\ service = "workflow" /\ [][PlatformNext]_PlatformVars
AuditSpec == PlatformInit /\ service = "audit" /\ [][PlatformNext]_PlatformVars

-----------------------------------------------------------------------------

\* Every component of the platform keeps the types of its rows and requests.
PlatformTypeOK ==
    /\ service = "approvals" => ApprovalsTypeOK
    /\ service = "quotes" => SalesQuotesTypeOK
    /\ service = "deals" => SalesDealsTypeOK
    /\ service = "contracts" => SalesDealsTypeOK
    /\ service = "leads" => SalesLeadsTypeOK
    /\ service = "workflow" => WorkflowEngineTypeOK
    /\ service = "accounts" => AccountsTypeOK
    /\ service = "authorization" => RequestAuthorizationTypeOK
    /\ service = "keys" => SigningKeysTypeOK
    /\ service = "agents" => AssistantTypeOK
    /\ service = "copilot" => AssistantTypeOK
    /\ service = "records" => CustomObjectsTypeOK
    /\ service = "packages" => CustomObjectsTypeOK
    /\ service = "publisher" => MarketplaceTypeOK
    /\ service = "installs" => MarketplaceTypeOK
    /\ service = "cmk" => CustomerKeysTypeOK
    /\ service = "audit" => AuditTrailTypeOK

\* Approvals with several steps, deciders and escalations: a subject is decided
\* once, and a pending approval has an open step to decide.
ApprovalsDecideOnce ==
    /\ service = "approvals" => SubjectDecidedOnce
    /\ service = "approvals" => PendingStepIsOpen

\* Quotes, orders, contracts and deals written by id after an unlocked read:
\* discounts over the threshold were approved, an order is its quote, the history
\* of a deal is a chain, a lead is converted once and an e-mail address has one
\* customer, except through the races recorded and the callbacks that answer for
\* an approval nobody decided.
SalesDocumentsAgree ==
    /\ service = "leads" => LeadConvertedOnce
    /\ service = "leads" => OneCustomerPerEmail
    /\ service = "quotes" => DiscountIsApproved
    /\ service = "quotes" => OrderMatchesQuote
    /\ service = "deals" => DealHistoryIsAChain

\* Instances of a workflow: a simulation predicts the run where its reader of
\* paths and the engine's find the same in the payload, every committed step is
\* recorded, and the concurrency cap holds but for racing starts.
WorkflowRunsHold ==
    /\ service = "workflow" => SimulationPredicts
    /\ service = "workflow" => StepsAreRecorded
    /\ service = "workflow" => ConcurrencyCapHolds

\* One-time tokens work once, but for an MFA challenge that mfa_verify failed to
\* mark, administrators passed MFA, failures lock the account, and every key a
\* core process signs with is stored.
CredentialsHold ==
    /\ service = "accounts" => TokensWorkOnce
    /\ service = "accounts" => AdminSessionsPassedMfa
    /\ service = "accounts" => FailuresLock
    /\ service = "keys" => SigningKeysAreStored

\* Services that decide about one principal on their own copies of the rules
\* admit the same requests, but for the differences recorded.
ServicesAdmitAlike ==
    /\ service = "authorization" => AdmissionsAgree

\* The kill switch stops agents on every pod, effects follow their actions, a
\* proposal is applied once, and usage is counted for the month.
AssistantStaysBounded ==
    /\ service = "agents" => KillSwitchHalts
    /\ service = "agents" => EffectsFollowActions
    /\ service = "copilot" => ProposalAppliedOnce
    /\ service = "agents" => UsageIsOfTheMonth
    /\ service = "copilot" => UsageIsOfTheMonth

\* Custom records: no update is lost, and records fit their definition but for
\* what a script, the organization's or a package's, set in them.  The
\* marketplace: published listings passed review, a token is within what was
\* consented to, and a code works once.
ExtensionsHold ==
    /\ service = "records" => NoLostRecordUpdate
    /\ service = "records" => RecordsFitDefinition
    /\ service = "publisher" => PublishedPassedReview
    /\ service = "installs" => TokensWithinConsent
    /\ service = "installs" => CodesWorkOnce

\* Encrypted data outlives rotations of the customer's key, but for a key that
\* was in the memory of a process that restarted or was revoked under a rotation;
\* and the audit chain breaks only where transactions wrote their rows in another
\* order than they began.
EvidenceHolds ==
    /\ service = "cmk" => DataKeyOutlivesRotation
    /\ service = "audit" => AuditBreaksExplained

\* What no step does: allow a request that the current policy forbids, stop
\* verifying a key that still verifies, change a settled sales document, or
\* overwrite an organization's own work with a package.
PlatformStepsHold ==
    /\ AllowedIsCurrent
    /\ RestartKeepsVerifying
    /\ SettledDocumentsStay
    /\ OwnWorkIsKept

=============================================================================
