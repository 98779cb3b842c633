------------------------------- MODULE Assistant -------------------------------
(***************************************************************************)
(* The AI service: unattended agent runs under a policy, a kill switch and *)
(* a monthly token budget, and the copilot's proposals, which a user       *)
(* confirms.  Several pods serve one organization; each caches the switch. *)
(***************************************************************************)
EXTENDS Naturals, FiniteSets

CONSTANTS
    AgentRuns, Pods, Proposals, AiTxns,
    PolicyDocs,     \* sets of allowed tools a policy may be published with
    TokenBudget,    \* monthly_token_budget
    LastAiMonth,    \* bound on the months
    MaxForwards     \* bound on the times a proposal is forwarded

ASSUME AssistantAssumption ==
    /\ PolicyDocs \subseteq SUBSET {"send_invoice_reminder", "escalate_exception"}
    /\ TokenBudget \in Nat \ {0} /\ LastAiMonth \in Nat \ {0} /\ MaxForwards \in Nat

VARIABLES
    engaged,       \* ai_agent_kill_switch: the scopes engaged ("*" and the agent's own)
    cachedKill,    \* kill_switch_cache of each pod: the scopes cached as engaged
    policyTools,   \* the active ai_agent_policy: the versions published, the last one's tools
    agentRun,      \* ai_agent_run.status, and where its driver is
    aiAction,      \* ai_action.status and ai_agent_effect.active per run and invoice
    proposal,      \* ai_proposal.status
    applied,       \* history: times the domain carried the proposal out
    summary,       \* ai_meeting_summary.status
    aiTxn,         \* what each request has read
    aiTokens,        \* ai_org_settings: tokens_used_this_month, budget_month, copilot enabled
    aiMonth, spent,      \* the month it is; history: tokens recorded in it
    afterKill,     \* history: actions of each run while the switch has been engaged
    earlyReversal, \* history: actions reversed before their effect was recorded
    unrecorded,    \* history: proposals carried out whose commit was never recorded
    aiRaces        \* history: proposals and the summary decided from an old read

assistantVars == <<engaged, cachedKill, policyTools, agentRun, aiAction, proposal, applied, summary, aiTxn,
                   aiTokens, aiMonth, spent, afterKill, earlyReversal, unrecorded, aiRaces>>
killVars == <<engaged, cachedKill, afterKill>>
actionVars == <<aiAction, earlyReversal>>
copilotVars == <<proposal, applied, summary, aiTxn, unrecorded, aiRaces>>
budgetVars == <<aiTokens, aiMonth, spent>>

KillScopes == {"*", "receivables_chase"}
AgentTools == {"send_invoice_reminder", "escalate_exception"}
OverdueInvoices == 1 .. 2   \* fixture_overdue: the second is to be escalated
NoAiTxn == [op |-> "idle"]
NoAgentRun == [status |-> "none", pc |-> "none", pod |-> "none", tools |-> {}, next |-> 1, acted |-> 0]

AssistantTypeOK ==
    /\ engaged \subseteq KillScopes /\ cachedKill \in [Pods -> SUBSET KillScopes]
    /\ policyTools \in [versions : 0 .. 2, tools : SUBSET AgentTools]
    /\ \A r \in AgentRuns :
          /\ agentRun[r].status \in {"none", "running", "killed", "failed", "completed"}
          /\ agentRun[r].pc \in {"none", "starting", "loop", "cleared", "acted", "killed", "finished", "usage", "dead"}
          /\ agentRun[r].pod \in Pods \cup {"none"}
          /\ agentRun[r].next \in 1 .. Cardinality(OverdueInvoices) + 1
    /\ proposal \in [Proposals -> {"none", "pending", "committed", "cancelled"}]
    /\ summary \in {"none", "suggested", "accepted", "rejected"}
    /\ DOMAIN aiTxn = AiTxns
    /\ aiTokens \in [used : Nat, month : 1 .. LastAiMonth, copilot : BOOLEAN]

-----------------------------------------------------------------------------
(* The kill switch *)

\* Mutant: a scope that the pod has not cached is taken for released.
IsKilledCached(p) == cachedKill[p] # {}

\* is_killed: an engaged scope in the cache is believed; anything else is read
\* from the table, and cached.
IsKilled(p) == cachedKill[p] # {} \/ engaged # {}
CacheKill(p) == cachedKill' = [cachedKill EXCEPT ![p] = IF @ # {} THEN @ ELSE engaged]

\* set_kill_switch through a pod: the row and the running rows in one commit,
\* then this pod's cache.
SetKillSwitch(p, scope, on) ==
    /\ engaged' = IF on THEN engaged \cup {scope} ELSE engaged \ {scope}
    /\ cachedKill' = [cachedKill EXCEPT ![p] = IF on THEN @ \cup {scope} ELSE @ \ {scope}]
    /\ agentRun' = IF on THEN [r \in AgentRuns |-> [agentRun[r] EXCEPT !.status = IF @ = "running" THEN "killed" ELSE @]]
                   ELSE agentRun
    /\ afterKill' = IF engaged' = {} THEN [r \in AgentRuns |-> 0] ELSE afterKill
    /\ UNCHANGED <<policyTools, actionVars, copilotVars, budgetVars>>

\* get_kill_switch refreshes the pod's org-wide entry.
GetKillSwitch(p) ==
    /\ cachedKill' = [cachedKill EXCEPT ![p] = (@ \ {"*"}) \cup (engaged \cap {"*"})]
    /\ UNCHANGED <<engaged, afterKill, policyTools, agentRun, actionVars, copilotVars, budgetVars>>

\* load_active_policy takes the highest active version.
HasActivePolicy == policyTools.versions > 0
ActivePolicy == policyTools.tools

\* publish_policy supersedes the active version; of two at once, one meets the
\* unique version and fails.
PublishPolicy(doc) ==
    /\ policyTools.versions < 2
    /\ policyTools' = [versions |-> policyTools.versions + 1, tools |-> doc]
    /\ UNCHANGED <<killVars, agentRun, actionVars, copilotVars, budgetVars>>

-----------------------------------------------------------------------------
(* The budget *)

\* load_settings: a missing row reads as the defaults, the first usage inserts it.
Settings == aiTokens

\* check_token_budget looks at the stored usage, not at the month it is of.
Exhausted == Settings.used >= TokenBudget

\* record_token_usage: another month than the stored one starts from the usage.
RecordTokenUsage(n) ==
    /\ aiTokens' = [aiTokens EXCEPT !.used = IF aiTokens.month = aiMonth THEN @ + n ELSE n, !.month = aiMonth]
    /\ spent' = spent + n
    /\ UNCHANGED aiMonth

NextAiMonth ==
    /\ aiMonth < LastAiMonth
    /\ aiMonth' = aiMonth + 1 /\ spent' = 0
    /\ UNCHANGED <<aiTokens, killVars, policyTools, agentRun, actionVars, copilotVars>>

-----------------------------------------------------------------------------
(* Agent runs *)

AgentGoes(r, pc) == agentRun' = [agentRun EXCEPT ![r].pc = pc]

\* start_and_run: the switch, the budget and the policy are looked at before
\* the row is inserted; the policy is pinned.
StartAndRun(r, p) ==
    /\ agentRun[r].pc = "none"
    /\ ~ IsKilled(p) /\ ~ Exhausted
    /\ HasActivePolicy
    /\ CacheKill(p)
    /\ agentRun' = [agentRun EXCEPT ![r] = [@ EXCEPT !.pc = "starting", !.pod = p, !.tools = ActivePolicy]]
    /\ UNCHANGED <<engaged, afterKill, policyTools, actionVars, copilotVars, budgetVars>>

InsertRun(r) ==
    /\ agentRun[r].pc = "starting"
    /\ agentRun' = [agentRun EXCEPT ![r].pc = "loop", ![r].status = "running"]
    /\ UNCHANGED <<killVars, policyTools, actionVars, copilotVars, budgetVars>>

\* Before an invoice: the loop ends with the invoices or the budget, and at the
\* last of the checks of the switch before the tool.
NextInvoice(r) ==
    LET p == agentRun[r].pod
    IN  /\ agentRun[r].pc = "loop"
        /\ \/ /\ agentRun[r].next \notin OverdueInvoices \/ Exhausted
              /\ AgentGoes(r, "finished") /\ UNCHANGED cachedKill
           \/ /\ agentRun[r].next \in OverdueInvoices /\ ~ Exhausted
              /\ AgentGoes(r, IF IsKilled(p) THEN "killed" ELSE "cleared")
              /\ CacheKill(p)
        /\ UNCHANGED <<engaged, afterKill, policyTools, actionVars, copilotVars, budgetVars>>

\* record_action: a committed ai_action of the run.
RecordAction(r, i) ==
    /\ AgentGoes(r, "acted")
    /\ aiAction' = [aiAction EXCEPT ![r][i].status = "committed"]
    /\ afterKill' = [afterKill EXCEPT ![r] = IF engaged # {} THEN @ + 1 ELSE @]

\* policy_allows_tool and effective_allows, on the policy pinned at the start.
PolicyAllows(r, tool) == tool \in agentRun[r].tools

UseTool(r, tool) ==
    LET i == agentRun[r].next
    IN  \/ /\ PolicyAllows(r, tool)
           /\ RecordAction(r, i)
        \/ /\ ~ PolicyAllows(r, tool)
           /\ agentRun' = [agentRun EXCEPT ![r].pc = "loop", ![r].next = i + 1]
           /\ UNCHANGED <<aiAction, afterKill>>

SendReminder(r) == agentRun[r].next = 1 /\ UseTool(r, "send_invoice_reminder")
EscalateException(r) == agentRun[r].next = 2 /\ UseTool(r, "escalate_exception")

ChaseInvoice(r) ==
    /\ agentRun[r].pc = "cleared"
    /\ SendReminder(r) \/ EscalateException(r)
    /\ UNCHANGED <<engaged, cachedKill, policyTools, earlyReversal, copilotVars, budgetVars>>

\* record_effect is a transaction of its own.
RecordEffect(r) ==
    LET i == agentRun[r].next
    IN  /\ agentRun[r].pc = "acted"
        /\ aiAction' = [aiAction EXCEPT ![r][i].effect = "active"]
        /\ agentRun' = [agentRun EXCEPT ![r] = [@ EXCEPT !.pc = "loop", !.next = i + 1, !.acted = @ + 1]]
        /\ UNCHANGED <<killVars, policyTools, earlyReversal, copilotVars, budgetVars>>

\* mark_run writes the outcome over whatever the row says.
MarkRun(r) ==
    LET outcome == IF agentRun[r].pc = "killed" THEN "killed"
                   ELSE IF agentRun[r].acted = 0 /\ agentRun[r].next > 1 THEN "failed" ELSE "completed"
    IN  /\ agentRun[r].pc \in {"killed", "finished"}
        /\ agentRun' = [agentRun EXCEPT ![r].pc = "usage", ![r].status = outcome]
        /\ UNCHANGED <<killVars, policyTools, actionVars, copilotVars, budgetVars>>

\* The usage is recorded last; a failure to is ignored.
AccountRun(r) ==
    /\ agentRun[r].pc = "usage"
    /\ AgentGoes(r, "dead")
    /\ RecordTokenUsage(1) \/ UNCHANGED budgetVars
    /\ UNCHANGED <<killVars, policyTools, actionVars, copilotVars>>

\* A pod restarts: its cache is empty and the runs it drove are driven no more.
RestartPod(p) ==
    /\ cachedKill' = [cachedKill EXCEPT ![p] = {}]
    /\ agentRun' = [r \in AgentRuns |-> IF agentRun[r].pod = p /\ agentRun[r].pc # "none"
                                        THEN [agentRun[r] EXCEPT !.pc = "dead"] ELSE agentRun[r]]
    /\ UNCHANGED <<engaged, afterKill, policyTools, actionVars, copilotVars, budgetVars>>

\* reverse_action, within the window: the active effect and the action.
ReverseAction(r, i) ==
    /\ aiAction[r][i].status = "committed"
    /\ aiAction' = [aiAction EXCEPT ![r][i] = [status |-> "reversed",
                                               effect |-> IF @.effect = "active" THEN "inactive" ELSE @.effect]]
    /\ earlyReversal' = IF aiAction[r][i].effect = "none" THEN earlyReversal \cup {<<r, i>>} ELSE earlyReversal
    /\ UNCHANGED <<killVars, policyTools, agentRun, copilotVars, budgetVars>>

-----------------------------------------------------------------------------
(* The copilot *)

AiReads(x, what) ==
    /\ aiTxn[x] = NoAiTxn
    /\ aiTxn' = [aiTxn EXCEPT ![x] = what]
    /\ UNCHANGED <<killVars, policyTools, agentRun, actionVars, proposal, applied, summary, unrecorded, aiRaces, budgetVars>>

EndAiTxn(x) == aiTxn' = [aiTxn EXCEPT ![x] = NoAiTxn]

NotCopilot == UNCHANGED <<killVars, policyTools, agentRun, actionVars>>

ProcessChat(x) ==
    /\ Settings.copilot /\ ~ Exhausted
    /\ AiReads(x, [op |-> "chat"])

\* persist_proposal; the interaction, review or insight that refers to it comes
\* in a later transaction.
PersistProposal(p) ==
    /\ proposal[p] = "none"
    /\ proposal' = [proposal EXCEPT ![p] = "pending"]
    /\ UNCHANGED <<applied, summary, aiTxn, unrecorded, aiRaces, budgetVars>> /\ NotCopilot

\* run_tool: a write the user is allowed becomes a proposal.
RunTool(x, p) == aiTxn[x].op = "chat" /\ PersistProposal(p)

ExtractDocument(p) == PersistProposal(p)
PersistInsight(p) == PersistProposal(p)

\* The tokens of a chat, then its interaction.
PersistInteraction(x) ==
    /\ aiTxn[x].op = "chat"
    /\ RecordTokenUsage(1)
    /\ EndAiTxn(x)
    /\ UNCHANGED <<proposal, applied, summary, unrecorded, aiRaces>> /\ NotCopilot

\* patch_settings; the budget it may also change is a constant here.
PatchSettings(on) ==
    /\ aiTokens' = [aiTokens EXCEPT !.copilot = on]
    /\ UNCHANGED <<aiMonth, spent, copilotVars>> /\ NotCopilot

\* Carried out, and not yet recorded.
BeingConfirmed(p) == \E y \in AiTxns : aiTxn[y].op = "forwarded" /\ aiTxn[y].proposal = p

ConfirmProposalRead(x, p) ==
    /\ proposal[p] = "pending"
    /\ AiReads(x, [op |-> "confirm", proposal |-> p, seen |-> proposal[p]])

\* forward_user_request to the domain, with no idempotency key: carried out and
\* answered, refused, or carried out and the answer lost.
ForwardUserRequest(x, answer) ==
    LET p == aiTxn[x].proposal
    IN  /\ aiTxn[x].op = "confirm" /\ applied[p] < MaxForwards
        /\ applied' = IF answer = "refused" THEN applied ELSE [applied EXCEPT ![p] = @ + 1]
        /\ aiTxn' = [aiTxn EXCEPT ![x] = IF answer = "ok" THEN [@ EXCEPT !.op = "forwarded"] ELSE NoAiTxn]
        /\ unrecorded' = IF answer = "lost" THEN unrecorded \cup {p} ELSE unrecorded
        /\ aiRaces' = IF answer # "refused" /\ (aiTxn[x].seen # proposal[p]
                                                  \/ BeingConfirmed(p))
                      THEN aiRaces \cup {p} ELSE aiRaces
        /\ UNCHANGED <<proposal, summary, budgetVars>> /\ NotCopilot

\* The row is set to committed whatever it says by now; the pod may stop first.
ConfirmProposalWrite(x, crashed) ==
    LET p == aiTxn[x].proposal
    IN  /\ aiTxn[x].op = "forwarded"
        /\ proposal' = IF crashed THEN proposal ELSE [proposal EXCEPT ![p] = "committed"]
        /\ unrecorded' = IF crashed THEN unrecorded \cup {p} ELSE unrecorded
        /\ aiRaces' = IF proposal[p] # aiTxn[x].seen THEN aiRaces \cup {p} ELSE aiRaces
        /\ EndAiTxn(x)
        /\ UNCHANGED <<applied, summary, budgetVars>> /\ NotCopilot

\* One conditional UPDATE.
CancelProposal(p) ==
    /\ proposal[p] = "pending"
    /\ proposal' = [proposal EXCEPT ![p] = "cancelled"]
    /\ aiRaces' = IF BeingConfirmed(p) THEN aiRaces \cup {p} ELSE aiRaces
    /\ UNCHANGED <<applied, summary, aiTxn, unrecorded, budgetVars>> /\ NotCopilot

CreateFromCalendar ==
    /\ summary = "none"
    /\ summary' = "suggested"
    /\ UNCHANGED <<proposal, applied, aiTxn, unrecorded, aiRaces, budgetVars>> /\ NotCopilot

DecideSummaryRead(x) ==
    /\ summary = "suggested"
    /\ AiReads(x, [op |-> "summary", seen |-> summary])

DecideSummaryWrite(x, to) ==
    /\ aiTxn[x].op = "summary"
    /\ summary' = to
    /\ aiRaces' = IF summary # aiTxn[x].seen THEN aiRaces \cup {"summary"} ELSE aiRaces
    /\ EndAiTxn(x)
    /\ UNCHANGED <<proposal, applied, unrecorded, budgetVars>> /\ NotCopilot

-----------------------------------------------------------------------------

AssistantInit ==
    /\ engaged = {} /\ cachedKill = [p \in Pods |-> {}]
    /\ policyTools = [versions |-> 0, tools |-> {}]
    /\ agentRun = [r \in AgentRuns |-> NoAgentRun]
    /\ aiAction = [r \in AgentRuns |-> [i \in OverdueInvoices |-> [status |-> "none", effect |-> "none"]]]
    /\ proposal = [p \in Proposals |-> "none"] /\ applied = [p \in Proposals |-> 0]
    /\ summary = "none" /\ aiTxn = [x \in AiTxns |-> NoAiTxn]
    /\ aiTokens = [used |-> 0, month |-> 1, copilot |-> TRUE] /\ aiMonth = 1 /\ spent = 0
    /\ afterKill = [r \in AgentRuns |-> 0]
    /\ earlyReversal = {} /\ unrecorded = {} /\ aiRaces = {}

\* The two halves share only the token counters.
AgentNext ==
    \/ \E p \in Pods, scope \in KillScopes, on \in BOOLEAN : SetKillSwitch(p, scope, on)
    \/ \E p \in Pods : GetKillSwitch(p) \/ RestartPod(p)
    \/ \E doc \in PolicyDocs : PublishPolicy(doc)
    \/ \E r \in AgentRuns, p \in Pods : StartAndRun(r, p)
    \/ \E r \in AgentRuns :
          InsertRun(r) \/ NextInvoice(r) \/ ChaseInvoice(r) \/ RecordEffect(r) \/ MarkRun(r) \/ AccountRun(r)
    \/ \E r \in AgentRuns, i \in OverdueInvoices : ReverseAction(r, i)

CopilotNext ==
    \/ NextAiMonth
    \/ \E x \in AiTxns : ProcessChat(x) \/ PersistInteraction(x) \/ DecideSummaryRead(x)
    \/ \E p \in Proposals : ExtractDocument(p) \/ PersistInsight(p) \/ CancelProposal(p)
    \/ \E x \in AiTxns, p \in Proposals : RunTool(x, p) \/ ConfirmProposalRead(x, p)
    \/ \E x \in AiTxns, answer \in {"ok", "refused", "lost"} : ForwardUserRequest(x, answer)
    \/ \E x \in AiTxns, crashed \in BOOLEAN : ConfirmProposalWrite(x, crashed)
    \/ CreateFromCalendar
    \/ \E x \in AiTxns, to \in {"accepted", "rejected"} : DecideSummaryWrite(x, to)
    \/ \E on \in BOOLEAN : PatchSettings(on)

AssistantNext == AgentNext \/ CopilotNext

-----------------------------------------------------------------------------

\* The kill switch halts new tool calls: while it is engaged a run commits at
\* most the one action it had been cleared for, on whichever pod it runs and
\* through whichever the switch was set.
KillSwitchHalts == \A r \in AgentRuns : afterKill[r] <= 1

\* Undo as a unit: an effect is active only while its action is committed,
\* unless the action was reversed before its effect was recorded.
EffectsFollowActions ==
    \A r \in AgentRuns, i \in OverdueInvoices :
       aiAction[r][i].effect = "active" /\ <<r, i>> \notin earlyReversal => aiAction[r][i].status = "committed"

\* What a user confirms is carried out once and never after a cancellation,
\* unless two decisions raced or the outcome of the first was not recorded.
ProposalAppliedOnce ==
    \A p \in Proposals \ (aiRaces \cup unrecorded) :
       applied[p] <= 1 /\ (applied[p] = 1 => proposal[p] # "cancelled")

\* The usage that the budget is checked against is that of the stored month.
UsageIsOfTheMonth ==
    IF aiTokens.month = aiMonth THEN aiTokens.used = spent ELSE spent = 0
=============================================================================
