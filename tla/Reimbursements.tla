---------------------------- MODULE Reimbursements ---------------------------
(***************************************************************************)
(* Expenses and reimbursement batches of the finance service, with the     *)
(* journal entries they post.                                              *)
(*                                                                         *)
(* Each handler that decides or batches reads its rows without a lock,     *)
(* tests them, and later writes without testing again: two steps of one    *)
(* transaction.  Those that may post begin with ensure_ledger_accounts,    *)
(* whose upsert locks the organization's standard accounts until the       *)
(* commit; those of the batches do not.  overlapped remembers the expenses *)
(* that one batch took after another.                                      *)
(***************************************************************************)
EXTENDS Naturals, FiniteSets, FiniteSetsExt

CONSTANTS
    Expenses,      \* finance_expense ids; each has amount 1
    Batches,       \* finance_reimbursement_batch ids
    ExpenseTxns,   \* concurrent requests
    MaxListed,     \* bound on the length of a batch's list of expenses
    NoBatch        \* an expense that is in no batch

ASSUME ReimbursementsAssumption ==
    NoBatch \notin Batches /\ IsFiniteSet(Expenses) /\ MaxListed \in Nat

VARIABLES
    expense,     \* finance_expense: status and reimbursement_batch_id
    posted,      \* journal: how often an expense was posted
    batch,       \* finance_reimbursement_batch: status and total_minor
    policy,      \* over_limit_action of the active policy for the category
    handling,    \* what each request has read
    overlapped,  \* history: expenses that two batches took
    repeated     \* history: batches created with an expense id listed twice

reimbursementsVars == <<expense, posted, batch, policy, handling, overlapped, repeated>>

expenses == <<expense, posted>>
NotHandling == [op |-> "idle"]

ReimbursementsTypeOK ==
    /\ expense \in [Expenses -> [status : {"none", "pending_approval", "posted", "rejected"},
                                 batch : Batches \cup {NoBatch}]]
    /\ posted \in [Expenses -> Nat]
    /\ batch \in [Batches -> [status : {"none", "pending_approval", "approved", "rejected"}, total : Nat]]
    /\ policy \in {"none", "require_approval", "reject"}
    /\ DOMAIN handling = ExpenseTxns
    /\ overlapped \subseteq Expenses
    /\ repeated \subseteq Batches

ReimbursementsInit ==
    /\ expense = [e \in Expenses |-> [status |-> "none", batch |-> NoBatch]]
    /\ posted = [e \in Expenses |-> 0]
    /\ batch = [r \in Batches |-> [status |-> "none", total |-> 0]]
    /\ policy = "none"
    /\ handling = [x \in ExpenseTxns |-> NotHandling]
    /\ overlapped = {} /\ repeated = {}

Handle(x, what) ==
    /\ handling[x] = NotHandling
    /\ handling' = [handling EXCEPT ![x] = what]

Handled(x) == handling' = [handling EXCEPT ![x] = NotHandling]

-----------------------------------------------------------------------------
(* Expenses *)

\* ensure_ledger_accounts: no decision of an expense is under way.
LedgerFree == \A y \in ExpenseTxns : handling[y].op # "decide"

\* upsert_expense_policy
UpsertExpensePolicy(action) ==
    /\ LedgerFree
    /\ policy' = action
    /\ UNCHANGED <<expenses, batch, handling, overlapped, repeated>>

\* submit_expense, and insert_computed_expense for mileage and per diem, which
\* knows no category limit.  Over the limit of the role, or of a category whose
\* policy asks for it, the expense waits; otherwise it is posted at once.
SubmitExpense(e, overRole, overCategory) ==
    /\ LedgerFree
    /\ expense[e].status = "none"
    /\ ~(overCategory /\ policy = "reject")
    /\ LET waits == overRole \/ (overCategory /\ policy = "require_approval")
       IN  /\ expense' = [expense EXCEPT ![e].status = IF waits THEN "pending_approval" ELSE "posted"]
           /\ posted' = [posted EXCEPT ![e] = IF waits THEN 0 ELSE 1]
    /\ UNCHANGED <<batch, policy, handling, overlapped, repeated>>

DecideExpenseRead(x, e) ==
    /\ LedgerFree
    /\ expense[e].status = "pending_approval"
    /\ Handle(x, [op |-> "decide", row |-> e])
    /\ UNCHANGED <<expenses, batch, policy, overlapped, repeated>>

\* An approval posts the entry (post_expense_journal).
DecideExpenseWrite(x, approve) ==
    LET e == handling[x].row
    IN  /\ handling[x].op = "decide"
        /\ expense' = [expense EXCEPT ![e].status = IF approve THEN "posted" ELSE "rejected"]
        /\ posted' = [posted EXCEPT ![e] = IF approve THEN @ + 1 ELSE @]
        /\ Handled(x)
        /\ UNCHANGED <<batch, policy, overlapped, repeated>>

-----------------------------------------------------------------------------
(* Reimbursement batches *)

\* create_reimbursement_batch tests and adds up the listed expenses one by one;
\* listed[e] is how often e is in the list, which is not checked.
CreateBatchRead(x, listed) ==
    /\ \E e \in Expenses : listed[e] > 0
    /\ \A e \in Expenses : listed[e] > 0 => expense[e].status = "posted" /\ expense[e].batch = NoBatch
    /\ Handle(x, [op |-> "batch", row |-> listed, seen |-> {e \in Expenses : listed[e] > 0 /\ expense[e].batch # NoBatch}])
    /\ UNCHANGED <<expenses, batch, policy, overlapped, repeated>>

CreateBatchWrite(x, r) ==
    LET listed == handling[x].row
        members == {e \in Expenses : listed[e] > 0}
    IN  /\ handling[x].op = "batch"
        /\ batch[r].status = "none"
        /\ batch' = [batch EXCEPT ![r] = [status |-> "pending_approval",
                                          total |-> SumFunction(listed)]]
        /\ expense' = [e \in Expenses |-> IF e \in members THEN [expense[e] EXCEPT !.batch = r]
                                          ELSE expense[e]]
        /\ overlapped' = overlapped \cup {e \in members \ handling[x].seen : expense[e].batch # NoBatch}
        /\ repeated' = IF \E e \in Expenses : listed[e] > 1 THEN repeated \cup {r} ELSE repeated
        /\ Handled(x)
        /\ UNCHANGED <<posted, policy>>

\* decide_reimbursement: the expenses of a rejected batch stay in it.
DecideReimbursementRead(x, r) ==
    /\ batch[r].status = "pending_approval"
    /\ Handle(x, [op |-> "decide_batch", row |-> r])
    /\ UNCHANGED <<expenses, batch, policy, overlapped, repeated>>

DecideReimbursementWrite(x, approve) ==
    /\ handling[x].op = "decide_batch"
    /\ batch' = [batch EXCEPT ![handling[x].row].status =
                                 IF approve THEN "approved" ELSE "rejected"]
    /\ Handled(x)
    /\ UNCHANGED <<expenses, policy, overlapped, repeated>>

Lists == {l \in [Expenses -> 0..MaxListed] : SumFunction(l) <= MaxListed}

ReimbursementsNext ==
    \/ \E action \in {"require_approval", "reject"} : UpsertExpensePolicy(action)
    \/ \E e \in Expenses, overRole, overCategory \in BOOLEAN : SubmitExpense(e, overRole, overCategory)
    \/ \E x \in ExpenseTxns, e \in Expenses : DecideExpenseRead(x, e)
    \/ \E x \in ExpenseTxns, listed \in Lists : CreateBatchRead(x, listed)
    \/ \E x \in ExpenseTxns, r \in Batches : CreateBatchWrite(x, r) \/ DecideReimbursementRead(x, r)
    \/ \E x \in ExpenseTxns, approve \in BOOLEAN : DecideExpenseWrite(x, approve) \/ DecideReimbursementWrite(x, approve)

-----------------------------------------------------------------------------
(* Properties *)

\* A posted expense has exactly one journal entry and any other none, however
\* many decisions of it are requested at once.
ExpensePostedOnce ==
    \A e \in Expenses : posted[e] = IF expense[e].status = "posted" THEN 1 ELSE 0

\* A batch reimburses the expenses that are in it, each once: its total is
\* theirs, unless an expense was listed twice or two batches overlapped.
BatchTotalsMatchExpenses ==
    \A r \in Batches \ repeated :
        batch[r].total # Cardinality({e \in Expenses : expense[e].batch = r})
            => \E e \in overlapped : expense[e].batch # r

=============================================================================
