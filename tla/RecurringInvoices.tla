-------------------------- MODULE RecurringInvoices --------------------------
(***************************************************************************)
(* Recurring invoices of the finance service.  run_due locks the due       *)
(* templates (FOR UPDATE re-evaluates the condition after a wait), so it   *)
(* is one step; an error in any template rolls the whole run back.         *)
(***************************************************************************)
EXTENDS Naturals, FiniteSets

CONSTANTS
    Templates,   \* finance_recurring_invoice ids
    LastMonth    \* bound: months are 0..LastMonth

ASSUME RecurringInvoicesAssumption == LastMonth \in Nat

VARIABLES
    month,       \* now
    template,    \* finance_recurring_invoice: content, cadence, next_run_at
    invoiced     \* per template, the next_run_at values that made an invoice,
                 \* each with the month it was made in

recurringInvoicesVars == <<month, template, invoiced>>

\* A template without lines is skipped; one whose currency or totals are
\* rejected fails the run.  create_recurring checks neither.
Contents == {"valid", "empty", "rejected"}
Cadence == {1, 3}
TemplateRow == [content : Contents, cadence : Cadence, next : Nat]

RecurringInvoicesTypeOK ==
    /\ month \in 0..LastMonth
    /\ DOMAIN template \subseteq Templates /\ \A t \in DOMAIN template : template[t] \in TemplateRow
    /\ invoiced \subseteq Templates \X Nat \X Nat

RecurringInvoicesInit ==
    /\ month = 0
    /\ template = [t \in {} |-> 0]
    /\ invoiced = {}

MonthPasses ==
    /\ month < LastMonth
    /\ month' = month + 1
    /\ UNCHANGED <<template, invoiced>>

CreateRecurring(t, content, cadence, next) ==
    /\ t \notin DOMAIN template
    /\ template' = [u \in DOMAIN template \cup {t} |->
                       IF u = t THEN [content |-> content, cadence |-> cadence, next |-> next]
                       ELSE template[u]]
    /\ UNCHANGED <<month, invoiced>>

Due == {t \in DOMAIN template : template[t].next <= month}

\* Mutant: advanced once, however late the run is.
AdvanceNextRunOnce(row) == row.next + row.cadence

\* advance_next_run, repeated until it is in the future.
AdvanceNextRun(row) ==
    CHOOSE n \in (month + 1)..(month + row.cadence) : (n - row.next) % row.cadence = 0

RunDue ==
    LET done == {t \in Due : template[t].content = "valid"}
    IN  /\ \A t \in Due : template[t].content # "rejected"
        /\ template' = [t \in DOMAIN template |->
                           IF t \in done THEN [template[t] EXCEPT !.next = AdvanceNextRun(template[t])]
                           ELSE template[t]]
        /\ invoiced' = invoiced \cup {<<t, template[t].next, month>> : t \in done}
        /\ UNCHANGED month

RecurringInvoicesNext ==
    \/ MonthPasses
    \/ \E t \in Templates, content \in Contents, cadence \in Cadence, next \in 0..LastMonth :
           CreateRecurring(t, content, cadence, next)
    \/ RunDue

-----------------------------------------------------------------------------
\* A run invoices what is due and nothing early, and one cadence period never
\* gives two invoices however often and however late runs happen: invoices of
\* one template are made in different periods.
OneInvoicePerPeriod ==
    /\ \A i \in invoiced : i[2] <= i[3] /\ template[i[1]].next > i[3]
    /\ \A i, j \in invoiced : i[1] = j[1] /\ i[2] < j[2] => i[3] < j[2]

=============================================================================
