---------------------------- MODULE Receivables ----------------------------
(***************************************************************************)
(* Invoices, payments and credit notes of the finance service, with the    *)
(* receivables side of the journal that they post to.                      *)
(*                                                                         *)
(* A request is one READ COMMITTED transaction.  A handler that reads the  *)
(* invoice without a lock and writes it later is two steps; one that locks *)
(* what it reads is one.  What keeps the requests of an organization apart *)
(* is ensure_ledger_accounts, with which each of them begins: its upsert   *)
(* of the standard accounts holds their rows until the commit.             *)
(* Amounts are sums of minor units; tax and currency are left out.         *)
(***************************************************************************)
EXTENDS Integers

CONSTANTS
    Invoices,     \* finance_invoice ids
    Payments,     \* finance_payment ids
    InvoiceTxns,  \* concurrent requests
    Amounts,      \* amounts of lines, payments, allocations and credits
    PaymentKeys,  \* Idempotency-Key values, and provider event ids
    NoInvoice,    \* a payment that names no invoice
    NoKey         \* a request without the header

ASSUME ReceivablesAssumption ==
    /\ Amounts \subseteq Nat \ {0}
    /\ NoInvoice \notin Invoices
    /\ NoKey \notin PaymentKeys \cup ({"api", "stripe"} \X PaymentKeys)

VARIABLES
    invoice,     \* finance_invoice, with the sum of its lines
    payment,     \* finance_payment: the amount and what is unapplied of it
    allocated,   \* finance_payment_allocation, summed per payment and invoice
    nextNumber,  \* finance_invoice_seq.next_number
    receivable,  \* journal: accounts receivable, per invoice
    credit,      \* journal: customer credits, per payment
    idemKeys,    \* finance_idempotency and finance_webhook_event
    request,     \* what each transaction has read
    voided       \* history: invoices that void_invoice wrote

receivablesVars ==
    <<invoice, payment, allocated, nextNumber, receivable, credit, idemKeys, request, voided>>

journal == <<receivable, credit>>
payments == <<payment, allocated, idemKeys>>

InvoiceStatus == {"none", "draft", "issued", "sent", "partially_paid", "paid", "void"}
OpenStatus == {"issued", "sent", "partially_paid", "paid"}
NoInvoiceRow == [status |-> "none", lines |-> 0, total |-> 0, paid |-> 0, credited |-> 0,
          balance |-> 0, number |-> 0]
IdleRequest == [op |-> "idle"]

\* Where a payment comes from: a request with an Idempotency-Key, or an event.
Sources == {"api", "stripe"} \X PaymentKeys

ReceivablesTypeOK ==
    /\ \A i \in Invoices :
          /\ DOMAIN invoice[i] = DOMAIN NoInvoiceRow
          /\ invoice[i].status \in InvoiceStatus
          /\ \A f \in DOMAIN NoInvoiceRow \ {"status"} : invoice[i][f] \in Nat
    /\ payment \in [Payments -> [amount : Nat, unapplied : Nat, source : Sources \cup {NoKey}]]
    /\ allocated \in [Payments \X Invoices -> Nat]
    /\ nextNumber \in Nat \ {0}
    /\ receivable \in [Invoices -> Int]
    /\ credit \in [Payments -> Nat]
    /\ idemKeys \subseteq Sources
    /\ DOMAIN request = InvoiceTxns
    /\ voided \subseteq Invoices

ReceivablesInit ==
    /\ invoice = [i \in Invoices |-> NoInvoiceRow]
    /\ payment = [p \in Payments |-> [amount |-> 0, unapplied |-> 0, source |-> NoKey]]
    /\ allocated = [a \in Payments \X Invoices |-> 0]
    /\ nextNumber = 1
    /\ receivable = [i \in Invoices |-> 0]
    /\ credit = [p \in Payments |-> 0]
    /\ idemKeys = {}
    /\ request = [x \in InvoiceTxns |-> IdleRequest]
    /\ voided = {}

\* ensure_ledger_accounts: ON CONFLICT DO UPDATE waits for the transaction that
\* wrote the accounts, so a request reads only when no other is under way.
LedgerUnlocked == \A y \in InvoiceTxns : request[y] = IdleRequest

\* Mutant: the upsert does nothing on a conflict, and locks nothing.
StartRequestUnlocked(x, what) ==
    /\ request[x] = IdleRequest
    /\ request' = [request EXCEPT ![x] = what]

\* A request locks the accounts, reads its invoice, and holds what it needs later.
StartRequest(x, what) ==
    /\ LedgerUnlocked
    /\ request' = [request EXCEPT ![x] = what]

FinishRequest(x) == request' = [request EXCEPT ![x] = IdleRequest]

-----------------------------------------------------------------------------
(* Drafts *)

\* create_invoice: a draft has no balance until it is issued.
CreateInvoice(i, a) ==
    /\ LedgerUnlocked
    /\ invoice[i] = NoInvoiceRow
    /\ invoice' = [invoice EXCEPT ![i].status = "draft", ![i].lines = a, ![i].total = a]
    /\ UNCHANGED <<payments, nextNumber, journal, request, voided>>

UpdateInvoiceRead(x, i) ==
    /\ invoice[i].status = "draft"
    /\ StartRequest(x, [op |-> "update", inv |-> i])
    /\ UNCHANGED <<invoice, payments, nextNumber, journal, voided>>

\* The lines are replaced and added up, and the version that was read is still
\* the row's.  finance_invoice_guard and finance_invoice_line_guard refuse to
\* change an invoice that is no longer a draft.
UpdateInvoiceWrite(x, a) ==
    LET i == request[x].inv
    IN  /\ request[x].op = "update"
        /\ invoice[i].status = "draft"
        /\ invoice' = [invoice EXCEPT ![i].lines = a, ![i].total = a]
        /\ FinishRequest(x)
        /\ UNCHANGED <<payments, nextNumber, journal, voided>>

-----------------------------------------------------------------------------
(* Issue, send, void *)

\* snapshot_taxes_at_issue reads the lines.
IssueInvoiceRead(x, i) ==
    /\ invoice[i].status = "draft" /\ invoice[i].total > 0
    /\ StartRequest(x, [op |-> "issue", inv |-> i, amount |-> invoice[i].lines])
    /\ UNCHANGED <<invoice, payments, nextNumber, journal, voided>>

\* The number and the journal entry are written, then the row only if it is still
\* a draft; that the UPDATE matched a row is not checked.
IssueInvoiceWrite(x) ==
    LET i == request[x].inv
        a == request[x].amount
    IN  /\ request[x].op = "issue"
        /\ nextNumber' = nextNumber + 1
        /\ receivable' = [receivable EXCEPT ![i] = @ + a]
        /\ invoice' = IF invoice[i].status = "draft"
                      THEN [invoice EXCEPT ![i].status = "issued", ![i].number = nextNumber,
                                           ![i].total = a, ![i].balance = a]
                      ELSE invoice
        /\ FinishRequest(x)
        /\ UNCHANGED <<payments, credit, voided>>

SendInvoiceRead(x, i) ==
    /\ invoice[i].status \in {"issued", "sent"}
    /\ StartRequest(x, [op |-> "send", inv |-> i])
    /\ UNCHANGED <<invoice, payments, nextNumber, journal, voided>>

SendInvoiceWrite(x) ==
    LET i == request[x].inv
    IN  /\ request[x].op = "send"
        /\ invoice' = [invoice EXCEPT ![i].status = "sent"]
        /\ FinishRequest(x)
        /\ UNCHANGED <<payments, nextNumber, journal, voided>>

VoidInvoiceRead(x, i) ==
    /\ invoice[i].status \notin {"none", "void", "paid"}
    /\ invoice[i].paid = 0
    /\ StartRequest(x, [op |-> "void", inv |-> i])
    /\ UNCHANGED <<invoice, payments, nextNumber, journal, voided>>

\* No entry reverses the one that the issue posted.
VoidInvoiceWrite(x) ==
    LET i == request[x].inv
    IN  /\ request[x].op = "void"
        /\ invoice' = [invoice EXCEPT ![i].status = "void", ![i].balance = 0]
        /\ voided' = voided \cup {i}
        /\ FinishRequest(x)
        /\ UNCHANGED <<payments, nextNumber, journal>>

-----------------------------------------------------------------------------
(* Payments and credit notes *)

\* balance_and_status, for an invoice whose paid or credited amount changed.
BalanceAndStatus(row) ==
    LET balance == row.total - row.paid - row.credited
    IN  [row EXCEPT !.balance = IF balance > 0 THEN balance ELSE 0,
                    !.status = IF balance <= 0 THEN "paid"
                               ELSE IF row.paid > 0 THEN "partially_paid" ELSE row.status]

\* apply_allocation, with both rows locked.
CanAllocate(i, a) == invoice[i].status \in OpenStatus /\ a <= invoice[i].balance

ApplyAllocation(p, i, a) ==
    /\ CanAllocate(i, a)
    /\ invoice' = [invoice EXCEPT ![i] = BalanceAndStatus([invoice[i] EXCEPT !.paid = @ + a])]
    /\ allocated' = [allocated EXCEPT ![<<p, i>>] = @ + a]
    /\ receivable' = [receivable EXCEPT ![i] = @ - a]

\* The bound on the payments: a request starts only if it can insert its row.
PaymentLeft == \E p \in Payments : payment[p].amount = 0

Lesser(a, b) == IF a <= b THEN a ELSE b

\* record_payment: the part of the amount that the invoice can take is
\* computed from a balance that is not locked.
RecordPaymentRead(x, i, a, k) ==
    /\ PaymentLeft
    /\ <<"api", k>> \notin idemKeys
    /\ i # NoInvoice => invoice[i].status \in OpenStatus
    /\ StartRequest(x, [op |-> "pay", inv |-> i, amount |-> a,
                 allocate |-> IF i = NoInvoice THEN 0 ELSE Lesser(a, invoice[i].balance),
                 source |-> IF k = NoKey THEN NoKey ELSE <<"api", k>>])
    /\ UNCHANGED <<invoice, payments, nextNumber, journal, voided>>

\* stripe_webhook inserts the event first: an event that is stored is a duplicate,
\* also when a request delivered it while another was processing it.
StripeWebhookRead(x, i, a, k) ==
    /\ PaymentLeft
    /\ <<"stripe", k>> \notin idemKeys
    /\ StartRequest(x, [op |-> "pay", inv |-> i, amount |-> a,
                 allocate |-> IF i # NoInvoice /\ invoice[i].status \in OpenStatus
                              THEN Lesser(a, invoice[i].balance) ELSE 0,
                 source |-> <<"stripe", k>>])
    /\ UNCHANGED <<invoice, payments, nextNumber, journal, voided>>

\* The payment, its journal entry, the allocation that is tested again under
\* the lock, and the key.
PaymentWrite(x, p) ==
    LET r == request[x]
    IN  /\ r.op = "pay"
        /\ payment[p].amount = 0
        /\ payment' = [payment EXCEPT ![p] = [amount |-> r.amount, unapplied |-> r.amount - r.allocate,
                                              source |-> r.source]]
        /\ credit' = [credit EXCEPT ![p] = r.amount - r.allocate]
        /\ IF r.allocate > 0 THEN ApplyAllocation(p, r.inv, r.allocate)
           ELSE UNCHANGED <<invoice, allocated, receivable>>
        /\ idemKeys' = IF r.source = NoKey THEN idemKeys ELSE idemKeys \cup {r.source}
        /\ FinishRequest(x)
        /\ UNCHANGED <<nextNumber, voided>>

\* allocate_payment: from what is unapplied of a payment, to any open invoice.
AllocatePayment(p, i, a) ==
    /\ LedgerUnlocked
    /\ a <= payment[p].unapplied
    /\ ApplyAllocation(p, i, a)
    /\ payment' = [payment EXCEPT ![p].unapplied = @ - a]
    /\ credit' = [credit EXCEPT ![p] = @ - a]
    /\ UNCHANGED <<nextNumber, idemKeys, request, voided>>

\* create_credit_note locks the invoice.
CreateCreditNote(i, a) ==
    /\ LedgerUnlocked
    /\ CanAllocate(i, a)
    /\ invoice' = [invoice EXCEPT ![i] = BalanceAndStatus([invoice[i] EXCEPT !.credited = @ + a])]
    /\ receivable' = [receivable EXCEPT ![i] = @ - a]
    /\ UNCHANGED <<payments, nextNumber, credit, request, voided>>

-----------------------------------------------------------------------------

ReceivablesNext ==
    \/ \E i \in Invoices, a \in Amounts : CreateInvoice(i, a)
    \/ \E x \in InvoiceTxns, i \in Invoices : UpdateInvoiceRead(x, i)
    \/ \E x \in InvoiceTxns, a \in Amounts : UpdateInvoiceWrite(x, a)
    \/ \E x \in InvoiceTxns, i \in Invoices : IssueInvoiceRead(x, i)
    \/ \E x \in InvoiceTxns : IssueInvoiceWrite(x)
    \/ \E x \in InvoiceTxns, i \in Invoices : SendInvoiceRead(x, i)
    \/ \E x \in InvoiceTxns : SendInvoiceWrite(x)
    \/ \E x \in InvoiceTxns, i \in Invoices : VoidInvoiceRead(x, i)
    \/ \E x \in InvoiceTxns : VoidInvoiceWrite(x)
    \/ \E x \in InvoiceTxns, i \in Invoices \cup {NoInvoice}, a \in Amounts,
          k \in PaymentKeys \cup {NoKey} : RecordPaymentRead(x, i, a, k)
    \/ \E x \in InvoiceTxns, i \in Invoices \cup {NoInvoice}, a \in Amounts,
          k \in PaymentKeys : StripeWebhookRead(x, i, a, k)
    \/ \E x \in InvoiceTxns, p \in Payments : PaymentWrite(x, p)
    \/ \E p \in Payments, i \in Invoices, a \in Amounts : AllocatePayment(p, i, a)
    \/ \E i \in Invoices, a \in Amounts : CreateCreditNote(i, a)

-----------------------------------------------------------------------------
(* Properties *)

\* The ledger agrees with the documents: whatever the order in which requests
\* read and write an invoice, what the journal holds as receivable for it is its
\* balance, which is its total less what was paid and credited, and what it holds
\* as a customer's credit is what is unapplied of the payment.  A void does not
\* reverse the entry, so nothing is said of an invoice that was voided.
LedgerMatchesDocuments ==
    /\ \A i \in Invoices \ voided :
          /\ receivable[i] = invoice[i].balance
          /\ invoice[i].number > 0 =>
                invoice[i].balance = invoice[i].total - invoice[i].paid - invoice[i].credited
    /\ \A p \in Payments : credit[p] = payment[p].unapplied

\* An issued invoice's total is the sum of its lines, whatever edit was under
\* way when it was issued.
IssuedTotalMatchesLines ==
    \A i \in Invoices : invoice[i].number > 0 => invoice[i].total = invoice[i].lines

\* A provider event that is delivered again, even while the first delivery is
\* being processed, records one payment.
EventRecordsOnePayment ==
    \A p, q \in Payments :
        payment[p].source = payment[q].source /\ payment[p].source \in {"stripe"} \X PaymentKeys
            => p = q

\* Once issued, an invoice keeps its number, its total and its lines.
IssuedIsImmutable ==
    [][\A i \in Invoices : invoice[i].number > 0 =>
          /\ invoice'[i].number = invoice[i].number
          /\ invoice'[i].total = invoice[i].total
          /\ invoice'[i].lines = invoice[i].lines]_receivablesVars

=============================================================================
