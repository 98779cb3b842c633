----------------------------- MODULE VendorBills -----------------------------
(***************************************************************************)
(* Vendor bills of the finance service and the journal entries that pay    *)
(* them.  pay_vendor_bill reads the bill without a lock and writes the new *)
(* amount it computed: two steps of one transaction.  What keeps payments  *)
(* apart is the upsert of ensure_ledger_accounts, with which each begins:  *)
(* it locks the organization's standard accounts until the commit.         *)
(***************************************************************************)
EXTENDS Naturals

CONSTANTS
    Bills,       \* finance_vendor_bill ids
    BillTxns,    \* concurrent pay requests
    BillAmount   \* amount_minor of a bill

ASSUME VendorBillsAssumption == BillAmount \in Nat \ {0}

VARIABLES
    bill,         \* finance_vendor_bill: status and amount_paid_minor
    settled,      \* journal: what was debited to accounts payable, per bill
    paying        \* what each request has read

vendorBillsVars == <<bill, settled, paying>>

NotPaying == [bill |-> "none"]

VendorBillsTypeOK ==
    /\ bill \in [Bills -> [status : {"none", "open", "partially_paid", "paid"}, paid : 0..BillAmount]]
    /\ settled \in [Bills -> Nat]
    /\ DOMAIN paying = BillTxns

VendorBillsInit ==
    /\ bill = [b \in Bills |-> [status |-> "none", paid |-> 0]]
    /\ settled = [b \in Bills |-> 0]
    /\ paying = [x \in BillTxns |-> NotPaying]

CreateVendorBill(b) ==
    /\ bill[b].status = "none"
    /\ bill' = [bill EXCEPT ![b].status = "open"]
    /\ UNCHANGED <<settled, paying>>

\* Mutant: any amount is taken while the bill is open.
PayVendorBillReadUnchecked(x, b, a) ==
    /\ \A y \in BillTxns : paying[y] = NotPaying
    /\ bill[b].status \in {"open", "partially_paid"}
    /\ paying' = [paying EXCEPT ![x] = [bill |-> b, amount |-> a, seen |-> bill[b]]]
    /\ UNCHANGED <<bill, settled>>

\* Mutant: the accounts are not locked first.
PayVendorBillReadUnlocked(x, b, a) ==
    /\ paying[x] = NotPaying
    /\ bill[b].status \in {"open", "partially_paid"}
    /\ a <= BillAmount - bill[b].paid
    /\ paying' = [paying EXCEPT ![x] = [bill |-> b, amount |-> a, seen |-> bill[b]]]
    /\ UNCHANGED <<bill, settled>>

\* pay_vendor_bill: the lock on the accounts, fetch_bill, and the outstanding
\* amount that the payment may not exceed.
PayVendorBillRead(x, b, a) ==
    /\ \A y \in BillTxns : paying[y] = NotPaying
    /\ bill[b].status \in {"open", "partially_paid"}
    /\ a <= BillAmount - bill[b].paid
    /\ paying' = [paying EXCEPT ![x] = [bill |-> b, amount |-> a, seen |-> bill[b]]]
    /\ UNCHANGED <<bill, settled>>

\* The entry, and the new amount computed from the one that was read.
PayVendorBillWrite(x) ==
    LET b == paying[x].bill
        paid == paying[x].seen.paid + paying[x].amount
    IN  /\ paying[x] # NotPaying
        /\ settled' = [settled EXCEPT ![b] = @ + paying[x].amount]
        /\ bill' = [bill EXCEPT ![b] = [status |-> IF paid >= BillAmount THEN "paid" ELSE "partially_paid",
                                        paid |-> paid]]
        /\ paying' = [paying EXCEPT ![x] = NotPaying]

VendorBillsNext ==
    \/ \E b \in Bills : CreateVendorBill(b)
    \/ \E x \in BillTxns, b \in Bills, a \in 1..BillAmount : PayVendorBillRead(x, b, a)
    \/ \E x \in BillTxns : PayVendorBillWrite(x)

-----------------------------------------------------------------------------
\* A bill is debited to accounts payable for what it was paid, and never for
\* more than it is worth, however many payments of it are requested at once.
BillSettledOnce ==
    \A b \in Bills : settled[b] = bill[b].paid /\ settled[b] <= BillAmount

=============================================================================
