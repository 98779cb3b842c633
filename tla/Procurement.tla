----------------------------- MODULE Procurement -----------------------------
(***************************************************************************)
(* Purchase requests, purchase orders and goods receipts of the inventory  *)
(* service, for an order with one line.  Every handler reads the status    *)
(* without a lock and writes it unconditionally: a read step and a write   *)
(* step.  Posting a receipt moves stock under a key of the receipt line,   *)
(* adds to the line's qty_received, and calls the finance service, which   *)
(* answers a repeated source with the journal it has.  With one line the   *)
(* sums that post_receipt computes over the order's lines are the line's   *)
(* own; two receipts of two lines of one order, whose sums can each miss   *)
(* the other's line, are outside this module.                              *)
(***************************************************************************)
EXTENDS Naturals, FiniteSets, FiniteSetsExt

CONSTANTS
    Orders,       \* inventory_purchase_order ids
    Receipts,     \* inventory_goods_receipt ids
    BuyTxns,      \* concurrent requests
    QtyOrdered,   \* qty_ordered of the line
    NoOrder

ASSUME ProcurementAssumption ==
    QtyOrdered \in Nat \ {0} /\ NoOrder \notin Orders /\ IsFiniteSet(Receipts)

VARIABLES
    purchaseRequest,      \* inventory_purchase_request: status
    order,        \* inventory_purchase_order: status, from the request, qty_received
    receipt,      \* inventory_goods_receipt: status, order and quantity
    movedFor,     \* stock movements: receipts that have one
    receiptJournal, \* finance: receipts with a journal
    buying,       \* what each request has read
    twicePosted,  \* history: receipts posted by two requests
    reopened      \* history: requests or orders whose status was written from an old read

procurementVars == <<purchaseRequest, order, receipt, movedFor, receiptJournal, buying,
                     twicePosted, reopened>>

stockAndLedger == <<movedFor, receiptJournal>>
NotBuying == [op |-> "idle"]
OrderStatuses == {"none", "draft", "issued", "partially_received", "received"}

ProcurementTypeOK ==
    /\ purchaseRequest \in {"none", "draft", "pending_approval", "approved", "rejected", "converted"}
    /\ order \in [Orders -> [status : OrderStatuses, requested : BOOLEAN, received : Nat]]
    /\ receipt \in [Receipts -> [status : {"none", "draft", "posted"}, order : Orders \cup {NoOrder}, qty : Nat]]
    /\ movedFor \subseteq Receipts /\ receiptJournal \subseteq Receipts
    /\ DOMAIN buying = BuyTxns
    /\ twicePosted \subseteq Receipts /\ reopened \in BOOLEAN

ProcurementInit ==
    /\ purchaseRequest = "none"
    /\ order = [o \in Orders |-> [status |-> "none", requested |-> FALSE, received |-> 0]]
    /\ receipt = [g \in Receipts |-> [status |-> "none", order |-> NoOrder, qty |-> 0]]
    /\ movedFor = {} /\ receiptJournal = {}
    /\ buying = [x \in BuyTxns |-> NotBuying]
    /\ twicePosted = {} /\ reopened = FALSE

Buy(x, what) ==
    /\ buying[x] = NotBuying
    /\ buying' = [buying EXCEPT ![x] = what]

Bought(x) == buying' = [buying EXCEPT ![x] = NotBuying]

-----------------------------------------------------------------------------
(* Purchase requests *)

CreatePurchaseRequest ==
    /\ purchaseRequest = "none" /\ purchaseRequest' = "draft"
    /\ UNCHANGED <<order, receipt, stockAndLedger, buying, twicePosted, reopened>>

\* submit_purchase_request asks the approval service between the two.
SubmitRequestRead(x) ==
    /\ purchaseRequest = "draft"
    /\ Buy(x, [op |-> "submit", seen |-> purchaseRequest])
    /\ UNCHANGED <<purchaseRequest, order, receipt, stockAndLedger, twicePosted, reopened>>

SubmitRequestWrite(x) ==
    /\ buying[x].op = "submit"
    /\ purchaseRequest' = "pending_approval"
    /\ reopened' = (reopened \/ purchaseRequest # buying[x].seen)
    /\ Bought(x)
    /\ UNCHANGED <<order, receipt, stockAndLedger, twicePosted>>

\* decide_purchase_request: a decided request is answered as it is.
DecideRequestRead(x) ==
    /\ purchaseRequest \in {"draft", "pending_approval"}
    /\ Buy(x, [op |-> "decide", seen |-> purchaseRequest])
    /\ UNCHANGED <<purchaseRequest, order, receipt, stockAndLedger, twicePosted, reopened>>

DecideRequestWrite(x, approve) ==
    /\ buying[x].op = "decide"
    /\ purchaseRequest' = IF approve THEN "approved" ELSE "rejected"
    /\ reopened' = (reopened \/ purchaseRequest \notin {buying[x].seen, "pending_approval"})
    /\ Bought(x)
    /\ UNCHANGED <<order, receipt, stockAndLedger, twicePosted>>

-----------------------------------------------------------------------------
(* Purchase orders *)

\* create_purchase_order, alone or from an approved request.
CreateOrderRead(x, o, requested) ==
    /\ order[o].status = "none"
    /\ \A y \in BuyTxns : buying[y].op = "order" => buying[y].order # o
    /\ requested => purchaseRequest = "approved"
    /\ Buy(x, [op |-> "order", order |-> o, requested |-> requested, seen |-> purchaseRequest])
    /\ UNCHANGED <<purchaseRequest, order, receipt, stockAndLedger, twicePosted, reopened>>

CreateOrderWrite(x) ==
    LET requested == buying[x].requested
    IN  /\ buying[x].op = "order"
        /\ order' = [order EXCEPT ![buying[x].order] =
                        [status |-> "draft", requested |-> requested, received |-> 0]]
        /\ purchaseRequest' = IF requested THEN "converted" ELSE purchaseRequest
        /\ reopened' = (reopened \/ (requested /\ purchaseRequest # buying[x].seen))
        /\ Bought(x)
        /\ UNCHANGED <<receipt, stockAndLedger, twicePosted>>

IssueOrderRead(x, o) ==
    /\ order[o].status = "draft"
    /\ Buy(x, [op |-> "issue", order |-> o, seen |-> order[o].status])
    /\ UNCHANGED <<purchaseRequest, order, receipt, stockAndLedger, twicePosted, reopened>>

IssueOrderWrite(x) ==
    LET o == buying[x].order
    IN  /\ buying[x].op = "issue"
        /\ order' = [order EXCEPT ![o].status = "issued"]
        /\ reopened' = (reopened \/ order[o].status # buying[x].seen)
        /\ Bought(x)
        /\ UNCHANGED <<purchaseRequest, receipt, stockAndLedger, twicePosted>>

-----------------------------------------------------------------------------
(* Goods receipts *)

\* create_goods_receipt compares with what was received so far; drafts of other
\* receipts are not counted.
CreateReceiptRead(x, o, qty) ==
    /\ order[o].status \in {"issued", "partially_received"}
    /\ qty <= QtyOrdered - order[o].received
    /\ Buy(x, [op |-> "receive", order |-> o, qty |-> qty])
    /\ UNCHANGED <<purchaseRequest, order, receipt, stockAndLedger, twicePosted, reopened>>

CreateReceiptWrite(x, g) ==
    /\ buying[x].op = "receive"
    /\ receipt[g].status = "none"
    /\ receipt' = [receipt EXCEPT ![g] = [status |-> "draft", order |-> buying[x].order, qty |-> buying[x].qty]]
    /\ Bought(x)
    /\ UNCHANGED <<purchaseRequest, order, stockAndLedger, twicePosted, reopened>>

PostReceiptRead(x, g) ==
    /\ receipt[g].status = "draft"
    /\ Buy(x, [op |-> "post", receipt |-> g, seen |-> receipt[g].status])
    /\ UNCHANGED <<purchaseRequest, order, receipt, stockAndLedger, twicePosted, reopened>>

\* A movement that has the key already is replayed; the line is added to again.
PostReceiptWrite(x) ==
    LET g == buying[x].receipt
        o == receipt[g].order
        received == order[o].received + receipt[g].qty
    IN  /\ buying[x].op = "post"
        /\ movedFor' = movedFor \cup {g}
        /\ order' = [order EXCEPT ![o].received = received,
                                  ![o].status = IF received >= QtyOrdered THEN "received"
                                                ELSE "partially_received"]
        /\ receiptJournal' = receiptJournal \cup {g}
        /\ receipt' = [receipt EXCEPT ![g].status = "posted"]
        /\ twicePosted' = IF receipt[g].status # buying[x].seen THEN twicePosted \cup {g} ELSE twicePosted
        /\ Bought(x)
        /\ UNCHANGED <<purchaseRequest, reopened>>

\* The journal is posted before the commit: a lost transaction leaves it, and
\* the next attempt is answered with it.  A refused journal rolls all back.
PostReceiptFails(x, journaled) ==
    /\ buying[x].op = "post"
    /\ receiptJournal' = IF journaled THEN receiptJournal \cup {buying[x].receipt} ELSE receiptJournal
    /\ Bought(x)
    /\ UNCHANGED <<purchaseRequest, order, receipt, movedFor, twicePosted, reopened>>

ProcurementNext ==
    \/ CreatePurchaseRequest
    \/ \E x \in BuyTxns : \/ SubmitRequestRead(x) \/ SubmitRequestWrite(x)
                          \/ DecideRequestRead(x) \/ CreateOrderWrite(x)
                          \/ IssueOrderWrite(x) \/ PostReceiptWrite(x)
    \/ \E x \in BuyTxns, b \in BOOLEAN : DecideRequestWrite(x, b) \/ PostReceiptFails(x, b)
    \/ \E x \in BuyTxns, o \in Orders, requested \in BOOLEAN : CreateOrderRead(x, o, requested)
    \/ \E x \in BuyTxns, o \in Orders : IssueOrderRead(x, o)
    \/ \E x \in BuyTxns, o \in Orders, qty \in 1..QtyOrdered : CreateReceiptRead(x, o, qty)
    \/ \E x \in BuyTxns, g \in Receipts : CreateReceiptWrite(x, g) \/ PostReceiptRead(x, g)

-----------------------------------------------------------------------------
(* Properties *)

PostedFor(o) == {g \in Receipts : receipt[g].status = "posted" /\ receipt[g].order = o}
PostedQty(o) == SumFunction([g \in PostedFor(o) |-> receipt[g].qty])

\* What an order says it received is what its posted receipts brought into
\* stock and into the ledger, and its status follows from that, unless a
\* receipt was posted by two requests at once or a status was written from an
\* old read.
ReceivedMatchesReceipts ==
    /\ \A g \in Receipts : receipt[g].status = "posted" <=> g \in movedFor
    /\ movedFor \subseteq receiptJournal
    /\ twicePosted = {} => \A o \in Orders :
           /\ order[o].received = PostedQty(o)
           /\ ~reopened => (order[o].status = "received" <=> order[o].received >= QtyOrdered)

\* An approved request becomes at most one order, unless its status was written
\* from an old read.
RequestConvertedOnce ==
    ~reopened => LET from == {o \in Orders : order[o].requested}
                 IN  Cardinality(from) = IF purchaseRequest = "converted" THEN 1 ELSE 0

=============================================================================
