----------------------------- MODULE SalesQuotes -----------------------------
(***************************************************************************)
(* Quotes and sales orders of the CRM service.  Every handler reads the    *)
(* quote without a lock and writes it by id alone: a read step and a write *)
(* step.  Sending a quote whose discount reaches the threshold asks the    *)
(* approval service, inside the transaction, and holds the quote.  The     *)
(* callbacks that release it are ordinary routes: the approval service's   *)
(* call may be lost or repeated or arrive before the hold is committed,    *)
(* and whoever may update quotes can call them with no decision behind.    *)
(* Amounts are abstracted to the discount.                                 *)
(***************************************************************************)
EXTENDS Naturals, FiniteSets

CONSTANTS
    Quotes,        \* sales_quote ids
    SalesOrders,   \* sales_order ids
    QuoteTxns,     \* concurrent requests
    Discounts,     \* discounts of a quote
    Threshold,     \* QUOTE_DISCOUNT_APPROVAL_THRESHOLD_BPS
    NoQuote

ASSUME SalesQuotesAssumption ==
    Discounts \subseteq Nat /\ Threshold \in Nat /\ NoQuote \notin Quotes

VARIABLES
    quote,         \* sales_quote: status, discount of its lines, whether it has a next version
    discountApproval, \* the approval service: approval of each quote's discount
    salesOrder,    \* sales_order: quote, lines (its status is in SalesDeals)
    quoting,       \* what each request has read
    staleQuotes,   \* history: quotes written by a request that had read another status
    slipped        \* history: quotes accepted as a draft, edited after they were sent, or
                   \* released by a callback with no approved discount behind it

salesQuotesVars == <<quote, discountApproval, salesOrder, quoting, staleQuotes, slipped>>
quoteHistory == <<staleQuotes, slipped>>

NotQuoting == [op |-> "idle"]
NoQuoteRow == [status |-> "none", lines |-> 0, forks |-> 0]
NoOrderRow == [status |-> "none", quote |-> NoQuote, lines |-> 0, copied |-> FALSE]
QuoteStatuses == {"none", "draft", "sent", "pending_approval", "accepted", "rejected"}

SalesQuotesTypeOK ==
    /\ quote \in [Quotes -> [status : QuoteStatuses, lines : Nat, forks : Nat]]
    /\ discountApproval \in [Quotes -> {"none", "pending", "approved", "rejected"}]
    /\ salesOrder \in [SalesOrders -> [status : {"none", "draft"}, quote : Quotes \cup {NoQuote}, lines : Nat, copied : BOOLEAN]]
    /\ DOMAIN quoting = QuoteTxns
    /\ staleQuotes \subseteq Quotes /\ slipped \subseteq Quotes

SalesQuotesInit ==
    /\ quote = [q \in Quotes |-> NoQuoteRow]
    /\ discountApproval = [q \in Quotes |-> "none"]
    /\ salesOrder = [o \in SalesOrders |-> NoOrderRow]
    /\ quoting = [x \in QuoteTxns |-> NotQuoting]
    /\ staleQuotes = {} /\ slipped = {}

\* What a request keeps of its read: the status, and what it computed from the row.
ReadQuote(x, op, q, more) ==
    /\ quoting[x] = NotQuoting
    /\ quoting' = [quoting EXCEPT ![x] = [op |-> op, quote |-> q, status |-> quote[q].status, more |-> more]]
    /\ UNCHANGED <<quote, discountApproval, salesOrder, quoteHistory>>

EndQuoting(x) == quoting' = [quoting EXCEPT ![x] = NotQuoting]

\* The history of a write to the quote that was read.
Written(x, slips) ==
    LET q == quoting[x].quote
    IN  /\ staleQuotes' = IF quote[q].status # quoting[x].status THEN staleQuotes \cup {q} ELSE staleQuotes
        /\ slipped' = IF slips THEN slipped \cup {q} ELSE slipped

-----------------------------------------------------------------------------
(* Drafting *)

CreateQuote(q, d) ==
    /\ quote[q].status = "none"
    /\ quote' = [quote EXCEPT ![q] = [status |-> "draft", lines |-> d, forks |-> 0]]
    /\ UNCHANGED <<discountApproval, salesOrder, quoting, quoteHistory>>

UpdateQuoteRead(x, q) ==
    /\ quote[q].status # "none"
    /\ ReadQuote(x, "update", q, "none")

\* An accepted quote is left alone: its next version is a new draft (whose own
\* life is that of any quote), which the unique (number, version) allows once.
ForkAccepted(x) ==
    LET q == quoting[x].quote
    IN  /\ quoting[x].op = "update" /\ quoting[x].status = "accepted"
        /\ quote[q].forks = 0
        /\ quote' = [quote EXCEPT ![q].forks = @ + 1]
        /\ EndQuoting(x)
        /\ UNCHANGED <<discountApproval, salesOrder, quoteHistory>>

\* Any other status is edited in place.
UpdateQuoteWrite(x, d) ==
    LET read == quoting[x]
        q == read.quote
        sending == \E y \in QuoteTxns : quoting[y].op \in {"send", "hold"} /\ quoting[y].quote = q
    IN  /\ read.op = "update" /\ read.status # "accepted"
        /\ quote' = [quote EXCEPT ![q].lines = d]
        /\ Written(x, quote[q].status # "draft" \/ sending)
        /\ EndQuoting(x)
        /\ UNCHANGED <<discountApproval, salesOrder>>

-----------------------------------------------------------------------------
(* Sending, and the discount's approval *)

MustHold(d) == d >= Threshold /\ d > 0

SendQuoteRead(x, q) ==
    /\ quote[q].status \in {"draft", "sent"}
    /\ ReadQuote(x, "send", q, MustHold(quote[q].lines))

\* request_quote_discount_approval: an existing approval is answered whatever
\* its status is; a failed call is not noticed.
AskForApproval(x, reached) ==
    LET q == quoting[x].quote
    IN  /\ quoting[x].op = "send" /\ quoting[x].more
        /\ discountApproval' = IF reached /\ discountApproval[q] = "none"
                               THEN [discountApproval EXCEPT ![q] = "pending"] ELSE discountApproval
        /\ quoting' = [quoting EXCEPT ![x].op = "hold"]
        /\ UNCHANGED <<quote, salesOrder, quoteHistory>>

SendQuoteWrite(x) ==
    /\ \/ quoting[x].op = "hold" /\ quote' = [quote EXCEPT ![quoting[x].quote].status = "pending_approval"]
       \/ quoting[x].op = "send" /\ ~quoting[x].more
          /\ quote' = [quote EXCEPT ![quoting[x].quote].status = "sent"]
    /\ Written(x, FALSE)
    /\ EndQuoting(x)
    /\ UNCHANGED <<discountApproval, salesOrder>>

\* The approval service decides, and calls approval_complete or
\* approval_reject of this service once.
DecideDiscount(q, outcome) ==
    /\ discountApproval[q] = "pending"
    /\ discountApproval' = [discountApproval EXCEPT ![q] = outcome]
    /\ UNCHANGED <<quote, salesOrder, quoting, quoteHistory>>

\* approval_complete and approval_reject, called by anybody who may update
\* quotes: no handler asks what was decided.  A quote that is not held is
\* answered as it is.
ApprovalCallback(x, q, outcome) ==
    /\ quote[q].status = "pending_approval"
    /\ ReadQuote(x, "callback", q, outcome)

\* A release that no approved discount stands behind.
Unbacked(x) ==
    quoting[x].more = "approved" /\ discountApproval[quoting[x].quote] # "approved"

\* Mutant: whatever the approval decided, the quote goes out.
ApprovalCallbackWriteSends(x) ==
    /\ quoting[x].op = "callback"
    /\ quote' = [quote EXCEPT ![quoting[x].quote].status = "sent"]
    /\ Written(x, Unbacked(x))
    /\ EndQuoting(x)
    /\ UNCHANGED <<discountApproval, salesOrder>>

ApprovalCallbackWrite(x) ==
    /\ quoting[x].op = "callback"
    /\ quote' = [quote EXCEPT ![quoting[x].quote].status =
                    IF quoting[x].more = "approved" THEN "sent" ELSE "rejected"]
    /\ Written(x, Unbacked(x))
    /\ EndQuoting(x)
    /\ UNCHANGED <<discountApproval, salesOrder>>

-----------------------------------------------------------------------------
(* The customer's answer *)

\* accept_quote refuses rejected and held quotes, not drafts.
AcceptQuoteRead(x, q) ==
    /\ quote[q].status \in {"draft", "sent"}
    /\ ReadQuote(x, "accept", q, "none")

RejectQuoteRead(x, q) ==
    /\ quote[q].status \in {"draft", "sent", "pending_approval"}
    /\ ReadQuote(x, "reject", q, "none")

AnswerQuoteWrite(x) ==
    LET op == quoting[x].op
    IN  /\ op \in {"accept", "reject"}
        /\ quote' = [quote EXCEPT ![quoting[x].quote].status = IF op = "accept" THEN "accepted" ELSE "rejected"]
        /\ Written(x, op = "accept" /\ quoting[x].status = "draft")
        /\ EndQuoting(x)
        /\ UNCHANGED <<discountApproval, salesOrder>>

-----------------------------------------------------------------------------
(* Orders *)

Ordered(q) == \E o \in SalesOrders : salesOrder[o].quote = q

\* create_order takes any quote and lines of its own (not kept here),
\* order_from_deal no quote: only the unique index on quote_id refuses.
CreateOrder(o, q) ==
    /\ salesOrder[o].status = "none"
    /\ q = NoQuote \/ ~Ordered(q)
    /\ salesOrder' = [salesOrder EXCEPT ![o] = [status |-> "draft", quote |-> q, lines |-> 0, copied |-> FALSE]]
    /\ UNCHANGED <<quote, discountApproval, quoting, quoteHistory>>

OrderFromQuoteRead(x, q) ==
    /\ quote[q].status = "accepted" /\ ~Ordered(q)
    /\ ReadQuote(x, "order", q, quote[q].lines)

\* The totals are computed again from the lines; the unique index refuses the
\* second order of a quote.
OrderFromQuoteWrite(x, o) ==
    LET read == quoting[x]
    IN  /\ read.op = "order" /\ ~Ordered(read.quote)
        /\ salesOrder[o].status = "none"
        /\ salesOrder' = [salesOrder EXCEPT ![o] = [status |-> "draft", quote |-> read.quote,
                                                    lines |-> read.more, copied |-> TRUE]]
        /\ EndQuoting(x)
        /\ UNCHANGED <<quote, discountApproval, quoteHistory>>

\* A refused insert rolls the request back.
QuoteRequestFails(x) ==
    /\ \/ quoting[x].op = "update" /\ quoting[x].status = "accepted"
       \/ quoting[x].op = "order"
    /\ EndQuoting(x)
    /\ UNCHANGED <<quote, discountApproval, salesOrder, quoteHistory>>

SalesQuotesNext ==
    \/ \E q \in Quotes, d \in Discounts : CreateQuote(q, d)
    \/ \E x \in QuoteTxns, d \in Discounts : UpdateQuoteWrite(x, d)
    \/ \E x \in QuoteTxns, q \in Quotes :
          \/ UpdateQuoteRead(x, q) \/ SendQuoteRead(x, q) \/ AcceptQuoteRead(x, q)
          \/ RejectQuoteRead(x, q) \/ OrderFromQuoteRead(x, q)
    \/ \E x \in QuoteTxns, q \in Quotes, outcome \in {"approved", "rejected"} : ApprovalCallback(x, q, outcome)
    \/ \E q \in Quotes, outcome \in {"approved", "rejected"} : DecideDiscount(q, outcome)
    \/ \E x \in QuoteTxns, b \in BOOLEAN : AskForApproval(x, b)
    \/ \E x \in QuoteTxns : \/ ForkAccepted(x) \/ SendQuoteWrite(x) \/ ApprovalCallbackWrite(x)
                            \/ AnswerQuoteWrite(x) \/ QuoteRequestFails(x)
    \/ \E o \in SalesOrders, q \in Quotes \cup {NoQuote} : CreateOrder(o, q)
    \/ \E x \in QuoteTxns, o \in SalesOrders : OrderFromQuoteWrite(x, o)

-----------------------------------------------------------------------------
(* Properties *)

\* A discount that must be approved reaches the customer only approved, unless
\* the quote was accepted as a draft, edited after it was sent, released by a
\* callback that no decision stands behind, or written from an old read: the
\* approval service's own call, early, late or repeated, never lets one through.
DiscountIsApproved ==
    \A q \in Quotes \ (staleQuotes \cup slipped) :
        (quote[q].status \in {"sent", "accepted"} /\ MustHold(quote[q].lines)) => discountApproval[q] = "approved"

\* A quote has at most one order, and an order made from an accepted quote has
\* the lines that were accepted; an accepted quote has at most one next
\* version and stays accepted.  The exception is a quote written from an old
\* read.
OrderMatchesQuote ==
    /\ \A o, p \in SalesOrders : (o # p /\ salesOrder[o].quote # NoQuote) => salesOrder[o].quote # salesOrder[p].quote
    /\ \A o \in SalesOrders : LET q == salesOrder[o].quote
                              IN  (salesOrder[o].copied /\ q \notin staleQuotes) =>
                                      quote[q].status = "accepted" /\ quote[q].lines = salesOrder[o].lines
    /\ \A q \in Quotes : quote[q].forks <= 1 /\ (quote[q].forks = 1 /\ q \notin staleQuotes => quote[q].status = "accepted")

=============================================================================
