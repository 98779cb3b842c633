------------------------------ MODULE SalesDeals ------------------------------
(***************************************************************************)
(* A deal, a sales contract and the status of a sales order in the CRM     *)
(* service.  Their handlers read the row without a lock and write it by id *)
(* alone (If-Match is compared with the row that was read): a read step    *)
(* and a write step.  A deal keeps a stage history and emits deal.won.v1   *)
(* and deal.lost.v1; a contract is immutable once published.               *)
(***************************************************************************)
EXTENDS Naturals, Sequences

CONSTANTS
    Stages,       \* open stages of the pipeline
    Terms,        \* contents of a contract
    DealTxns,     \* concurrent requests
    MaxMoves      \* bound on the rows of sales_deal_stage_history and on events

ASSUME SalesDealsAssumption == MaxMoves \in Nat /\ Stages \cap {"won", "lost"} = {}

VARIABLES
    deal,         \* sales_deal: status, stage, stage history, events
    salesContract, \* sales_contract: status, terms, published_at is set
    orderStatus,  \* sales_order.status
    dealing,      \* what each request has read
    staleDeal,    \* history: the deal was written from an old read
    staleDoc      \* history: the contract or the order was

salesDealsVars == <<deal, salesContract, orderStatus, dealing, staleDeal, staleDoc>>

NotDealing == [op |-> "idle"]
NoDealRow == [status |-> "none", stage |-> "none", moves |-> <<>>, events |-> <<>>]
AllStages == Stages \cup {"won", "lost"}

SalesDealsTypeOK ==
    /\ deal.status \in {"none", "open", "won", "lost"} /\ deal.stage \in AllStages \cup {"none"}
    /\ deal.moves \in Seq(AllStages \X AllStages) /\ deal.events \in Seq({"won", "lost"})
    /\ salesContract \in [status : {"none", "draft", "active", "cancelled"}, terms : Terms \cup {"none"}, published : BOOLEAN]
    /\ orderStatus \in {"draft", "confirmed", "fulfilled", "cancelled"}
    /\ DOMAIN dealing = DealTxns
    /\ staleDeal \in BOOLEAN /\ staleDoc \in BOOLEAN

SalesDealsInit ==
    /\ deal = NoDealRow
    /\ salesContract = [status |-> "none", terms |-> "none", published |-> FALSE]
    /\ orderStatus = "draft"
    /\ dealing = [x \in DealTxns |-> NotDealing]
    /\ staleDeal = FALSE /\ staleDoc = FALSE

Deal(x, what) ==
    /\ dealing[x] = NotDealing
    /\ dealing' = [dealing EXCEPT ![x] = what]
    /\ UNCHANGED <<deal, salesContract, orderStatus, staleDeal, staleDoc>>

EndDealing(x) == dealing' = [dealing EXCEPT ![x] = NotDealing]

-----------------------------------------------------------------------------
(* Deals *)

\* create_deal: in the first open stage of the pipeline, or the one given.
CreateDeal(stage) ==
    /\ deal.status = "none"
    /\ deal' = [deal EXCEPT !.status = "open", !.stage = stage]
    /\ UNCHANGED <<salesContract, orderStatus, dealing, staleDeal, staleDoc>>

\* A row of sales_deal_stage_history, when the stage differs from the one read.
Moved(from, to) == IF from = to THEN deal.moves ELSE Append(deal.moves, <<from, to>>)

\* update_deal may move a deal of any status to any stage.
UpdateDealRead(x, stage) ==
    /\ deal.status # "none" /\ Len(deal.moves) < MaxMoves
    /\ Deal(x, [op |-> "move", from |-> deal.stage, to |-> stage])

\* win_deal and lose_deal: only the same outcome is a repetition.
CloseDealRead(x, outcome) ==
    /\ deal.status \notin {"none", outcome} /\ Len(deal.moves) < MaxMoves
    /\ Deal(x, [op |-> "close", from |-> deal.stage, to |-> outcome, status |-> deal.status])

WriteDeal(x, status, events) ==
    LET read == dealing[x]
    IN  /\ Len(deal.moves) < MaxMoves
        /\ deal' = [status |-> status, stage |-> read.to, moves |-> Moved(read.from, read.to), events |-> events]
        /\ EndDealing(x)
        /\ UNCHANGED <<salesContract, orderStatus, staleDoc>>

UpdateDealWrite(x) ==
    /\ dealing[x].op = "move"
    /\ WriteDeal(x, deal.status, deal.events)
    /\ staleDeal' = (staleDeal \/ deal.stage # dealing[x].from)

CloseDealWrite(x) ==
    /\ dealing[x].op = "close"
    /\ Len(deal.events) < MaxMoves
    /\ WriteDeal(x, dealing[x].to, Append(deal.events, dealing[x].to))
    /\ staleDeal' = (staleDeal \/ deal.stage # dealing[x].from \/ deal.status # dealing[x].status)

-----------------------------------------------------------------------------
(* Contracts *)

CreateContract(terms) ==
    /\ salesContract.status = "none"
    /\ salesContract' = [status |-> "draft", terms |-> terms, published |-> FALSE]
    /\ UNCHANGED <<deal, orderStatus, dealing, staleDeal, staleDoc>>

\* update_contract: a cancelled contract may become a draft again.
UpdateContractRead(x, terms, status) ==
    /\ salesContract.status \in {"draft", "cancelled"} /\ ~salesContract.published
    /\ Deal(x, [op |-> "contract", terms |-> terms, to |-> status, seen |-> salesContract.published])

UpdateContractWrite(x) ==
    /\ dealing[x].op = "contract"
    /\ salesContract' = [salesContract EXCEPT !.status = dealing[x].to, !.terms = dealing[x].terms]
    /\ staleDoc' = (staleDoc \/ salesContract.published # dealing[x].seen)
    /\ EndDealing(x)
    /\ UNCHANGED <<deal, orderStatus, staleDeal>>

PublishContractRead(x) ==
    /\ salesContract.status = "draft"
    /\ Deal(x, [op |-> "publish", seen |-> salesContract.status])

PublishContractWrite(x) ==
    /\ dealing[x].op = "publish"
    /\ salesContract' = [salesContract EXCEPT !.status = "active", !.published = TRUE]
    /\ staleDoc' = (staleDoc \/ salesContract.status # dealing[x].seen)
    /\ EndDealing(x)
    /\ UNCHANGED <<deal, orderStatus, staleDeal>>

-----------------------------------------------------------------------------
(* Order status *)

\* valid_status_transition
NextOrderStatuses(status) ==
    CASE status = "draft" -> {"confirmed", "cancelled"}
      [] status = "confirmed" -> {"fulfilled", "cancelled"}
      [] OTHER -> {}

UpdateOrderStatusRead(x, to) ==
    /\ to \in NextOrderStatuses(orderStatus)
    /\ Deal(x, [op |-> "order", from |-> orderStatus, to |-> to])

UpdateOrderStatusWrite(x) ==
    /\ dealing[x].op = "order"
    /\ orderStatus' = dealing[x].to
    /\ staleDoc' = (staleDoc \/ orderStatus # dealing[x].from)
    /\ EndDealing(x)
    /\ UNCHANGED <<deal, salesContract, staleDeal>>

\* The deal, and the documents: they have only the requests in common.
DealNext ==
    \/ \E stage \in Stages : CreateDeal(stage)
    \/ \E x \in DealTxns, stage \in AllStages : UpdateDealRead(x, stage)
    \/ \E x \in DealTxns, outcome \in {"won", "lost"} : CloseDealRead(x, outcome)
    \/ \E x \in DealTxns : UpdateDealWrite(x) \/ CloseDealWrite(x)

DocumentNext ==
    \/ \E terms \in Terms : CreateContract(terms)
    \/ \E x \in DealTxns, terms \in Terms, status \in {"draft", "cancelled"} : UpdateContractRead(x, terms, status)
    \/ \E x \in DealTxns, to \in {"confirmed", "fulfilled", "cancelled"} : UpdateOrderStatusRead(x, to)
    \/ \E x \in DealTxns : \/ UpdateContractWrite(x) \/ PublishContractRead(x) \/ PublishContractWrite(x)
                           \/ UpdateOrderStatusWrite(x)

SalesDealsNext == DealNext \/ DocumentNext

-----------------------------------------------------------------------------
(* Properties *)

\* The stage history is a chain that ends in the deal's stage, and the events
\* alternate and end in its status (a repeated win emits no second
\* deal.won.v1), unless the deal was written from an old read.
DealHistoryIsAChain ==
    ~staleDeal =>
        LET moves == deal.moves
            events == deal.events
        IN  /\ \A n \in 1..(Len(moves) - 1) : moves[n][2] = moves[n + 1][1]
            /\ moves # <<>> => moves[Len(moves)][2] = deal.stage
            /\ \A n \in 1..(Len(events) - 1) : events[n] # events[n + 1]
            /\ deal.status \in {"won", "lost"} <=> events # <<>>
            /\ events # <<>> => events[Len(events)] = deal.status

\* A published contract keeps its terms and stays active, and a fulfilled or
\* cancelled order keeps its status, unless the writer had read an older row.
SettledDocumentsStay ==
    [][/\ salesContract.published => salesContract' = salesContract \/ staleDoc'
       /\ orderStatus \in {"fulfilled", "cancelled"} => orderStatus' = orderStatus \/ staleDoc']_salesDealsVars

=============================================================================
