--------------------------- MODULE ServicesProofs ---------------------------
(***************************************************************************)
(* Invariants of the services beside the core: sales leads, deals and      *)
(* their documents, quotes, custom objects, the marketplace, the AI        *)
(* service and the workflow engine.  Each has an inductive invariant, a    *)
(* lemma that it holds initially and one that every step keeps it;         *)
(* PlatformProofs puts them together.                                      *)
(***************************************************************************)
EXTENDS SalesQuotes, SalesDeals, SalesLeads, WorkflowEngine, Assistant, CustomObjects,
        Marketplace, FiniteSetTheorems, SequenceTheorems, TLAPS

-----------------------------------------------------------------------------
(* Leads and customers *)

\* Leads, customers and what the requests keep of their reads: a lead that was
\* read is there, and a transition or a conversion read it unconverted.
LeadsSound ==
    /\ lead \in [Leads -> [status : LeadStatuses \cup {"none"}, email : AnyEmail,
                           customer : Customers \cup {NoCustomer}]]
    /\ customer \in [Customers -> [live : BOOLEAN, email : AnyEmail, lead : Leads \cup {"none"}]]
    /\ DOMAIN converting = LeadTxns
    /\ \A x \in LeadTxns :
          /\ converting[x].op \in {"update", "transition", "convert"} =>
                converting[x].lead \in Leads
          /\ converting[x].op \in {"transition", "convert"} =>
                converting[x].status # "converted"
          /\ converting[x].op = "customer" => converting[x].customer \in Customers

SalesLeadsIInv == LeadsSound /\ LeadConvertedOnce /\ OneCustomerPerEmail

\* A request reads: the leads and the customers stay as they are.
LEMMA LeadReadsStep ==
    ASSUME SalesLeadsIInv, NEW x \in LeadTxns, NEW what, LeadReads(x, what),
           /\ what.op \in {"update", "transition", "convert"} => what.lead \in Leads
           /\ what.op \in {"transition", "convert"} => what.status # "converted"
           /\ what.op = "customer" => what.customer \in Customers
    PROVE  SalesLeadsIInv'
  BY DEF SalesLeadsIInv, LeadsSound, LeadConvertedOnce, OneCustomerPerEmail, LeadReads,
     leadHistory

\* A customer gets an address that no other live customer has.
LEMMA FreeEmailStep ==
    ASSUME LeadsSound, OneCustomerPerEmail, NEW c \in Customers, NEW row,
           EmailIsFree(row.email, c),
           customer' = [customer EXCEPT ![c] = row]
    PROVE  OneCustomerPerEmail'
  BY DEF OneCustomerPerEmail, EmailIsFree

\* Every step of leads and customers keeps their invariant.
LEMMA SalesLeadsStep ==
    ASSUME SalesLeadsIInv, SalesLeadsNext
    PROVE  SalesLeadsIInv'
  <1>1. ASSUME NEW l \in Leads, NEW e \in AnyEmail, CreateLead(l, e)
        PROVE  SalesLeadsIInv'
    <2>1. LeadsSound'
      <3>1. lead' = [lead EXCEPT ![l] = [lead[l] EXCEPT !.status = "new", !.email = e]]
        BY <1>1 DEF SalesLeadsIInv, LeadsSound, CreateLead
      <3> QED  BY <1>1, <3>1 DEF SalesLeadsIInv, LeadsSound, CreateLead, LeadStatuses
    <2>3. OneCustomerPerEmail'
      BY <1>1 DEF SalesLeadsIInv, OneCustomerPerEmail, CreateLead
    <2>2. LeadConvertedOnce'
      BY <1>1 DEF SalesLeadsIInv, LeadsSound, LeadConvertedOnce, CreateLead, leadHistory
    <2> QED  BY <2>1, <2>2, <2>3 DEF SalesLeadsIInv
  <1>2. ASSUME NEW x \in LeadTxns, NEW l \in Leads, UpdateLeadRead(x, l) \/ TransitionRead(x, l)
        PROVE  SalesLeadsIInv'
    BY <1>2, LeadReadsStep DEF UpdateLeadRead, TransitionRead
  <1>3. ASSUME NEW x \in LeadTxns, NEW to \in LeadPatches, UpdateLeadWrite(x, to)
        PROVE  SalesLeadsIInv'
    <2>1. LeadsSound' /\ OneCustomerPerEmail'
      BY <1>3, SalesLeadsAssumption DEF SalesLeadsIInv, LeadsSound, OneCustomerPerEmail,
         UpdateLeadWrite, EndConverting, NotConverting, LeadStatuses
    <2>2. LeadConvertedOnce'
      BY <1>3 DEF SalesLeadsIInv, LeadConvertedOnce, UpdateLeadWrite, WrittenLead
    <2> QED  BY <2>1, <2>2 DEF SalesLeadsIInv
  <1>4. ASSUME NEW x \in LeadTxns, NEW to \in {"qualified", "disqualified"},
               TransitionWrite(x, to)
        PROVE  SalesLeadsIInv'
    <2>1. LeadsSound' /\ OneCustomerPerEmail'
      BY <1>4 DEF SalesLeadsIInv, LeadsSound, OneCustomerPerEmail, TransitionWrite,
         EndConverting, NotConverting, LeadStatuses
    <2>2. LeadConvertedOnce'
      BY <1>4 DEF SalesLeadsIInv, LeadsSound, LeadConvertedOnce, TransitionWrite,
         WrittenLead
    <2> QED  BY <2>1, <2>2 DEF SalesLeadsIInv
  <1>5. ASSUME NEW x \in LeadTxns, NEW l \in Leads, NEW force \in BOOLEAN,
               ConvertLeadRead(x, l, force)
        PROVE  SalesLeadsIInv'
    BY <1>5, LeadReadsStep DEF ConvertLeadRead
  <1>6. ASSUME NEW x \in LeadTxns, NEW c \in Customers, ConvertLeadWrite(x, c)
        PROVE  SalesLeadsIInv'
    <2> DEFINE l == converting[x].lead
    <2>1. l \in Leads /\ converting[x].status # "converted"
      BY <1>6 DEF SalesLeadsIInv, LeadsSound, ConvertLeadWrite
    <2>2. LeadsSound'
      BY <1>6, <2>1 DEF SalesLeadsIInv, LeadsSound, ConvertLeadWrite, EndConverting,
         NotConverting, LeadStatuses
    <2>3. OneCustomerPerEmail'
      BY <1>6, FreeEmailStep DEF SalesLeadsIInv, ConvertLeadWrite
    <2>4. ASSUME NEW m \in Leads \ (staleLeads' \cup patchedLeads')
          PROVE  {d \in Customers : customer'[d].lead = m}
                    = IF lead'[m].status = "converted" THEN {lead'[m].customer} ELSE {}
      <3>1. {d \in Customers : customer[d].lead = m}
                = IF lead[m].status = "converted" THEN {lead[m].customer} ELSE {}
        BY <1>6, <2>4 DEF SalesLeadsIInv, LeadConvertedOnce, ConvertLeadWrite, WrittenLead
      <3>2. customer[c].lead = "none" /\ m # "none"
        BY <1>6, SalesLeadsAssumption DEF ConvertLeadWrite, Unused, NoCustomerRow
      <3>3. customer' = [customer EXCEPT ![c] = [live |-> TRUE, email |-> lead[l].email, lead |-> l]]
        BY <1>6 DEF ConvertLeadWrite
      <3>4. CASE m = l
        <4>1. lead[l].status # "converted"
          BY <1>6, <2>1, <2>4, <3>4 DEF ConvertLeadWrite, WrittenLead
        <4>2. \A d \in Customers : customer'[d].lead = m <=> d = c
          BY <3>1, <3>3, <3>4, <4>1 DEF SalesLeadsIInv, LeadsSound
        <4>3. lead'[m].status = "converted" /\ lead'[m].customer = c
          BY <1>6, <2>1, <3>4 DEF ConvertLeadWrite, SalesLeadsIInv, LeadsSound
        <4> QED  BY <4>2, <4>3
      <3>5. CASE m # l
        <4>1. lead'[m] = lead[m]
          BY <1>6, <3>5 DEF ConvertLeadWrite, SalesLeadsIInv, LeadsSound
        <4>2. \A d \in Customers : customer'[d].lead = m <=> customer[d].lead = m
          BY <3>2, <3>3, <3>5
        <4> QED  BY <3>1, <4>1, <4>2
      <3> QED  BY <3>4, <3>5
    <2>5. LeadConvertedOnce'
      BY <2>4 DEF LeadConvertedOnce
    <2> QED  BY <2>2, <2>3, <2>5 DEF SalesLeadsIInv
  <1>7. ASSUME NEW x \in LeadTxns, NEW c \in Customers, UpdateCustomerRead(x, c)
        PROVE  SalesLeadsIInv'
    BY <1>7, LeadReadsStep DEF UpdateCustomerRead
  <1>8. ASSUME NEW x \in LeadTxns, NEW e \in Emails, UpdateCustomerWrite(x, e)
        PROVE  SalesLeadsIInv'
    <2>1. converting[x].customer \in Customers
      BY <1>8 DEF SalesLeadsIInv, LeadsSound, UpdateCustomerWrite
    <2>2. LeadsSound'
      BY <1>8, <2>1 DEF SalesLeadsIInv, LeadsSound, UpdateCustomerWrite, EndConverting,
         NotConverting, AnyEmail
    <2>3. LeadConvertedOnce'
      BY <1>8, <2>1 DEF SalesLeadsIInv, LeadConvertedOnce, UpdateCustomerWrite, leadHistory
    <2>4. OneCustomerPerEmail'
      BY <1>8, <2>1 DEF SalesLeadsIInv, OneCustomerPerEmail, UpdateCustomerWrite,
         EmailIsFree
    <2> QED  BY <2>2, <2>3, <2>4 DEF SalesLeadsIInv
  <1>9. ASSUME NEW x \in LeadTxns, ConversionFails(x)
        PROVE  SalesLeadsIInv'
    BY <1>9 DEF SalesLeadsIInv, LeadsSound, LeadConvertedOnce, OneCustomerPerEmail,
       ConversionFails, EndConverting, NotConverting, leadHistory
  <1>10. ASSUME NEW c \in Customers, NEW e \in AnyEmail, CreateCustomer(c, e)
         PROVE  SalesLeadsIInv'
    <2>1. LeadsSound'
      BY <1>10 DEF SalesLeadsIInv, LeadsSound, CreateCustomer
    <2>2. LeadConvertedOnce'
      BY <1>10 DEF SalesLeadsIInv, LeadConvertedOnce, CreateCustomer, Unused, NoCustomerRow,
         leadHistory
    <2>3. OneCustomerPerEmail'
      BY <1>10, FreeEmailStep DEF SalesLeadsIInv, CreateCustomer
    <2> QED  BY <2>1, <2>2, <2>3 DEF SalesLeadsIInv
  <1>11. ASSUME NEW c \in Customers, DeleteCustomer(c)
         PROVE  SalesLeadsIInv'
    <2>1. LeadsSound'
      BY <1>11 DEF SalesLeadsIInv, LeadsSound, DeleteCustomer
    <2>2. \A d \in Customers : customer'[d].lead = customer[d].lead
      BY <1>11 DEF DeleteCustomer
    <2>3. LeadConvertedOnce'
      BY <1>11, <2>2 DEF SalesLeadsIInv, LeadConvertedOnce, DeleteCustomer, leadHistory
    <2>4. OneCustomerPerEmail'
      BY <1>11 DEF SalesLeadsIInv, OneCustomerPerEmail, DeleteCustomer
    <2> QED  BY <2>1, <2>3, <2>4 DEF SalesLeadsIInv
  <1> QED
    BY <1>1, <1>2, <1>3, <1>4, <1>5, <1>6, <1>7, <1>8, <1>9, <1>10, <1>11
    DEF SalesLeadsNext, ImportCustomer

\* No lead and no customer: the invariant holds initially.
LEMMA SalesLeadsStarts == SalesLeadsInit => SalesLeadsIInv
  BY SalesLeadsAssumption DEF SalesLeadsInit, SalesLeadsIInv, LeadsSound, LeadConvertedOnce,
     OneCustomerPerEmail, NoCustomerRow, NotConverting, AnyEmail, LeadStatuses

\* Stuttering included, every step keeps it.
LEMMA SalesLeadsKeeps == SalesLeadsIInv /\ [SalesLeadsNext]_salesLeadsVars => SalesLeadsIInv'
  <1>1. SalesLeadsIInv /\ UNCHANGED salesLeadsVars => SalesLeadsIInv'
    BY DEF salesLeadsVars, SalesLeadsIInv, LeadsSound, LeadConvertedOnce, OneCustomerPerEmail
  <1> QED  BY <1>1, SalesLeadsStep

-----------------------------------------------------------------------------
(* Deals *)

\* The deal's row, and what its requests have read of it: a deal that is not
\* there has no history.
DealSound ==
    /\ DOMAIN dealing = DealTxns /\ staleDeal \in BOOLEAN
    /\ deal \in [status : {"none", "open", "won", "lost"}, stage : AllStages \cup {"none"},
                 moves : Seq((AllStages \cup {"none"}) \X AllStages), events : Seq({"won", "lost"})]
    /\ deal.status = "none" => deal.moves = <<>> /\ deal.events = <<>>
    /\ \A x \in DealTxns :
          /\ dealing[x].op \in {"move", "close"} =>
                /\ dealing[x].from \in AllStages \cup {"none"} /\ dealing[x].to \in AllStages
                /\ deal.status # "none"
          /\ dealing[x].op = "close" =>
                dealing[x].to \in {"won", "lost"} /\ dealing[x].status # dealing[x].to

DealIInv == DealSound /\ DealHistoryIsAChain

\* A chain grows by a link that starts where it ends.
LEMMA ChainGrows ==
    ASSUME NEW S, NEW moves \in Seq(S), NEW m \in S,
           \A n \in 1..(Len(moves) - 1) : moves[n][2] = moves[n + 1][1],
           moves # <<>> => moves[Len(moves)][2] = m[1]
    PROVE  LET more == Append(moves, m)
           IN  /\ \A n \in 1..(Len(more) - 1) : more[n][2] = more[n + 1][1]
               /\ more # <<>> /\ more[Len(more)][2] = m[2]
  <1> DEFINE more == Append(moves, m)
  <1>1. /\ Len(more) = Len(moves) + 1 /\ more[Len(moves) + 1] = m /\ Len(moves) \in Nat
        /\ \A n \in 1..Len(moves) : more[n] = moves[n]
        /\ more # <<>> /\ (moves # <<>> => Len(moves) > 0)
    BY AppendProperties
  <1>2. ASSUME NEW n \in 1..(Len(more) - 1)
        PROVE  more[n][2] = more[n + 1][1]
    <2>1. CASE n < Len(moves)
      BY <1>1, <2>1
    <2>2. CASE n = Len(moves)
      BY <1>1, <2>2
    <2> QED  BY <1>1, <2>1, <2>2
  <1> HIDE DEF more
  <1> QED  BY <1>1, <1>2

\* Outcomes that alternate go on alternating.
LEMMA AlternationGrows ==
    ASSUME NEW S, NEW events \in Seq(S), NEW e \in S,
           \A n \in 1..(Len(events) - 1) : events[n] # events[n + 1],
           events # <<>> => events[Len(events)] # e
    PROVE  LET more == Append(events, e)
           IN  /\ \A n \in 1..(Len(more) - 1) : more[n] # more[n + 1]
               /\ more # <<>> /\ more[Len(more)] = e
  <1> DEFINE more == Append(events, e)
  <1>1. /\ Len(more) = Len(events) + 1 /\ more[Len(events) + 1] = e /\ Len(events) \in Nat
        /\ \A n \in 1..Len(events) : more[n] = events[n]
        /\ more # <<>> /\ (events # <<>> => Len(events) > 0)
    BY AppendProperties
  <1>2. ASSUME NEW n \in 1..(Len(more) - 1)
        PROVE  more[n] # more[n + 1]
    <2>1. CASE n < Len(events)
      BY <1>1, <2>1
    <2>2. CASE n = Len(events)
      BY <1>1, <2>2
    <2> QED  BY <1>1, <2>1, <2>2
  <1> HIDE DEF more
  <1> QED  BY <1>1, <1>2

\* Every step keeps the history of the deal a chain.
LEMMA DealStep ==
    ASSUME DealIInv, SalesDealsNext
    PROVE  DealIInv'
  <1>1. ASSUME NEW stage \in Stages, CreateDeal(stage)
        PROVE  DealIInv'
    BY <1>1 DEF DealIInv, DealSound, DealHistoryIsAChain, CreateDeal, AllStages
  <1>2. ASSUME NEW x \in DealTxns, NEW stage \in AllStages, UpdateDealRead(x, stage)
        PROVE  DealIInv'
    BY <1>2 DEF DealIInv, DealSound, DealHistoryIsAChain, UpdateDealRead, Deal
  <1>3. ASSUME NEW x \in DealTxns, NEW outcome \in {"won", "lost"}, CloseDealRead(x, outcome)
        PROVE  DealIInv'
    BY <1>3 DEF DealIInv, DealSound, DealHistoryIsAChain, CloseDealRead, Deal, AllStages
  <1>4. ASSUME NEW x \in DealTxns, NEW status, NEW events, WriteDeal(x, status, events),
               dealing[x].op \in {"move", "close"}
        PROVE  /\ deal' = [status |-> status, stage |-> dealing[x].to, moves |-> deal'.moves,
                           events |-> events]
               /\ deal'.moves \in Seq((AllStages \cup {"none"}) \X AllStages)
               /\ dealing' = [dealing EXCEPT ![x] = NotDealing]
               /\ ~staleDeal /\ deal.stage = dealing[x].from =>
                     /\ \A n \in 1..(Len(deal'.moves) - 1) : deal'.moves[n][2] = deal'.moves[n + 1][1]
                     /\ deal'.moves # <<>> => deal'.moves[Len(deal'.moves)][2] = dealing[x].to
    <2> DEFINE read == dealing[x]
               link == <<read.from, read.to>>
               S == (AllStages \cup {"none"}) \X AllStages
    <2>1. /\ deal' = [status |-> status, stage |-> read.to, moves |-> Moved(read.from, read.to),
                      events |-> events]
          /\ dealing' = [dealing EXCEPT ![x] = NotDealing]
      BY <1>4 DEF WriteDeal, EndDealing
    <2>2. read.from \in AllStages \cup {"none"} /\ read.to \in AllStages
             /\ deal.moves \in Seq(S)
      BY <1>4 DEF DealIInv, DealSound
    <2>3. CASE read.from = read.to
      BY <2>1, <2>2, <2>3 DEF Moved, DealIInv, DealHistoryIsAChain
    <2>4. CASE read.from # read.to
      <3>1. deal'.moves = Append(deal.moves, link) /\ link \in S
        BY <2>1, <2>2, <2>4 DEF Moved
      <3>2. link[1] = read.from /\ link[2] = read.to
        OBVIOUS
      <3> HIDE DEF S, link
      <3>3. deal'.moves \in Seq(S)
        BY <2>2, <3>1
      <3>4. ~staleDeal /\ deal.stage = read.from =>
               /\ \A n \in 1..(Len(deal.moves) - 1) : deal.moves[n][2] = deal.moves[n + 1][1]
               /\ deal.moves # <<>> => deal.moves[Len(deal.moves)][2] = link[1]
        BY <3>2 DEF DealIInv, DealHistoryIsAChain
      <3>5. ~staleDeal /\ deal.stage = read.from =>
               /\ \A n \in 1..(Len(deal'.moves) - 1) : deal'.moves[n][2] = deal'.moves[n + 1][1]
               /\ deal'.moves # <<>> => deal'.moves[Len(deal'.moves)][2] = read.to
        BY <2>2, <3>1, <3>2, <3>4
      <3> QED  BY <2>1, <3>3, <3>5 DEF S
    <2> QED  BY <2>3, <2>4
  <1>5. ASSUME NEW x \in DealTxns, UpdateDealWrite(x)
        PROVE  DealIInv'
    <2>1. /\ WriteDeal(x, deal.status, deal.events) /\ dealing[x].op = "move"
          /\ staleDeal' \in BOOLEAN
          /\ ~staleDeal' => ~staleDeal /\ deal.stage = dealing[x].from
      BY <1>5 DEF UpdateDealWrite, DealIInv, DealSound
    <2>2. dealing[x].to \in AllStages /\ deal.status # "none"
      BY <2>1 DEF DealIInv, DealSound
    <2>3. DealSound'
      BY <1>4, <2>1, <2>2 DEF DealIInv, DealSound, NotDealing
    <2>4. DealHistoryIsAChain'
      BY <1>4, <2>1 DEF DealIInv, DealHistoryIsAChain
    <2> QED  BY <2>3, <2>4 DEF DealIInv
  <1>6. ASSUME NEW x \in DealTxns, CloseDealWrite(x)
        PROVE  DealIInv'
    <2> DEFINE to == dealing[x].to
               more == Append(deal.events, to)
    <2>1. /\ WriteDeal(x, to, more) /\ dealing[x].op = "close"
          /\ staleDeal' \in BOOLEAN
          /\ ~staleDeal' => /\ ~staleDeal /\ deal.stage = dealing[x].from
                            /\ deal.status = dealing[x].status
      BY <1>6 DEF CloseDealWrite, DealIInv, DealSound
    <2>2. /\ to \in AllStages /\ to \in {"won", "lost"} /\ dealing[x].status # to
          /\ deal.events \in Seq({"won", "lost"})
      BY <2>1 DEF DealIInv, DealSound
    <2>3. more \in Seq({"won", "lost"})
      BY <2>2
    <2>4. ASSUME ~staleDeal'
          PROVE  /\ \A n \in 1..(Len(more) - 1) : more[n] # more[n + 1]
                 /\ more # <<>> /\ more[Len(more)] = to
      <3>1. /\ \A n \in 1..(Len(deal.events) - 1) : deal.events[n] # deal.events[n + 1]
            /\ deal.events # <<>> => deal.events[Len(deal.events)] # to
        BY <2>1, <2>2, <2>4 DEF DealIInv, DealHistoryIsAChain
      <3> QED  BY <2>2, <3>1
    <2> HIDE DEF more
    <2>5. /\ deal' = [status |-> to, stage |-> to, moves |-> deal'.moves, events |-> more]
          /\ deal'.moves \in Seq((AllStages \cup {"none"}) \X AllStages)
          /\ dealing' = [dealing EXCEPT ![x] = NotDealing]
          /\ ~staleDeal' =>
                /\ \A n \in 1..(Len(deal'.moves) - 1) : deal'.moves[n][2] = deal'.moves[n + 1][1]
                /\ deal'.moves # <<>> => deal'.moves[Len(deal'.moves)][2] = to
      BY <1>4, <2>1
    <2>6. DealSound'
      <3>1. deal' \in [status : {"none", "open", "won", "lost"}, stage : AllStages \cup {"none"},
                       moves : Seq((AllStages \cup {"none"}) \X AllStages), events : Seq({"won", "lost"})]
        BY <2>2, <2>3, <2>5
      <3> QED  BY <2>1, <2>2, <2>5, <3>1 DEF DealIInv, DealSound, NotDealing
    <2>7. DealHistoryIsAChain'
      BY <2>2, <2>4, <2>5 DEF DealHistoryIsAChain
    <2> QED  BY <2>6, <2>7 DEF DealIInv
  <1>7. CASE DocumentNext
    <2>1. ASSUME UNCHANGED <<deal, staleDeal>>, NEW x \in DealTxns, NEW what,
                 what.op \notin {"move", "close"}, dealing' = [dealing EXCEPT ![x] = what]
          PROVE  DealIInv'
      BY <2>1 DEF DealIInv, DealSound, DealHistoryIsAChain
    <2>2. ASSUME NEW terms \in Terms, CreateContract(terms)
          PROVE  DealIInv'
      BY <2>2 DEF CreateContract, DealIInv, DealSound, DealHistoryIsAChain
    <2>3. ASSUME NEW x \in DealTxns, NEW terms \in Terms, NEW status \in {"draft", "cancelled"},
                 UpdateContractRead(x, terms, status)
          PROVE  DealIInv'
      BY <2>1, <2>3 DEF UpdateContractRead, Deal
    <2>4. ASSUME NEW x \in DealTxns, NEW to \in {"confirmed", "fulfilled", "cancelled"},
                 UpdateOrderStatusRead(x, to)
          PROVE  DealIInv'
      BY <2>1, <2>4 DEF UpdateOrderStatusRead, Deal
    <2>5. ASSUME NEW x \in DealTxns, PublishContractRead(x)
          PROVE  DealIInv'
      BY <2>1, <2>5 DEF PublishContractRead, Deal
    <2>6. ASSUME NEW x \in DealTxns,
                 UpdateContractWrite(x) \/ PublishContractWrite(x) \/ UpdateOrderStatusWrite(x)
          PROVE  DealIInv'
      BY <2>1, <2>6 DEF UpdateContractWrite, PublishContractWrite, UpdateOrderStatusWrite,
         EndDealing, NotDealing
    <2> QED  BY <1>7, <2>2, <2>3, <2>4, <2>5, <2>6 DEF DocumentNext
  <1> QED  BY <1>1, <1>2, <1>3, <1>5, <1>6, <1>7 DEF SalesDealsNext, DealNext

\* A deal that is not there has no history.
LEMMA DealStarts == SalesDealsInit => DealIInv
  <1> SUFFICES ASSUME SalesDealsInit PROVE DealIInv
    OBVIOUS
  <1>1. /\ deal = NoDealRow /\ staleDeal = FALSE /\ DOMAIN dealing = DealTxns
        /\ \A x \in DealTxns : dealing[x].op = "idle"
    BY DEF SalesDealsInit, NotDealing
  <1>2. /\ deal.status = "none" /\ deal.stage = "none" /\ deal.moves = <<>>
              /\ deal.events = <<>>
        /\ deal = [status |-> "none", stage |-> "none", moves |-> <<>>, events |-> <<>>]
    BY <1>1 DEF NoDealRow
  <1>3. <<>> \in Seq((AllStages \cup {"none"}) \X AllStages) /\ <<>> \in Seq({"won", "lost"})
    OBVIOUS
  <1>4. DealSound
    BY <1>1, <1>2, <1>3 DEF DealSound
  <1>5. DealHistoryIsAChain
    BY <1>2 DEF DealHistoryIsAChain
  <1> QED  BY <1>4, <1>5 DEF DealIInv

\* Stuttering included, every step keeps the invariant.
LEMMA DealKeeps == DealIInv /\ [SalesDealsNext]_salesDealsVars => DealIInv'
  <1>1. DealIInv /\ UNCHANGED salesDealsVars => DealIInv'
    BY DEF salesDealsVars, DealIInv, DealSound, DealHistoryIsAChain
  <1> QED  BY <1>1, DealStep

-----------------------------------------------------------------------------
(* Sales contracts and orders *)

\* What a request has read of a contract or an order still allows its write,
\* and a published contract is active, unless one was written from an old read.
DocumentsSound ==
    /\ DOMAIN dealing = DealTxns
    /\ DOMAIN salesContract = {"status", "terms", "published"}
    /\ salesContract.published \in BOOLEAN /\ staleDoc \in BOOLEAN
    /\ salesContract.status = "none" => ~salesContract.published
    /\ salesContract.published /\ ~staleDoc => salesContract.status = "active"
    /\ \A x \in DealTxns :
          /\ dealing[x].op = "contract" =>
                /\ dealing[x].seen = FALSE /\ dealing[x].to \in {"draft", "cancelled"}
                /\ salesContract.status # "none"
          /\ dealing[x].op = "publish" =>
                dealing[x].seen = "draft" /\ salesContract.status # "none"
          /\ dealing[x].op = "order" => dealing[x].from \in {"draft", "confirmed"}

\* Every step on a deal or a document keeps DocumentsSound.
LEMMA DocumentsStep ==
    ASSUME DocumentsSound, SalesDealsNext
    PROVE  DocumentsSound'
  <1>1. ASSUME NEW stage \in Stages, CreateDeal(stage)
        PROVE  DocumentsSound'
    BY <1>1 DEF DocumentsSound, CreateDeal
  <1>2. ASSUME NEW x \in DealTxns, NEW stage \in AllStages, UpdateDealRead(x, stage)
        PROVE  DocumentsSound'
    BY <1>2 DEF DocumentsSound, UpdateDealRead, Deal
  <1>3. ASSUME NEW x \in DealTxns, NEW outcome \in {"won", "lost"}, CloseDealRead(x, outcome)
        PROVE  DocumentsSound'
    BY <1>3 DEF DocumentsSound, CloseDealRead, Deal
  <1>4. ASSUME NEW x \in DealTxns, UpdateDealWrite(x) \/ CloseDealWrite(x)
        PROVE  DocumentsSound'
    BY <1>4 DEF DocumentsSound, UpdateDealWrite, CloseDealWrite, WriteDeal, EndDealing,
       NotDealing
  <1>5. ASSUME NEW terms \in Terms, CreateContract(terms)
        PROVE  DocumentsSound'
    BY <1>5 DEF DocumentsSound, CreateContract
  <1>6. ASSUME NEW x \in DealTxns, NEW terms \in Terms, NEW status \in {"draft", "cancelled"},
               UpdateContractRead(x, terms, status)
        PROVE  DocumentsSound'
    BY <1>6 DEF DocumentsSound, UpdateContractRead, Deal
  <1>7. ASSUME NEW x \in DealTxns, UpdateContractWrite(x)
        PROVE  DocumentsSound'
    BY <1>7 DEF DocumentsSound, UpdateContractWrite, EndDealing, NotDealing
  <1>8. ASSUME NEW x \in DealTxns, PublishContractRead(x)
        PROVE  DocumentsSound'
    BY <1>8 DEF DocumentsSound, PublishContractRead, Deal
  <1>9. ASSUME NEW x \in DealTxns, PublishContractWrite(x)
        PROVE  DocumentsSound'
    BY <1>9 DEF DocumentsSound, PublishContractWrite, EndDealing, NotDealing
  <1>10. ASSUME NEW x \in DealTxns, NEW to \in {"confirmed", "fulfilled", "cancelled"},
                UpdateOrderStatusRead(x, to)
         PROVE  DocumentsSound'
    BY <1>10 DEF DocumentsSound, UpdateOrderStatusRead, Deal, NextOrderStatuses
  <1>11. ASSUME NEW x \in DealTxns, UpdateOrderStatusWrite(x)
         PROVE  DocumentsSound'
    BY <1>11 DEF DocumentsSound, UpdateOrderStatusWrite, EndDealing, NotDealing
  <1>q. QED
    BY <1>1, <1>2, <1>3, <1>4, <1>5, <1>6, <1>7, <1>8, <1>9, <1>10, <1>11
    DEF SalesDealsNext, DealNext, DocumentNext

\* What SettledDocumentsStay says of one step.
DocumentsKept ==
    /\ salesContract.published => salesContract' = salesContract \/ staleDoc'
    /\ orderStatus \in {"fulfilled", "cancelled"} => orderStatus' = orderStatus \/ staleDoc'

\* No step changes a settled document, unless it wrote from an old read.
LEMMA SettledStep ==
    ASSUME DocumentsSound, SalesDealsNext
    PROVE  DocumentsKept
  BY DEF DocumentsKept, DocumentsSound, SalesDealsNext, DealNext, DocumentNext, CreateDeal,
     UpdateDealRead, CloseDealRead, Deal, UpdateDealWrite, CloseDealWrite, WriteDeal,
     CreateContract, UpdateContractRead, UpdateContractWrite, PublishContractRead,
     PublishContractWrite, UpdateOrderStatusRead, UpdateOrderStatusWrite

\* A contract that is not there is not published.
LEMMA DocumentsStart == SalesDealsInit => DocumentsSound
  <1> SUFFICES ASSUME SalesDealsInit PROVE DocumentsSound
    OBVIOUS
  <1>1. /\ salesContract = [status |-> "none", terms |-> "none", published |-> FALSE]
              /\ staleDoc = FALSE
        /\ DOMAIN dealing = DealTxns /\ \A x \in DealTxns : dealing[x].op = "idle"
    BY DEF SalesDealsInit, NotDealing
  <1> QED  BY <1>1 DEF DocumentsSound

\* Stuttering included, every step keeps the invariant.
LEMMA DocumentsKeep == DocumentsSound /\ [SalesDealsNext]_salesDealsVars => DocumentsSound'
  <1>1. DocumentsSound /\ UNCHANGED salesDealsVars => DocumentsSound'
    BY DEF salesDealsVars, DocumentsSound
  <1> QED  BY <1>1, DocumentsStep

-----------------------------------------------------------------------------
(* Quotes *)

QuoteRow == [status : QuoteStatuses, lines : Nat, forks : Nat]

QuotesSound ==
    /\ quote \in [Quotes -> QuoteRow] /\ DOMAIN discountApproval = Quotes
    /\ salesOrder \in [SalesOrders -> [status : {"none", "draft"}, quote : Quotes \cup {NoQuote},
                                       lines : Nat, copied : BOOLEAN]]
    /\ \A o \in SalesOrders : salesOrder[o].copied => salesOrder[o].quote \in Quotes

\* What a request has read: a quote that is there; an acceptable one, for a
\* write that may only follow such a read.
ReadsSound ==
    /\ DOMAIN quoting = QuoteTxns
    /\ \A x \in QuoteTxns :
          /\ quoting[x].op # "idle" => quoting[x].quote \in Quotes
          /\ quoting[x].op # "idle" => quote[quoting[x].quote].status # "none"
          /\ quoting[x].op \in {"send", "hold", "accept", "reject", "callback"} =>
                quoting[x].status # "accepted"
          /\ quoting[x].op = "accept" => quoting[x].status \in {"draft", "sent"}
          /\ quoting[x].op = "callback" => quoting[x].more \in {"approved", "rejected"}
          /\ quoting[x].op = "order" => quoting[x].more \in Nat

\* What it has read is still so, unless the quote was written meanwhile: the
\* discount it sends, the accepted quote it copies.
ReadsCurrent ==
    \A x \in QuoteTxns :
        LET read == quoting[x]
            q == read.quote
        IN  /\ read.op = "send" /\ q \notin slipped => (read.more <=> MustHold(quote[q].lines))
            /\ read.op = "order" /\ q \notin staleQuotes =>
                  quote[q].status = "accepted" /\ quote[q].lines = read.more
            /\ read.op = "update" /\ read.status = "accepted" /\ q \notin staleQuotes =>
                  quote[q].status = "accepted"

SalesQuotesIInv ==
    /\ QuotesSound /\ ReadsSound /\ ReadsCurrent /\ DiscountIsApproved /\ OrderMatchesQuote

\* Every step of a quote or an order keeps the invariant.
LEMMA SalesQuotesStep ==
    ASSUME SalesQuotesIInv, SalesQuotesNext
    PROVE  SalesQuotesIInv'
  <1>1. ASSUME NEW q \in Quotes, NEW d \in Discounts, CreateQuote(q, d)
        PROVE  SalesQuotesIInv'
    <2>1. QuotesSound'
      BY <1>1, SalesQuotesAssumption DEF SalesQuotesIInv, QuotesSound, QuoteRow,
         QuoteStatuses, CreateQuote
    <2>2. ReadsSound'
      BY <1>1 DEF SalesQuotesIInv, ReadsSound, CreateQuote
    <2>3. ReadsCurrent'
      BY <1>1 DEF SalesQuotesIInv, ReadsCurrent, ReadsSound, CreateQuote, quoteHistory
    <2>4. DiscountIsApproved'
      BY <1>1 DEF SalesQuotesIInv, DiscountIsApproved, CreateQuote, quoteHistory
    <2>5. OrderMatchesQuote'
      BY <1>1 DEF SalesQuotesIInv, OrderMatchesQuote, CreateQuote, quoteHistory
    <2>q. QED  BY <2>1, <2>2, <2>3, <2>4, <2>5 DEF SalesQuotesIInv
  <1>2. ASSUME NEW x \in QuoteTxns, NEW d \in Discounts, UpdateQuoteWrite(x, d)
        PROVE  SalesQuotesIInv'
    <2>1. QuotesSound'
      BY <1>2, SalesQuotesAssumption DEF SalesQuotesIInv, QuotesSound, ReadsSound, QuoteRow,
         QuoteStatuses, UpdateQuoteWrite
    <2>2. ReadsSound'
      BY <1>2 DEF SalesQuotesIInv, ReadsSound, UpdateQuoteWrite, EndQuoting, NotQuoting
    <2>3. ReadsCurrent'
      BY <1>2 DEF SalesQuotesIInv, ReadsCurrent, UpdateQuoteWrite, Written, EndQuoting,
         NotQuoting
    <2>4. DiscountIsApproved'
      BY <1>2 DEF SalesQuotesIInv, DiscountIsApproved, UpdateQuoteWrite, Written
    <2>5. OrderMatchesQuote'
      BY <1>2 DEF SalesQuotesIInv, OrderMatchesQuote, UpdateQuoteWrite, Written
    <2>q. QED  BY <2>1, <2>2, <2>3, <2>4, <2>5 DEF SalesQuotesIInv
  <1>3. ASSUME NEW x \in QuoteTxns, NEW q \in Quotes, UpdateQuoteRead(x, q)
        PROVE  SalesQuotesIInv'
    <2>1. QuotesSound' /\ DiscountIsApproved' /\ OrderMatchesQuote'
      BY <1>3 DEF SalesQuotesIInv, QuotesSound, DiscountIsApproved, OrderMatchesQuote,
         UpdateQuoteRead, ReadQuote, quoteHistory
    <2>2. ReadsSound'
      BY <1>3 DEF SalesQuotesIInv, ReadsSound, UpdateQuoteRead, ReadQuote
    <2>3. ReadsCurrent'
      BY <1>3 DEF SalesQuotesIInv, ReadsCurrent, UpdateQuoteRead, ReadQuote, quoteHistory
    <2>q. QED  BY <2>1, <2>2, <2>3 DEF SalesQuotesIInv
  <1>4. ASSUME NEW x \in QuoteTxns, NEW q \in Quotes, SendQuoteRead(x, q)
        PROVE  SalesQuotesIInv'
    <2>1. QuotesSound' /\ DiscountIsApproved' /\ OrderMatchesQuote'
      BY <1>4 DEF SalesQuotesIInv, QuotesSound, DiscountIsApproved, OrderMatchesQuote,
         SendQuoteRead, ReadQuote, quoteHistory
    <2>2. ReadsSound'
      BY <1>4 DEF SalesQuotesIInv, ReadsSound, SendQuoteRead, ReadQuote
    <2>3. ReadsCurrent'
      BY <1>4 DEF SalesQuotesIInv, ReadsCurrent, SendQuoteRead, ReadQuote, quoteHistory
    <2>q. QED  BY <2>1, <2>2, <2>3 DEF SalesQuotesIInv
  <1>5. ASSUME NEW x \in QuoteTxns, NEW q \in Quotes, AcceptQuoteRead(x, q)
        PROVE  SalesQuotesIInv'
    <2>1. QuotesSound' /\ DiscountIsApproved' /\ OrderMatchesQuote'
      BY <1>5 DEF SalesQuotesIInv, QuotesSound, DiscountIsApproved, OrderMatchesQuote,
         AcceptQuoteRead, ReadQuote, quoteHistory
    <2>2. ReadsSound'
      BY <1>5 DEF SalesQuotesIInv, ReadsSound, AcceptQuoteRead, ReadQuote
    <2>3. ReadsCurrent'
      BY <1>5 DEF SalesQuotesIInv, ReadsCurrent, AcceptQuoteRead, ReadQuote, quoteHistory
    <2>q. QED  BY <2>1, <2>2, <2>3 DEF SalesQuotesIInv
  <1>6. ASSUME NEW x \in QuoteTxns, NEW q \in Quotes, RejectQuoteRead(x, q)
        PROVE  SalesQuotesIInv'
    <2>1. QuotesSound' /\ DiscountIsApproved' /\ OrderMatchesQuote'
      BY <1>6 DEF SalesQuotesIInv, QuotesSound, DiscountIsApproved, OrderMatchesQuote,
         RejectQuoteRead, ReadQuote, quoteHistory
    <2>2. ReadsSound'
      BY <1>6 DEF SalesQuotesIInv, ReadsSound, RejectQuoteRead, ReadQuote
    <2>3. ReadsCurrent'
      BY <1>6 DEF SalesQuotesIInv, ReadsCurrent, RejectQuoteRead, ReadQuote, quoteHistory
    <2>q. QED  BY <2>1, <2>2, <2>3 DEF SalesQuotesIInv
  <1>7. ASSUME NEW x \in QuoteTxns, NEW q \in Quotes, OrderFromQuoteRead(x, q)
        PROVE  SalesQuotesIInv'
    <2>1. QuotesSound' /\ DiscountIsApproved' /\ OrderMatchesQuote'
      BY <1>7 DEF SalesQuotesIInv, QuotesSound, DiscountIsApproved, OrderMatchesQuote,
         OrderFromQuoteRead, ReadQuote, quoteHistory
    <2>2. ReadsSound'
      BY <1>7 DEF SalesQuotesIInv, ReadsSound, QuotesSound, QuoteRow, OrderFromQuoteRead,
         ReadQuote
    <2>3. ReadsCurrent'
      BY <1>7 DEF SalesQuotesIInv, ReadsCurrent, OrderFromQuoteRead, ReadQuote, quoteHistory
    <2>q. QED  BY <2>1, <2>2, <2>3 DEF SalesQuotesIInv
  <1>8. ASSUME NEW q \in Quotes, NEW outcome \in {"approved", "rejected"},
               DecideDiscount(q, outcome)
        PROVE  SalesQuotesIInv'
    <2>1. OrderMatchesQuote'
      BY <1>8 DEF SalesQuotesIInv, OrderMatchesQuote, DecideDiscount, quoteHistory
    <2>2. QuotesSound'
      BY <1>8 DEF SalesQuotesIInv, QuotesSound, DecideDiscount
    <2>3. ReadsSound'
      BY <1>8 DEF SalesQuotesIInv, ReadsSound, DecideDiscount
    <2>4. ReadsCurrent'
      BY <1>8 DEF SalesQuotesIInv, ReadsCurrent, QuotesSound, ReadsSound, DecideDiscount,
         quoteHistory
    <2>5. DiscountIsApproved'
      BY <1>8 DEF SalesQuotesIInv, DiscountIsApproved, DecideDiscount, quoteHistory
    <2>q. QED  BY <2>1, <2>2, <2>3, <2>4, <2>5 DEF SalesQuotesIInv
  <1>9. ASSUME NEW x \in QuoteTxns, NEW reached \in BOOLEAN, AskForApproval(x, reached)
        PROVE  SalesQuotesIInv'
    <2>1. OrderMatchesQuote'
      BY <1>9 DEF SalesQuotesIInv, OrderMatchesQuote, AskForApproval, quoteHistory
    <2>2. QuotesSound'
      BY <1>9 DEF SalesQuotesIInv, QuotesSound, AskForApproval
    <2>3. ReadsSound'
      BY <1>9 DEF SalesQuotesIInv, ReadsSound, AskForApproval
    <2>4. ReadsCurrent'
      BY <1>9 DEF SalesQuotesIInv, ReadsCurrent, ReadsSound, AskForApproval, quoteHistory
    <2>5. DiscountIsApproved'
      BY <1>9 DEF SalesQuotesIInv, DiscountIsApproved, AskForApproval, quoteHistory
    <2>q. QED  BY <2>1, <2>2, <2>3, <2>4, <2>5 DEF SalesQuotesIInv
  <1>10. ASSUME NEW x \in QuoteTxns, NEW q \in Quotes, NEW outcome \in {"approved", "rejected"},
                ApprovalCallback(x, q, outcome)
         PROVE  SalesQuotesIInv'
    <2>1. QuotesSound' /\ DiscountIsApproved' /\ OrderMatchesQuote'
      BY <1>10 DEF SalesQuotesIInv, QuotesSound, DiscountIsApproved, OrderMatchesQuote,
         ApprovalCallback, ReadQuote, quoteHistory
    <2>2. ReadsSound'
      BY <1>10 DEF SalesQuotesIInv, ReadsSound, ApprovalCallback, ReadQuote
    <2>3. ReadsCurrent'
      BY <1>10 DEF SalesQuotesIInv, ReadsCurrent, ApprovalCallback, ReadQuote, quoteHistory
    <2>q. QED  BY <2>1, <2>2, <2>3 DEF SalesQuotesIInv
  <1>11. ASSUME NEW x \in QuoteTxns, ForkAccepted(x)
        PROVE  SalesQuotesIInv'
    <2>1. QuotesSound'
      BY <1>11 DEF SalesQuotesIInv, QuotesSound, ReadsSound, QuoteRow, ForkAccepted
    <2>2. ReadsSound'
      BY <1>11 DEF SalesQuotesIInv, ReadsSound, ForkAccepted, EndQuoting, NotQuoting
    <2>3. ReadsCurrent'
      BY <1>11 DEF SalesQuotesIInv, ReadsCurrent, ForkAccepted, quoteHistory, EndQuoting,
         NotQuoting
    <2>4. DiscountIsApproved'
      BY <1>11 DEF SalesQuotesIInv, DiscountIsApproved, ForkAccepted, quoteHistory
    <2>5. OrderMatchesQuote'
      BY <1>11 DEF SalesQuotesIInv, OrderMatchesQuote, ReadsCurrent, ForkAccepted,
         quoteHistory
    <2>q. QED  BY <2>1, <2>2, <2>3, <2>4, <2>5 DEF SalesQuotesIInv
  <1>12. ASSUME NEW x \in QuoteTxns, SendQuoteWrite(x)
        PROVE  SalesQuotesIInv'
    <2>1. QuotesSound'
      <3>1. PICK to \in {"pending_approval", "sent"} : quote' = [quote EXCEPT ![quoting[x].quote].status = to]
        BY <1>12 DEF SendQuoteWrite
      <3>2. quoting[x].quote \in Quotes /\ to \in QuoteStatuses
        BY <1>12 DEF SendQuoteWrite, SalesQuotesIInv, ReadsSound, QuoteStatuses
      <3>q. QED
        BY <1>12, <3>1, <3>2 DEF SalesQuotesIInv, QuotesSound, QuoteRow, SendQuoteWrite
    <2>2. ReadsSound'
      <3>1. PICK to \in {"pending_approval", "sent"} : quote' = [quote EXCEPT ![quoting[x].quote].status = to]
        BY <1>12 DEF SendQuoteWrite
      <3>2. quoting' = [quoting EXCEPT ![x] = NotQuoting]
        BY <1>12 DEF SendQuoteWrite, EndQuoting
      <3>q. QED
        BY <3>1, <3>2 DEF SalesQuotesIInv, ReadsSound, NotQuoting
    <2>3. ReadsCurrent'
      <3>1. PICK to : quote' = [quote EXCEPT ![quoting[x].quote].status = to]
        BY <1>12 DEF SendQuoteWrite
      <3>2. /\ quoting' = [quoting EXCEPT ![x] = NotQuoting]
            /\ slipped' = slipped
            /\ quoting[x].status # "accepted"
            /\ staleQuotes' = IF quote[quoting[x].quote].status # quoting[x].status
                              THEN staleQuotes \cup {quoting[x].quote} ELSE staleQuotes
        BY <1>12 DEF SendQuoteWrite, Written, EndQuoting, SalesQuotesIInv, ReadsSound
      <3> QED
        BY <3>1, <3>2 DEF SalesQuotesIInv, ReadsCurrent, QuotesSound, ReadsSound, QuoteRow, NotQuoting
    <2>4. DiscountIsApproved'
      BY <1>12 DEF SalesQuotesIInv, DiscountIsApproved, QuotesSound, ReadsCurrent, QuoteRow,
         SendQuoteWrite, Written
    <2>5. OrderMatchesQuote'
      BY <1>12 DEF SalesQuotesIInv, OrderMatchesQuote, QuotesSound, ReadsSound, QuoteRow,
         QuoteStatuses, SendQuoteWrite, Written
    <2>q. QED  BY <2>1, <2>2, <2>3, <2>4, <2>5 DEF SalesQuotesIInv
  <1>13. ASSUME NEW x \in QuoteTxns, ApprovalCallbackWrite(x)
        PROVE  SalesQuotesIInv'
    <2>1. QuotesSound'
      BY <1>13 DEF SalesQuotesIInv, QuotesSound, ReadsSound, QuoteRow, QuoteStatuses,
         ApprovalCallbackWrite
    <2>2. ReadsSound'
      BY <1>13 DEF SalesQuotesIInv, ReadsSound, ApprovalCallbackWrite, EndQuoting,
         NotQuoting
    <2>3. ReadsCurrent'
      BY <1>13 DEF SalesQuotesIInv, ReadsCurrent, ReadsSound, ApprovalCallbackWrite,
         Written, Unbacked, EndQuoting, NotQuoting
    <2>4. DiscountIsApproved'
      BY <1>13 DEF SalesQuotesIInv, DiscountIsApproved, ReadsCurrent, ApprovalCallbackWrite,
         Written, Unbacked
    <2>5. OrderMatchesQuote'
      BY <1>13 DEF SalesQuotesIInv, OrderMatchesQuote, ReadsSound, ApprovalCallbackWrite,
         Written, Unbacked
    <2>q. QED  BY <2>1, <2>2, <2>3, <2>4, <2>5 DEF SalesQuotesIInv
  <1>14. ASSUME NEW x \in QuoteTxns, AnswerQuoteWrite(x)
        PROVE  SalesQuotesIInv'
    <2>1. QuotesSound'
      BY <1>14 DEF SalesQuotesIInv, QuotesSound, ReadsSound, QuoteRow, QuoteStatuses,
         AnswerQuoteWrite
    <2>2. ReadsSound'
      BY <1>14 DEF SalesQuotesIInv, ReadsSound, AnswerQuoteWrite, EndQuoting, NotQuoting
    <2>3. ReadsCurrent'
      BY <1>14 DEF SalesQuotesIInv, ReadsCurrent, ReadsSound, AnswerQuoteWrite, Written,
         EndQuoting, NotQuoting
    <2>4. DiscountIsApproved'
      BY <1>14 DEF SalesQuotesIInv, DiscountIsApproved, ReadsSound, AnswerQuoteWrite,
         Written
    <2>5. OrderMatchesQuote'
      BY <1>14 DEF SalesQuotesIInv, OrderMatchesQuote, ReadsSound, AnswerQuoteWrite, Written
    <2>q. QED  BY <2>1, <2>2, <2>3, <2>4, <2>5 DEF SalesQuotesIInv
  <1>15. ASSUME NEW x \in QuoteTxns, QuoteRequestFails(x)
        PROVE  SalesQuotesIInv'
    <2>1. QuotesSound' /\ DiscountIsApproved' /\ OrderMatchesQuote'
      BY <1>15 DEF SalesQuotesIInv, QuotesSound, DiscountIsApproved, OrderMatchesQuote,
         QuoteRequestFails, quoteHistory
    <2>2. ReadsSound'
      BY <1>15 DEF SalesQuotesIInv, ReadsSound, QuoteRequestFails, EndQuoting, NotQuoting
    <2>3. ReadsCurrent'
      BY <1>15 DEF SalesQuotesIInv, ReadsCurrent, QuoteRequestFails, quoteHistory,
         EndQuoting, NotQuoting
    <2>q. QED  BY <2>1, <2>2, <2>3 DEF SalesQuotesIInv
  <1>16. ASSUME NEW o \in SalesOrders, NEW q \in Quotes \cup {NoQuote}, CreateOrder(o, q)
        PROVE  SalesQuotesIInv'
    <2>1. ReadsSound' /\ ReadsCurrent' /\ DiscountIsApproved'
      BY <1>16 DEF SalesQuotesIInv, ReadsSound, ReadsCurrent, DiscountIsApproved,
         CreateOrder, quoteHistory
    <2>2. QuotesSound'
      BY <1>16 DEF SalesQuotesIInv, QuotesSound, CreateOrder
    <2>3. OrderMatchesQuote'
      BY <1>16 DEF SalesQuotesIInv, OrderMatchesQuote, CreateOrder, quoteHistory, Ordered
    <2>q. QED  BY <2>1, <2>2, <2>3 DEF SalesQuotesIInv
  <1>17. ASSUME NEW x \in QuoteTxns, NEW o \in SalesOrders, OrderFromQuoteWrite(x, o)
        PROVE  SalesQuotesIInv'
    <2>1. DiscountIsApproved'
      BY <1>17 DEF SalesQuotesIInv, DiscountIsApproved, OrderFromQuoteWrite, quoteHistory
    <2>2. QuotesSound'
      BY <1>17 DEF SalesQuotesIInv, QuotesSound, ReadsSound, OrderFromQuoteWrite
    <2>3. ReadsSound'
      BY <1>17 DEF SalesQuotesIInv, ReadsSound, OrderFromQuoteWrite, EndQuoting, NotQuoting
    <2>4. ReadsCurrent'
      BY <1>17 DEF SalesQuotesIInv, ReadsCurrent, OrderFromQuoteWrite, quoteHistory,
         EndQuoting, NotQuoting
    <2>5. OrderMatchesQuote'
      BY <1>17 DEF SalesQuotesIInv, OrderMatchesQuote, ReadsCurrent, OrderFromQuoteWrite,
         quoteHistory, Ordered
    <2>q. QED  BY <2>1, <2>2, <2>3, <2>4, <2>5 DEF SalesQuotesIInv
  <1>q. QED  BY <1>1, <1>2, <1>3, <1>4, <1>5, <1>6, <1>7, <1>8, <1>9, <1>10, <1>11, <1>12,
                <1>13, <1>14, <1>15, <1>16, <1>17 DEF SalesQuotesNext

\* No quote, no order, no request.
LEMMA SalesQuotesStarts == SalesQuotesInit => SalesQuotesIInv
  BY SalesQuotesAssumption DEF SalesQuotesInit, SalesQuotesIInv, QuotesSound, QuoteRow,
     ReadsSound, ReadsCurrent, DiscountIsApproved, OrderMatchesQuote, NoQuoteRow, NoOrderRow,
     NotQuoting, QuoteStatuses

\* Stuttering included, every step keeps the invariant.
LEMMA SalesQuotesKeep == SalesQuotesIInv /\ [SalesQuotesNext]_salesQuotesVars => SalesQuotesIInv'
  <1>1. SalesQuotesIInv /\ UNCHANGED salesQuotesVars => SalesQuotesIInv'
    BY DEF salesQuotesVars, SalesQuotesIInv, QuotesSound, ReadsSound, ReadsCurrent,
       DiscountIsApproved, OrderMatchesQuote
  <1> QED  BY <1>1, SalesQuotesStep

-----------------------------------------------------------------------------
(* Definitions and packages *)

\* The definitions and what decorates them.
DefinitionsSound ==
    /\ DOMAIN definition = Slugs /\ DOMAIN decor = Slugs
    /\ \A s \in Slugs : DOMAIN definition[s] = {"state", "fields"}
          /\ DOMAIN decor[s] = DecorKinds

\* What a step does to the definitions and their decoration: it keeps their
\* columns and what the organization made of them, and takes nothing away.
WorkKept ==
    \A s \in Slugs :
        /\ \A k \in DecorKinds : /\ decor[s][k] = "own" => decor'[s][k] = "own"
                                 /\ decor[s][k] # "none" => decor'[s][k] # "none"
        /\ IsPublished(s) => definition'[s].state \in {"published", "deleted"}
        /\ pack' # pack /\ Defined(s) => definition'[s].fields = definition[s].fields

\* Definitions stay sound, and no step undoes what the organization made.
LEMMA WorkKeptStep ==
    ASSUME DefinitionsSound, CustomObjectsNext
    PROVE  DefinitionsSound' /\ WorkKept
  <1>1. ASSUME UNCHANGED <<definition, decor>>
        PROVE  DefinitionsSound' /\ WorkKept
    BY <1>1 DEF DefinitionsSound, WorkKept, IsPublished
  <1>2. CASE RecordNext
    <2>1. UNCHANGED <<definition, decor>>
      BY <1>2 DEF RecordNext, CreateRecordRead, CreateRecordWrite, GetRecord, UpdateRecordRead,
         UpdateRecordWrite, CreateRecordRefused, UpdateRecordRefused, DeleteRecord, CustomReads, definitionVars
    <2> QED  BY <1>1, <2>1
  <1>3. ASSUME NEW s \in Slugs, NEW fields \in SUBSET FieldNames, CreateEntity(s, fields)
        PROVE  DefinitionsSound' /\ WorkKept
    BY <1>3 DEF DefinitionsSound, WorkKept, IsPublished, CreateEntity
  <1>4. ASSUME NEW s \in Slugs, NEW fields \in SUBSET FieldNames, UpdateEntity(s, fields)
        PROVE  DefinitionsSound' /\ WorkKept
    BY <1>4 DEF DefinitionsSound, WorkKept, IsPublished, UpdateEntity
  <1>5. ASSUME NEW s \in Slugs, DeleteEntity(s)
        PROVE  DefinitionsSound' /\ WorkKept
    BY <1>5 DEF DefinitionsSound, WorkKept, IsPublished, DeleteEntity
  <1>6. ASSUME NEW s \in Slugs, PublishEntity(s)
        PROVE  DefinitionsSound' /\ WorkKept
    BY <1>6 DEF DefinitionsSound, WorkKept, IsPublished, PublishEntity
  <1>7. ASSUME NEW s \in Slugs, NEW kind \in DecorKinds, Decorate(s, kind)
        PROVE  DefinitionsSound' /\ WorkKept
    BY <1>7 DEF DefinitionsSound, WorkKept, IsPublished, Decorate, definitionVars
  <1>8. CASE UninstallPack
    BY <1>1, <1>8 DEF UninstallPack, definitionVars
  <1>9. ASSUME NEW p, ApplyPackageImport(p)
        PROVE  DefinitionsSound' /\ WorkKept
    BY <1>9 DEF ApplyPackageImport, ImportEntities, ImportDecor, DefinitionsSound, WorkKept,
       IsPublished, Defined
  <1>10. ASSUME NEW p \in Packages, ImportPackage(p)
         PROVE  DefinitionsSound' /\ WorkKept
    BY <1>9, <1>10 DEF ImportPackage
  <1>11. ASSUME NEW listed \in BOOLEAN, InstallPack(listed)
         PROVE  DefinitionsSound' /\ WorkKept
    BY <1>9, <1>11 DEF InstallPack
  <1>q. QED
    BY <1>2, <1>3, <1>4, <1>5, <1>6, <1>7, <1>8, <1>10, <1>11
    DEF CustomObjectsNext, DefinitionNext, PackageNext, UpsertScript, CreateView, UpsertLayout,
        DecorKinds

\* No definition is published and nothing decorates it.
LEMMA DefinitionsStart == CustomObjectsInit => DefinitionsSound
  BY DEF CustomObjectsInit, DefinitionsSound

\* Stuttering included, every step keeps the invariant.
LEMMA DefinitionsKeep ==
    DefinitionsSound /\ [CustomObjectsNext]_customObjectsVars => DefinitionsSound'
  <1>1. DefinitionsSound /\ UNCHANGED customObjectsVars => DefinitionsSound'
    BY DEF customObjectsVars, DefinitionsSound
  <1> QED  BY <1>1, WorkKeptStep

-----------------------------------------------------------------------------
(* Custom records *)

\* Definitions, records and what the requests keep of their reads: a record that
\* an author has seen is there, and its keys are as he saw them as long as the
\* version is.
RecordsSound ==
    /\ DOMAIN definition = Slugs
    /\ \A s \in Slugs : /\ DOMAIN definition[s] = {"state", "fields"}
                        /\ definition[s].state \in {"none", "draft", "published", "deleted"}
    /\ custom \in [Records -> [state : {"none", "live", "deleted"}, slug : Slugs, keys : SUBSET FieldNames,
                               version : Nat]]
    /\ \A r \in Records : custom[r].state = "live" => definition[custom[r].slug].state # "none"
    /\ DOMAIN customTxn = CustomTxns
    /\ \A x \in CustomTxns :
          LET read == customTxn[x]
          IN  /\ read.op = "create" =>
                    read.slug \in Slugs /\ definition[read.slug].state # "none"
              /\ read.op \in {"seen", "update"} =>
                    /\ read.record \in Records /\ read.version \in Nat
                    /\ custom[read.record].state # "none"
                    /\ read.version <= custom[read.record].version
                    /\ read.version = custom[read.record].version =>
                          read.keys = custom[read.record].keys

\* The keys of a record that is not outdated.
FieldsFit ==
    \A r \in Records : custom[r].state = "live" /\ r \notin outdated =>
        custom[r].keys \subseteq definition[custom[r].slug].fields \cup scripted[r]

\* What the scripts have set, and that a slug whose records hold any of it has a
\* script: nothing takes a script away.
ScriptsSound ==
    /\ DOMAIN scripted = Records
    /\ \A r \in Records : custom[r].state = "live" /\ scripted[r] # {} => HasScript(custom[r].slug)

CustomRecordsIInv ==
    DefinitionsSound /\ RecordsSound /\ ScriptsSound /\ NoLostRecordUpdate /\ FieldsFit

\* Every step of custom objects keeps the invariant.
LEMMA CustomRecordsStep ==
    ASSUME CustomRecordsIInv, CustomObjectsNext
    PROVE  CustomRecordsIInv'
  <1>0. DefinitionsSound' /\ WorkKept
    BY WorkKeptStep DEF CustomRecordsIInv
  <1>k. \A t \in Slugs : \A k \in DecorKinds : decor[t][k] # "none" => decor'[t][k] # "none"
    BY <1>0 DEF WorkKept
  <1>s. ASSUME NEW s \in Slugs, HasScript(s)
        PROVE  HasScript(s)'
    <2>1. "script" \in DecorKinds
      BY DEF DecorKinds
    <2>2. decor[s]["script"] # "none"
      BY <1>s DEF HasScript
    <2> QED  BY <1>k, <2>1, <2>2 DEF HasScript
  <1>a. ASSUME UNCHANGED <<custom, scripted>>
        PROVE  ScriptsSound'
    <2>1. /\ DOMAIN scripted = Records
          /\ \A r \in Records : custom[r].slug \in Slugs
          /\ \A r \in Records : custom[r].state = "live" /\ scripted[r] # {} => HasScript(custom[r].slug)
      BY DEF CustomRecordsIInv, RecordsSound, ScriptsSound
    <2> QED  BY <1>a, <1>s, <2>1 DEF ScriptsSound
  <1>1. ASSUME NEW s \in Slugs, NEW fields \in SUBSET FieldNames, CreateEntity(s, fields)
        PROVE  CustomRecordsIInv'
    <2>1. NoLostRecordUpdate'
      BY <1>1 DEF CustomRecordsIInv, NoLostRecordUpdate, CreateEntity, recordVars
    <2>2. RecordsSound'
      BY <1>1 DEF CustomRecordsIInv, RecordsSound, CreateEntity, recordVars
    <2>3. FieldsFit'
      BY <1>1 DEF CustomRecordsIInv, FieldsFit, RecordsSound,
         CreateEntity, recordVars
    <2>s. ScriptsSound'
      BY <1>1, <1>a DEF CreateEntity, recordVars
    <2>q. QED  BY <1>0, <2>s, <2>1, <2>2, <2>3 DEF CustomRecordsIInv
  <1>2. ASSUME NEW s \in Slugs, NEW fields \in SUBSET FieldNames, UpdateEntity(s, fields)
        PROVE  CustomRecordsIInv'
    <2>1. NoLostRecordUpdate'
      BY <1>2 DEF CustomRecordsIInv, NoLostRecordUpdate, UpdateEntity
    <2>2. RecordsSound'
      BY <1>2 DEF CustomRecordsIInv, RecordsSound, UpdateEntity
    <2>3. FieldsFit'
      BY <1>2 DEF CustomRecordsIInv, FieldsFit, RecordsSound, LiveRecords, UpdateEntity
    <2>s. ScriptsSound'
      BY <1>2, <1>a DEF UpdateEntity
    <2>q. QED  BY <1>0, <2>s, <2>1, <2>2, <2>3 DEF CustomRecordsIInv
  <1>3. ASSUME NEW s \in Slugs, DeleteEntity(s)
        PROVE  CustomRecordsIInv'
    <2>1. NoLostRecordUpdate'
      BY <1>3 DEF CustomRecordsIInv, NoLostRecordUpdate, DeleteEntity, recordVars
    <2>2. RecordsSound'
      BY <1>3 DEF CustomRecordsIInv, RecordsSound, DeleteEntity, recordVars
    <2>3. FieldsFit'
      BY <1>3 DEF CustomRecordsIInv, FieldsFit, DeleteEntity,
         recordVars
    <2>s. ScriptsSound'
      BY <1>3, <1>a DEF DeleteEntity, recordVars
    <2>q. QED  BY <1>0, <2>s, <2>1, <2>2, <2>3 DEF CustomRecordsIInv
  <1>4. ASSUME NEW s \in Slugs, PublishEntity(s)
        PROVE  CustomRecordsIInv'
    <2>1. NoLostRecordUpdate'
      BY <1>4 DEF CustomRecordsIInv, NoLostRecordUpdate, PublishEntity, recordVars
    <2>2. RecordsSound'
      BY <1>4 DEF CustomRecordsIInv, RecordsSound, PublishEntity, recordVars
    <2>3. FieldsFit'
      BY <1>4 DEF CustomRecordsIInv, FieldsFit, PublishEntity,
         recordVars
    <2>s. ScriptsSound'
      BY <1>4, <1>a DEF PublishEntity, recordVars
    <2>q. QED  BY <1>0, <2>s, <2>1, <2>2, <2>3 DEF CustomRecordsIInv
  <1>5. ASSUME NEW s \in Slugs, NEW kind \in DecorKinds, Decorate(s, kind)
        PROVE  CustomRecordsIInv'
    <2>1. RecordsSound' /\ NoLostRecordUpdate' /\ FieldsFit'
      BY <1>5 DEF CustomRecordsIInv, RecordsSound, NoLostRecordUpdate, FieldsFit, Decorate, recordVars, definitionVars
    <2>s. ScriptsSound'
      BY <1>5, <1>a DEF Decorate, recordVars
    <2>q. QED  BY <1>0, <2>s, <2>1 DEF CustomRecordsIInv
  <1>6. ASSUME NEW x \in CustomTxns, NEW s \in Slugs, CreateRecordRead(x, s)
        PROVE  CustomRecordsIInv'
    <2>1. NoLostRecordUpdate' /\ FieldsFit'
      BY <1>6 DEF CustomRecordsIInv, NoLostRecordUpdate, FieldsFit,
         CreateRecordRead, CustomReads, definitionVars
    <2>2. RecordsSound'
      BY <1>6 DEF CustomRecordsIInv, RecordsSound, CreateRecordRead, IsPublished,
         CustomReads, definitionVars
    <2>s. ScriptsSound'
      BY <1>6, <1>a DEF CreateRecordRead, CustomReads
    <2>q. QED  BY <1>0, <2>s, <2>1, <2>2 DEF CustomRecordsIInv
  <1>7. ASSUME NEW x \in CustomTxns, NEW r \in Records, NEW keys \in SUBSET FieldNames,
               NEW added \in SUBSET FieldNames, CreateRecordWrite(x, r, keys, added)
        PROVE  CustomRecordsIInv'
    <2>1. NoLostRecordUpdate'
      BY <1>7 DEF CustomRecordsIInv, NoLostRecordUpdate, CreateRecordWrite
    <2>2. RecordsSound'
      BY <1>7, CustomObjectsAssumption DEF CustomRecordsIInv, RecordsSound,
         CreateRecordWrite, EndCustomTxn, NoCustomTxn, definitionVars, SaveRecord
    <2>3. FieldsFit'
      <3> DEFINE s == customTxn[x].slug
      <3>1. /\ custom' = [custom EXCEPT ![r] = [state |-> "live", slug |-> s, keys |-> keys \cup added,
                                                version |-> 1]]
            /\ scripted' = [scripted EXCEPT ![r] = added] /\ UNCHANGED definition
            /\ keys \subseteq customTxn[x].fields
            /\ outdated' = IF customTxn[x].fields = definition[s].fields
                           THEN outdated \ {r} ELSE outdated \cup {r}
        BY <1>7 DEF CreateRecordWrite, SaveRecord, ValidateValues, definitionVars
      <3>2. DOMAIN custom = Records /\ DOMAIN scripted = Records /\ FieldsFit
        BY DEF CustomRecordsIInv, RecordsSound, ScriptsSound
      <3> HIDE DEF s
      <3> QED  BY <3>1, <3>2 DEF FieldsFit
    <2>s. ScriptsSound'
      <3>1. customTxn[x].slug \in Slugs /\ (HasScript(customTxn[x].slug) \/ added = {})
        BY <1>7 DEF CustomRecordsIInv, RecordsSound, CreateRecordWrite, SaveRecord, RunScript
      <3>2. /\ custom' = [custom EXCEPT ![r] = [state |-> "live", slug |-> customTxn[x].slug,
                                                keys |-> keys \cup added, version |-> 1]]
            /\ scripted' = [scripted EXCEPT ![r] = added]
        BY <1>7 DEF CreateRecordWrite, SaveRecord
      <3>3. /\ DOMAIN custom = Records /\ DOMAIN scripted = Records
            /\ \A i \in Records : custom[i].slug \in Slugs
            /\ \A i \in Records : custom[i].state = "live" /\ scripted[i] # {} => HasScript(custom[i].slug)
        BY DEF CustomRecordsIInv, RecordsSound, ScriptsSound
      <3> QED  BY <1>s, <3>1, <3>2, <3>3 DEF ScriptsSound
    <2>q. QED  BY <1>0, <2>s, <2>1, <2>2, <2>3 DEF CustomRecordsIInv
  <1>8. ASSUME NEW x \in CustomTxns, NEW r \in Records, GetRecord(x, r)
        PROVE  CustomRecordsIInv'
    <2>1. NoLostRecordUpdate' /\ FieldsFit'
      BY <1>8 DEF CustomRecordsIInv, NoLostRecordUpdate, FieldsFit,
         GetRecord, CustomReads, definitionVars
    <2>2. RecordsSound'
      BY <1>8 DEF CustomRecordsIInv, RecordsSound, GetRecord, CustomReads, definitionVars
    <2>s. ScriptsSound'
      BY <1>8, <1>a DEF GetRecord, CustomReads
    <2>q. QED  BY <1>0, <2>s, <2>1, <2>2 DEF CustomRecordsIInv
  <1>9. ASSUME NEW x \in CustomTxns, UpdateRecordRead(x)
        PROVE  CustomRecordsIInv'
    <2>1. NoLostRecordUpdate' /\ FieldsFit'
      BY <1>9 DEF CustomRecordsIInv, NoLostRecordUpdate, FieldsFit,
         UpdateRecordRead, CustomReads, definitionVars
    <2>2. RecordsSound'
      BY <1>9, CustomObjectsAssumption DEF CustomRecordsIInv, RecordsSound,
         UpdateRecordRead, CustomReads, definitionVars
    <2>s. ScriptsSound'
      BY <1>9, <1>a DEF UpdateRecordRead, CustomReads
    <2>q. QED  BY <1>0, <2>s, <2>1, <2>2 DEF CustomRecordsIInv
  <1>10. ASSUME NEW x \in CustomTxns, NEW keys \in SUBSET FieldNames, NEW added \in SUBSET FieldNames,
                UpdateRecordWrite(x, keys, added)
        PROVE  CustomRecordsIInv'
    <2>1. RecordsSound'
      BY <1>10, CustomObjectsAssumption DEF CustomRecordsIInv, RecordsSound,
         UpdateRecordWrite, EndCustomTxn, NoCustomTxn, definitionVars, SaveRecord,
         ValidateValues, IfMatch
    <2>2. NoLostRecordUpdate'
      BY <1>10, CustomObjectsAssumption DEF CustomRecordsIInv, NoLostRecordUpdate,
         RecordsSound, UpdateRecordWrite, EndCustomTxn, NoCustomTxn, definitionVars,
         SaveRecord, ValidateValues, IfMatch
    <2>3. FieldsFit'
      <3> DEFINE r == customTxn[x].record
                 s == custom[r].slug
                 all == custom[r].keys \cup keys
      <3>1. /\ custom' = [custom EXCEPT ![r] = [state |-> "live", slug |-> s, keys |-> all \cup added,
                                                version |-> custom[r].version + 1]]
            /\ scripted' = [scripted EXCEPT ![r] = added] /\ UNCHANGED definition
            /\ all \subseteq customTxn[x].fields
            /\ outdated' = IF customTxn[x].fields = definition[s].fields
                           THEN outdated \ {r} ELSE outdated \cup {r}
        BY <1>10 DEF UpdateRecordWrite, SaveRecord, ValidateValues, definitionVars
      <3>2. DOMAIN custom = Records /\ DOMAIN scripted = Records /\ FieldsFit
        BY DEF CustomRecordsIInv, RecordsSound, ScriptsSound
      <3> HIDE DEF r, s, all
      <3> QED  BY <3>1, <3>2 DEF FieldsFit
    <2>s. ScriptsSound'
      <3> DEFINE r == customTxn[x].record
                 s == custom[r].slug
      <3>1. r \in Records /\ s \in Slugs /\ (HasScript(s) \/ added = {})
        BY <1>10 DEF CustomRecordsIInv, RecordsSound, UpdateRecordWrite, SaveRecord, RunScript
      <3>2. /\ custom' = [custom EXCEPT ![r] = [state |-> "live", slug |-> s,
                                                keys |-> (custom[r].keys \cup keys) \cup added,
                                                version |-> custom[r].version + 1]]
            /\ scripted' = [scripted EXCEPT ![r] = added]
        BY <1>10 DEF UpdateRecordWrite, SaveRecord
      <3>3. /\ DOMAIN custom = Records /\ DOMAIN scripted = Records
            /\ \A i \in Records : custom[i].slug \in Slugs
            /\ \A i \in Records : custom[i].state = "live" /\ scripted[i] # {} => HasScript(custom[i].slug)
        BY DEF CustomRecordsIInv, RecordsSound, ScriptsSound
      <3> HIDE DEF r, s
      <3> QED  BY <1>s, <3>1, <3>2, <3>3 DEF ScriptsSound
    <2>q. QED  BY <1>0, <2>s, <2>1, <2>2, <2>3 DEF CustomRecordsIInv
  <1>11. ASSUME NEW x \in CustomTxns, UpdateRecordRefused(x)
        PROVE  CustomRecordsIInv'
    <2>1. NoLostRecordUpdate' /\ FieldsFit'
      BY <1>11 DEF CustomRecordsIInv, NoLostRecordUpdate, FieldsFit,
         UpdateRecordRefused, definitionVars
    <2>2. RecordsSound'
      BY <1>11 DEF CustomRecordsIInv, RecordsSound, UpdateRecordRefused, EndCustomTxn,
         NoCustomTxn, definitionVars
    <2>s. ScriptsSound'
      BY <1>11, <1>a DEF UpdateRecordRefused
    <2>q. QED  BY <1>0, <2>s, <2>1, <2>2 DEF CustomRecordsIInv
  <1>12. ASSUME NEW r \in Records, DeleteRecord(r)
        PROVE  CustomRecordsIInv'
    <2>1. NoLostRecordUpdate'
      BY <1>12 DEF CustomRecordsIInv, NoLostRecordUpdate, DeleteRecord
    <2>2. RecordsSound'
      BY <1>12 DEF CustomRecordsIInv, RecordsSound, DeleteRecord, definitionVars
    <2>3. FieldsFit'
      BY <1>12 DEF CustomRecordsIInv, FieldsFit, DeleteRecord,
         definitionVars
    <2>s. ScriptsSound'
      <3>1. custom' = [custom EXCEPT ![r].state = "deleted"] /\ UNCHANGED scripted
        BY <1>12 DEF DeleteRecord
      <3>2. /\ DOMAIN scripted = Records
            /\ \A i \in Records : custom[i].slug \in Slugs
            /\ \A i \in Records : custom[i].state = "live" /\ scripted[i] # {} => HasScript(custom[i].slug)
        BY DEF CustomRecordsIInv, RecordsSound, ScriptsSound
      <3> QED  BY <1>s, <3>1, <3>2 DEF ScriptsSound, CustomRecordsIInv, RecordsSound
    <2>q. QED  BY <1>0, <2>s, <2>1, <2>2, <2>3 DEF CustomRecordsIInv
  <1>13. ASSUME NEW x \in CustomTxns, CreateRecordRefused(x)
        PROVE  CustomRecordsIInv'
    <2>1. NoLostRecordUpdate' /\ FieldsFit'
      BY <1>13 DEF CustomRecordsIInv, NoLostRecordUpdate, FieldsFit, CreateRecordRefused,
         definitionVars
    <2>2. RecordsSound'
      BY <1>13 DEF CustomRecordsIInv, RecordsSound, CreateRecordRefused, EndCustomTxn,
         NoCustomTxn, definitionVars
    <2>s. ScriptsSound'
      BY <1>13, <1>a DEF CreateRecordRefused
    <2>q. QED  BY <1>0, <2>s, <2>1, <2>2 DEF CustomRecordsIInv
  <1>14. ASSUME NEW p \in Packages, ImportPackage(p)
        PROVE  CustomRecordsIInv'
    <2>1. NoLostRecordUpdate'
      BY <1>14 DEF CustomRecordsIInv, NoLostRecordUpdate, ImportPackage, recordVars
    <2>2. RecordsSound'
      BY <1>14 DEF CustomRecordsIInv, RecordsSound, ImportPackage, recordVars,
         ApplyPackageImport, ImportEntities
    <2>3. FieldsFit'
      BY <1>14 DEF CustomRecordsIInv, FieldsFit, RecordsSound,
         ImportPackage, recordVars, ApplyPackageImport, ImportEntities, Defined
    <2>s. ScriptsSound'
      BY <1>14, <1>a DEF ImportPackage, recordVars
    <2>q. QED  BY <1>0, <2>s, <2>1, <2>2, <2>3 DEF CustomRecordsIInv
  <1>15. ASSUME NEW listed \in BOOLEAN, InstallPack(listed)
        PROVE  CustomRecordsIInv'
    <2>1. NoLostRecordUpdate'
      BY <1>15 DEF CustomRecordsIInv, NoLostRecordUpdate, InstallPack, recordVars
    <2>2. RecordsSound'
      BY <1>15 DEF CustomRecordsIInv, RecordsSound, InstallPack, recordVars,
         ApplyPackageImport, ImportEntities
    <2>3. FieldsFit'
      BY <1>15 DEF CustomRecordsIInv, FieldsFit, RecordsSound,
         InstallPack, recordVars, ApplyPackageImport, ImportEntities, Defined
    <2>s. ScriptsSound'
      BY <1>15, <1>a DEF InstallPack, recordVars
    <2>q. QED  BY <1>0, <2>s, <2>1, <2>2, <2>3 DEF CustomRecordsIInv
  <1>16. CASE UninstallPack
    <2>1. RecordsSound' /\ NoLostRecordUpdate' /\ FieldsFit'
      BY <1>16 DEF CustomRecordsIInv, RecordsSound, NoLostRecordUpdate,
         FieldsFit, UninstallPack, recordVars, definitionVars
    <2>s. ScriptsSound'
      BY <1>16, <1>a DEF UninstallPack, recordVars
    <2>q. QED  BY <1>0, <2>s, <2>1 DEF CustomRecordsIInv
  <1>q. QED  BY <1>1, <1>2, <1>3, <1>4, <1>5, <1>6, <1>7, <1>8, <1>9, <1>10, <1>11, <1>12,
                <1>13, <1>14, <1>15, <1>16 DEF CustomObjectsNext, DefinitionNext,
                RecordNext, PackageNext, CreateView, UpsertLayout, UpsertScript, DecorKinds

\* No record and no request.
LEMMA CustomRecordsStart == CustomObjectsInit => CustomRecordsIInv
  <1> SUFFICES ASSUME CustomObjectsInit PROVE CustomRecordsIInv
    OBVIOUS
  <1>1. /\ custom \in [Records -> [state : {"none"}, slug : Slugs, keys : {{}}, version : {0}]]
        /\ definition = [s \in Slugs |-> [state |-> "none", fields |-> {}]]
        /\ DOMAIN customTxn = CustomTxns /\ \A x \in CustomTxns : customTxn[x].op = "idle"
        /\ overwrote = FALSE /\ DOMAIN scripted = Records
    BY DEF CustomObjectsInit, NoCustomTxn
  <1>2. \A r \in Records : custom[r].state = "none"
    BY <1>1
  <1>3. custom \in [Records -> [state : {"none", "live", "deleted"}, slug : Slugs, keys : SUBSET FieldNames,
                              version : Nat]]
    BY <1>1
  <1>4. RecordsSound
    BY <1>1, <1>2, <1>3 DEF RecordsSound
  <1>5. NoLostRecordUpdate /\ FieldsFit /\ ScriptsSound
    BY <1>1, <1>2 DEF NoLostRecordUpdate, FieldsFit, ScriptsSound
  <1> QED  BY <1>4, <1>5, DefinitionsStart DEF CustomRecordsIInv

\* What the runs check of the records.
LEMMA RecordsFit == CustomRecordsIInv => RecordsFitDefinition
  BY DEF CustomRecordsIInv, FieldsFit, ScriptsSound, RecordsFitDefinition, LiveRecords

\* Stuttering included, every step keeps the invariant.
LEMMA CustomRecordsKeep ==
    CustomRecordsIInv /\ [CustomObjectsNext]_customObjectsVars => CustomRecordsIInv'
  <1>1. CustomRecordsIInv /\ UNCHANGED customObjectsVars => CustomRecordsIInv'
    BY DEF customObjectsVars, CustomRecordsIInv, DefinitionsSound, RecordsSound, ScriptsSound,
       HasScript, NoLostRecordUpdate, FieldsFit
  <1> QED  BY <1>1, CustomRecordsStep

-----------------------------------------------------------------------------
(* Marketplace *)

\* Installs, tokens and codes: a token belongs to an install that was made.
InstallsSound ==
    /\ DOMAIN install = Installs /\ DOMAIN authCode = AuthCodes /\ DOMAIN marketTxn = MarketTxns
    /\ \A i \in Installs : DOMAIN install[i] = {"status", "consent"}
    /\ \A c \in AuthCodes : DOMAIN authCode[c] = {"state", "scopes"}
    /\ DOMAIN grant = Grants
    /\ \A g \in Grants : /\ DOMAIN grant[g] = {"install", "scopes", "access", "refresh"}
                         /\ grant[g].install \in Installs \cup {NoInstall}
    /\ codeInstalls \in [AuthCodes -> Nat]
    /\ \A g \in Grants : grant[g].install # NoInstall =>
          install[grant[g].install].status # "none"
    /\ DOMAIN review = {"there", "done", "secure"}

\* What a request has read.
MarketReadsSound ==
    \A x \in MarketTxns :
        LET read == marketTxn[x]
        IN  /\ read.op = "checklist" => read.seen.done \subseteq read.items
            /\ read.op = "reconsent" =>
                  read.install \in Installs /\ install[read.install].status # "none"
            /\ read.op = "code" => read.code \in AuthCodes /\ read.seen.state = "issued"
            /\ read.op = "refresh" => /\ read.grant \in Grants
                                            /\ grant[read.grant].install \in Installs
                                      /\ read.seen[1].refresh

\* The security review is complete when it says so.
ReviewSound == review.secure => SecurityItems \subseteq review.done

\* A code that may still be exchanged made no install.
CodesSound ==
    \A c \in AuthCodes \ marketRaces : authCode[c].state \in {"none", "issued"} =>
       codeInstalls[c] = 0

\* A live token is within the consent, and an install has one refresh token.
GrantsSound ==
    \A i \in ActiveInstalls \ marketRaces :
       /\ \A g \in Grants : grant[g].install = i /\ (grant[g].access \/ grant[g].refresh) =>
                            grant[g].scopes \subseteq install[i].consent
       /\ \A g, h \in Grants :
             grant[g].install = i /\ grant[g].refresh /\ grant[h].install = i
                /\ grant[h].refresh => g = h

MarketplaceIInv ==
    /\ InstallsSound /\ MarketReadsSound /\ ReviewSound /\ CodesSound /\ GrantsSound
    /\ PublishedPassedReview /\ CodesWorkOnce

\* One refresh token to an install, counted.
LEMMA OneRefreshToken == MarketplaceIInv => TokensWithinConsent
  <1> SUFFICES ASSUME MarketplaceIInv, NEW i \in ActiveInstalls \ marketRaces
               PROVE  Cardinality({g \in Grants : grant[g].install = i /\ grant[g].refresh}) <= 1
    BY DEF TokensWithinConsent, MarketplaceIInv, GrantsSound
  <1> DEFINE S == {g \in Grants : grant[g].install = i /\ grant[g].refresh}
  <1>1. CASE S = {}
    BY <1>1, FS_EmptySet
  <1>2. ASSUME NEW g \in S
        PROVE  Cardinality(S) <= 1
    <2>1. \A h \in S : h = g
      BY <1>2 DEF MarketplaceIInv, GrantsSound
    <2> HIDE DEF S
    <2>2. S = {g}
      BY <1>2, <2>1
    <2> QED  BY <2>2, FS_Singleton
  <1> QED  BY <1>1, <1>2

\* What an install's revocation leaves of the tokens.
LEMMA RevokedTokens ==
    ASSUME InstallsSound, NEW i \in Installs
    PROVE  LET new == RevokeInstallTokens(i)
           IN  /\ DOMAIN new = Grants
               /\ \A g \in Grants :
                     /\ DOMAIN new[g] = {"install", "scopes", "access", "refresh"}
                     /\ new[g].install = grant[g].install
                     /\ grant[g].install # i => new[g] = grant[g]
                     /\ grant[g].install = i => ~new[g].access /\ ~new[g].refresh
  BY DEF InstallsSound, RevokeInstallTokens

\* It is enough to look at the one install whose tokens a request writes.
LEMMA OneInstallWritten ==
    ASSUME GrantsSound, NEW i,
           \A j \in ActiveInstalls' \ marketRaces' : j # i =>
              /\ j \in ActiveInstalls \ marketRaces /\ install'[j] = install[j]
              /\ \A h \in Grants : grant'[h].install = j => grant'[h] = grant[h],
           i \in ActiveInstalls' \ marketRaces' =>
              /\ \A h \in Grants : grant'[h].install = i
                    /\ (grant'[h].access \/ grant'[h].refresh) =>
                                   grant'[h].scopes \subseteq install'[i].consent
              /\ \A g, h \in Grants :
                    /\ grant'[g].install = i /\ grant'[g].refresh
                    /\ grant'[h].install = i /\ grant'[h].refresh
                    => g = h
    PROVE  GrantsSound'
  <1>1. ASSUME NEW j \in ActiveInstalls' \ marketRaces', NEW h \in Grants,
               grant'[h].install = j, grant'[h].access \/ grant'[h].refresh
        PROVE  grant'[h].scopes \subseteq install'[j].consent
    <2>1. CASE j = i
      BY <1>1, <2>1
    <2>2. CASE j # i
      BY <1>1, <2>2 DEF GrantsSound
    <2> QED  BY <2>1, <2>2
  <1>2. ASSUME NEW j \in ActiveInstalls' \ marketRaces', NEW g \in Grants, NEW h \in Grants,
               grant'[g].install = j, grant'[g].refresh, grant'[h].install = j, grant'[h].refresh
        PROVE  g = h
    <2>1. CASE j = i
      BY <1>2, <2>1
    <2>2. CASE j # i
      BY <1>2, <2>2 DEF GrantsSound
    <2> QED  BY <2>1, <2>2
  <1> QED  BY <1>1, <1>2 DEF GrantsSound

\* Every step of the marketplace keeps the invariant.
LEMMA MarketplaceStep ==
    ASSUME MarketplaceIInv, MarketplaceNext
    PROVE  MarketplaceIInv'
  <1>1. CASE CreateListing
    <2>1. /\ InstallsSound'
          /\ MarketReadsSound'
          /\ ReviewSound'
          /\ CodesSound'
          /\ GrantsSound'
          /\ CodesWorkOnce'
      BY <1>1 DEF MarketplaceIInv, InstallsSound, MarketReadsSound, ReviewSound, CodesSound,
         GrantsSound, CodesWorkOnce, ActiveInstalls, CreateListing, installVars
    <2>2. PublishedPassedReview'
      BY <1>1 DEF PublishedPassedReview, CreateListing
    <2>q. QED  BY <2>1, <2>2 DEF MarketplaceIInv
  <1>2. CASE SeedOne
    <2>1. InstallsSound' /\ MarketReadsSound' /\ ReviewSound'
      BY <1>2 DEF MarketplaceIInv, InstallsSound, MarketReadsSound, ReviewSound, SeedOne,
         installVars
    <2>2. CodesSound'
      BY <1>2 DEF MarketplaceIInv, CodesSound, SeedOne, installVars
    <2>3. GrantsSound'
      BY <1>2 DEF MarketplaceIInv, GrantsSound, ActiveInstalls, SeedOne, installVars
    <2>4. PublishedPassedReview'
      BY <1>2 DEF PublishedPassedReview, SeedOne
    <2>5. CodesWorkOnce'
      BY <1>2 DEF MarketplaceIInv, CodesWorkOnce, SeedOne, installVars
    <2>q. QED  BY <2>1, <2>2, <2>3, <2>4, <2>5 DEF MarketplaceIInv
  <1>3. CASE PublishListing
    <2>1. /\ InstallsSound'
          /\ MarketReadsSound'
          /\ ReviewSound'
          /\ CodesSound'
          /\ GrantsSound'
          /\ CodesWorkOnce'
      BY <1>3 DEF MarketplaceIInv, InstallsSound, MarketReadsSound, ReviewSound, CodesSound,
         GrantsSound, CodesWorkOnce, ActiveInstalls, PublishListing, installVars
    <2>2. PublishedPassedReview'
      BY <1>3 DEF MarketplaceIInv, PublishedPassedReview, ReviewSound, PublishListing,
         Publishable
    <2>q. QED  BY <2>1, <2>2 DEF MarketplaceIInv
  <1>4. CASE RejectListing
    <2>1. /\ InstallsSound'
          /\ MarketReadsSound'
          /\ ReviewSound'
          /\ CodesSound'
          /\ GrantsSound'
          /\ CodesWorkOnce'
      BY <1>4 DEF MarketplaceIInv, InstallsSound, MarketReadsSound, ReviewSound, CodesSound,
         GrantsSound, CodesWorkOnce, ActiveInstalls, RejectListing, installVars
    <2>2. PublishedPassedReview'
      BY <1>4 DEF PublishedPassedReview, RejectListing
    <2>q. QED  BY <2>1, <2>2 DEF MarketplaceIInv
  <1>5. ASSUME NEW x \in MarketTxns, SubmitListingRead(x)
        PROVE  MarketplaceIInv'
    <2>1. /\ ReviewSound'
          /\ CodesSound'
          /\ GrantsSound'
          /\ PublishedPassedReview'
          /\ CodesWorkOnce'
      BY <1>5 DEF MarketplaceIInv, ReviewSound, CodesSound, GrantsSound,
         PublishedPassedReview, CodesWorkOnce, ActiveInstalls, SubmitListingRead,
         MarketReads, installVars, publisherVars
    <2>2. InstallsSound'
      BY <1>5 DEF MarketplaceIInv, InstallsSound, SubmitListingRead, MarketReads,
         installVars, publisherVars
    <2>3. MarketReadsSound'
      BY <1>5 DEF MarketplaceIInv, MarketReadsSound, SubmitListingRead, MarketReads,
         installVars
    <2>q. QED  BY <2>1, <2>2, <2>3 DEF MarketplaceIInv
  <1>6. ASSUME NEW x \in MarketTxns, SubmitListingWrite(x)
        PROVE  MarketplaceIInv'
    <2>1. CodesSound' /\ GrantsSound' /\ CodesWorkOnce'
      BY <1>6 DEF MarketplaceIInv, CodesSound, GrantsSound, CodesWorkOnce, ActiveInstalls,
         SubmitListingWrite, installVars
    <2>2. InstallsSound'
      BY <1>6 DEF MarketplaceIInv, InstallsSound, SubmitListingWrite, installVars,
         EndMarketTxn
    <2>3. MarketReadsSound'
      BY <1>6 DEF MarketplaceIInv, MarketReadsSound, SubmitListingWrite, installVars,
         EndMarketTxn, NoMarketTxn
    <2>4. ReviewSound'
      BY <1>6 DEF MarketplaceIInv, ReviewSound, SubmitListingWrite
    <2>5. PublishedPassedReview'
      BY <1>6 DEF PublishedPassedReview, SubmitListingWrite
    <2>q. QED  BY <2>1, <2>2, <2>3, <2>4, <2>5 DEF MarketplaceIInv
  <1>7. ASSUME NEW x \in MarketTxns, UpdateChecklistWrite(x)
        PROVE  MarketplaceIInv'
    <2>1. InstallsSound'
      BY <1>7 DEF MarketplaceIInv, InstallsSound, UpdateChecklistWrite, installVars,
         EndMarketTxn
    <2>2. MarketReadsSound'
      BY <1>7 DEF MarketplaceIInv, MarketReadsSound, UpdateChecklistWrite, installVars,
         EndMarketTxn, NoMarketTxn
    <2>3. ReviewSound'
      BY <1>7, MarketplaceAssumption DEF MarketplaceIInv, ReviewSound, InstallsSound,
         UpdateChecklistWrite, installVars, EndMarketTxn, NoMarketTxn, NoteRace,
         SecurityReviewComplete
    <2>4. CodesSound'
      BY <1>7 DEF MarketplaceIInv, CodesSound, UpdateChecklistWrite, installVars, NoteRace
    <2>5. GrantsSound'
      BY <1>7 DEF MarketplaceIInv, GrantsSound, ActiveInstalls, UpdateChecklistWrite,
         installVars, NoteRace
    <2>6. PublishedPassedReview'
      BY <1>7 DEF MarketplaceIInv, PublishedPassedReview, MarketReadsSound,
         UpdateChecklistWrite, NoteRace
    <2>7. CodesWorkOnce'
      BY <1>7 DEF MarketplaceIInv, CodesWorkOnce, UpdateChecklistWrite, installVars,
         NoteRace
    <2>q. QED  BY <2>1, <2>2, <2>3, <2>4, <2>5, <2>6, <2>7 DEF MarketplaceIInv
  <1>8. ASSUME NEW x \in MarketTxns, NEW items \in SUBSET ReviewItems,
               UpdateChecklistRead(x, items)
        PROVE  MarketplaceIInv'
    <2>1. /\ ReviewSound'
          /\ CodesSound'
          /\ GrantsSound'
          /\ PublishedPassedReview'
          /\ CodesWorkOnce'
      BY <1>8 DEF MarketplaceIInv, ReviewSound, CodesSound, GrantsSound,
         PublishedPassedReview, CodesWorkOnce, ActiveInstalls, UpdateChecklistRead,
         MarketReads, installVars, publisherVars
    <2>2. InstallsSound'
      BY <1>8 DEF MarketplaceIInv, InstallsSound, UpdateChecklistRead, MarketReads,
         installVars, publisherVars
    <2>3. MarketReadsSound'
      BY <1>8 DEF MarketplaceIInv, MarketReadsSound, UpdateChecklistRead, MarketReads,
         installVars
    <2>q. QED  BY <2>1, <2>2, <2>3 DEF MarketplaceIInv
  <1>9. ASSUME NEW i \in Installs, NEW g \in Grants, NEW scopes \in Consents,
               CreateInstall(i, g, scopes)
        PROVE  MarketplaceIInv'
    <2>1. /\ ReviewSound'
          /\ CodesSound'
          /\ PublishedPassedReview'
          /\ CodesWorkOnce'
      BY <1>9 DEF MarketplaceIInv, ReviewSound, CodesSound, PublishedPassedReview,
         CodesWorkOnce, CreateInstall, publisherVars
    <2>2. InstallsSound'
      BY <1>9 DEF MarketplaceIInv, InstallsSound, CreateInstall, publisherVars,
         InstallListing, IssueTokens, IssuedPair
    <2>3. MarketReadsSound'
      BY <1>9, MarketplaceAssumption DEF MarketplaceIInv, MarketReadsSound, CreateInstall,
         InstallListing, IssueTokens
    <2>4. GrantsSound'
      <3>1. /\ install' = [install EXCEPT ![i] = [status |-> "active", consent |-> scopes]]
            /\ grant' = [grant EXCEPT ![g] = [install |-> i, scopes |-> scopes, access |-> TRUE, refresh |-> TRUE]]
            /\ grant[g].install = NoInstall /\ install[i].status = "none"
                  /\ marketRaces \subseteq marketRaces'
        BY <1>9 DEF CreateInstall, InstallListing, IssueTokens, IssuedPair
      <3>2. \A h \in Grants : grant[h].install # i
        BY <3>1, MarketplaceAssumption DEF MarketplaceIInv, InstallsSound
      <3>3. \A h \in Grants : grant'[h].install = i <=> h = g
        BY <3>1, <3>2 DEF MarketplaceIInv, InstallsSound
      <3>4. ASSUME NEW j \in ActiveInstalls' \ marketRaces', j # i
            PROVE  /\ j \in ActiveInstalls \ marketRaces /\ install'[j] = install[j]
                   /\ \A h \in Grants : grant'[h].install = j => grant'[h] = grant[h]
        BY <3>1, <3>4 DEF ActiveInstalls
      <3>5. grant'[g].scopes = scopes /\ install'[i].consent = scopes
        BY <3>1 DEF MarketplaceIInv, InstallsSound
      <3>6. ASSUME NEW h \in Grants, grant'[h].install = i
            PROVE  h = g /\ grant'[h].scopes \subseteq install'[i].consent
        BY <3>3, <3>5, <3>6
      <3>q. QED  BY <3>4, <3>6, OneInstallWritten DEF MarketplaceIInv
    <2>q. QED  BY <2>1, <2>2, <2>3, <2>4 DEF MarketplaceIInv
  <1>10. ASSUME NEW i \in Installs, RevokeInstall(i)
        PROVE  MarketplaceIInv'
    <2>1. /\ ReviewSound'
          /\ CodesSound'
          /\ PublishedPassedReview'
          /\ CodesWorkOnce'
      BY <1>10 DEF MarketplaceIInv, ReviewSound, CodesSound, PublishedPassedReview,
         CodesWorkOnce, RevokeInstall, publisherVars
    <2>2. InstallsSound'
      <3>1. /\ install' = [install EXCEPT ![i].status = "revoked"]
                  /\ grant' = RevokeInstallTokens(i)
            /\ UNCHANGED <<review, authCode, codeInstalls, marketTxn>>
        BY <1>10 DEF RevokeInstall, publisherVars
      <3>2. /\ DOMAIN grant' = Grants
            /\ \A g \in Grants : /\ DOMAIN grant'[g] = {"install", "scopes", "access", "refresh"}
                                 /\ grant'[g].install = grant[g].install
        BY <3>1, RevokedTokens DEF MarketplaceIInv
      <3>q. QED  BY <3>1, <3>2 DEF MarketplaceIInv, InstallsSound
    <2>3. MarketReadsSound'
      BY <1>10, RevokedTokens DEF MarketplaceIInv, MarketReadsSound, RevokeInstall
    <2>4. GrantsSound'
      BY <1>10, RevokedTokens DEF MarketplaceIInv, GrantsSound, ActiveInstalls,
         RevokeInstall
    <2>q. QED  BY <2>1, <2>2, <2>3, <2>4 DEF MarketplaceIInv
  <1>11. ASSUME NEW x \in MarketTxns, NEW i \in Installs, ReconsentRead(x, i)
        PROVE  MarketplaceIInv'
    <2>1. /\ ReviewSound'
          /\ CodesSound'
          /\ GrantsSound'
          /\ PublishedPassedReview'
          /\ CodesWorkOnce'
      BY <1>11 DEF MarketplaceIInv, ReviewSound, CodesSound, GrantsSound,
         PublishedPassedReview, CodesWorkOnce, ActiveInstalls, ReconsentRead, MarketReads,
         installVars, publisherVars
    <2>2. InstallsSound'
      BY <1>11 DEF MarketplaceIInv, InstallsSound, ReconsentRead, MarketReads, installVars,
         publisherVars
    <2>3. MarketReadsSound'
      BY <1>11 DEF MarketplaceIInv, MarketReadsSound, ReconsentRead, MarketReads,
         installVars
    <2>q. QED  BY <2>1, <2>2, <2>3 DEF MarketplaceIInv
  <1>12. ASSUME NEW x \in MarketTxns, NEW g \in Grants, NEW scopes \in Consents,
                Reconsent(x, g, scopes)
        PROVE  MarketplaceIInv'
    <2>1. ReviewSound'
      BY <1>12 DEF MarketplaceIInv, ReviewSound, Reconsent, publisherVars
    <2>2. InstallsSound'
      <3> DEFINE i == marketTxn[x].install
                 old == RevokeInstallTokens(i)
      <3>1. /\ install' = [install EXCEPT ![i].consent = scopes]
                  /\ marketRaces \subseteq marketRaces'
            /\ grant' = [old EXCEPT ![g] = [install |-> i, scopes |-> scopes, access |-> TRUE, refresh |-> TRUE]]
            /\ grant[g].install = NoInstall
                  /\ marketTxn' = [marketTxn EXCEPT ![x] = NoMarketTxn]
            /\ UNCHANGED <<review, authCode, codeInstalls>>
        BY <1>12 DEF Reconsent, IssuedPair, NoteRace, EndMarketTxn, publisherVars
      <3>2. i \in Installs /\ install[i].status # "none"
        BY <1>12 DEF Reconsent, MarketplaceIInv, MarketReadsSound
      <3>3. /\ DOMAIN old = Grants
            /\ \A h \in Grants :
                  /\ DOMAIN old[h] = {"install", "scopes", "access", "refresh"}
                  /\ old[h].install = grant[h].install
                  /\ grant[h].install # i => old[h] = grant[h]
                  /\ grant[h].install = i => ~old[h].access /\ ~old[h].refresh
        BY <3>2, RevokedTokens DEF MarketplaceIInv
      <3> HIDE DEF i, old
      <3>q. QED  BY <3>1, <3>2, <3>3 DEF MarketplaceIInv, InstallsSound
    <2>3. MarketReadsSound'
      <3> DEFINE i == marketTxn[x].install
                 old == RevokeInstallTokens(i)
      <3>1. /\ install' = [install EXCEPT ![i].consent = scopes]
                  /\ marketRaces \subseteq marketRaces'
            /\ grant' = [old EXCEPT ![g] = [install |-> i, scopes |-> scopes, access |-> TRUE, refresh |-> TRUE]]
            /\ grant[g].install = NoInstall
                  /\ marketTxn' = [marketTxn EXCEPT ![x] = NoMarketTxn]
            /\ UNCHANGED <<review, authCode, codeInstalls>>
        BY <1>12 DEF Reconsent, IssuedPair, NoteRace, EndMarketTxn, publisherVars
      <3>2. i \in Installs /\ install[i].status # "none"
        BY <1>12 DEF Reconsent, MarketplaceIInv, MarketReadsSound
      <3>3. /\ DOMAIN old = Grants
            /\ \A h \in Grants :
                  /\ DOMAIN old[h] = {"install", "scopes", "access", "refresh"}
                  /\ old[h].install = grant[h].install
                  /\ grant[h].install # i => old[h] = grant[h]
                  /\ grant[h].install = i => ~old[h].access /\ ~old[h].refresh
        BY <3>2, RevokedTokens DEF MarketplaceIInv
      <3> HIDE DEF i, old
      <3>4. \A h \in Grants : grant[h].install # NoInstall =>
               grant'[h].install = grant[h].install
        BY <3>1, <3>3
      <3>5. \A j \in Installs : install'[j].status = install[j].status
        BY <3>1, <3>2
      <3>q. QED
        BY <3>1, <3>4, <3>5, MarketplaceAssumption DEF MarketplaceIInv, MarketReadsSound,
           NoMarketTxn
    <2>4. CodesSound'
      BY <1>12 DEF MarketplaceIInv, CodesSound, Reconsent, NoteRace
    <2>5. GrantsSound'
      <3> DEFINE i == marketTxn[x].install
                 old == RevokeInstallTokens(i)
      <3>1. /\ install' = [install EXCEPT ![i].consent = scopes]
                  /\ marketRaces \subseteq marketRaces'
            /\ grant' = [old EXCEPT ![g] = [install |-> i, scopes |-> scopes, access |-> TRUE, refresh |-> TRUE]]
            /\ grant[g].install = NoInstall
                  /\ marketTxn' = [marketTxn EXCEPT ![x] = NoMarketTxn]
            /\ UNCHANGED <<review, authCode, codeInstalls>>
        BY <1>12 DEF Reconsent, IssuedPair, NoteRace, EndMarketTxn, publisherVars
      <3>2. i \in Installs /\ install[i].status # "none"
        BY <1>12 DEF Reconsent, MarketplaceIInv, MarketReadsSound
      <3>3. /\ DOMAIN old = Grants
            /\ \A h \in Grants :
                  /\ DOMAIN old[h] = {"install", "scopes", "access", "refresh"}
                  /\ old[h].install = grant[h].install
                  /\ grant[h].install # i => old[h] = grant[h]
                  /\ grant[h].install = i => ~old[h].access /\ ~old[h].refresh
        BY <3>2, RevokedTokens DEF MarketplaceIInv
      <3> HIDE DEF i, old
      <3>4. ASSUME NEW j \in ActiveInstalls' \ marketRaces', j # i
            PROVE  /\ j \in ActiveInstalls \ marketRaces /\ install'[j] = install[j]
                   /\ \A h \in Grants : grant'[h].install = j => grant'[h] = grant[h]
        BY <3>1, <3>2, <3>3, <3>4 DEF ActiveInstalls
      <3>5. /\ grant'[g].scopes = scopes /\ install'[i].consent = scopes
            /\ \A h \in Grants : grant'[h].install = i
                  /\ (grant'[h].access \/ grant'[h].refresh) => h = g
        BY <3>1, <3>2, <3>3 DEF MarketplaceIInv, InstallsSound
      <3>6. ASSUME NEW h \in Grants, grant'[h].install = i,
                   grant'[h].access \/ grant'[h].refresh
            PROVE  h = g /\ grant'[h].scopes \subseteq install'[i].consent
        BY <3>5, <3>6
      <3>q. QED  BY <3>4, <3>6, OneInstallWritten DEF MarketplaceIInv
    <2>6. PublishedPassedReview'
      BY <1>12 DEF MarketplaceIInv, PublishedPassedReview, Reconsent, publisherVars,
         NoteRace
    <2>7. CodesWorkOnce'
      BY <1>12 DEF MarketplaceIInv, CodesWorkOnce, Reconsent, NoteRace
    <2>q. QED  BY <2>1, <2>2, <2>3, <2>4, <2>5, <2>6, <2>7 DEF MarketplaceIInv
  <1>13. ASSUME NEW c \in AuthCodes, NEW scopes \in Consents, CreateAuthorizationCode(c, scopes)
        PROVE  MarketplaceIInv'
    <2>1. /\ MarketReadsSound'
          /\ ReviewSound'
          /\ GrantsSound'
          /\ PublishedPassedReview'
          /\ CodesWorkOnce'
      BY <1>13 DEF MarketplaceIInv, MarketReadsSound, ReviewSound, GrantsSound,
         PublishedPassedReview, CodesWorkOnce, ActiveInstalls, CreateAuthorizationCode,
         publisherVars
    <2>2. InstallsSound'
      BY <1>13 DEF MarketplaceIInv, InstallsSound, CreateAuthorizationCode, publisherVars
    <2>3. CodesSound'
      BY <1>13 DEF MarketplaceIInv, CodesSound, CreateAuthorizationCode
    <2>q. QED  BY <2>1, <2>2, <2>3 DEF MarketplaceIInv
  <1>14. ASSUME NEW c \in AuthCodes, CodeExpires(c)
        PROVE  MarketplaceIInv'
    <2>1. /\ MarketReadsSound'
          /\ ReviewSound'
          /\ GrantsSound'
          /\ PublishedPassedReview'
          /\ CodesWorkOnce'
      BY <1>14 DEF MarketplaceIInv, MarketReadsSound, ReviewSound, GrantsSound,
         PublishedPassedReview, CodesWorkOnce, ActiveInstalls, CodeExpires, publisherVars
    <2>2. InstallsSound'
      BY <1>14 DEF MarketplaceIInv, InstallsSound, CodeExpires, publisherVars
    <2>3. CodesSound'
      BY <1>14 DEF MarketplaceIInv, CodesSound, CodeExpires
    <2>q. QED  BY <2>1, <2>2, <2>3 DEF MarketplaceIInv
  <1>15. ASSUME NEW x \in MarketTxns, NEW c \in AuthCodes, ExchangeCodeRead(x, c)
        PROVE  MarketplaceIInv'
    <2>1. /\ ReviewSound'
          /\ CodesSound'
          /\ GrantsSound'
          /\ PublishedPassedReview'
          /\ CodesWorkOnce'
      BY <1>15 DEF MarketplaceIInv, ReviewSound, CodesSound, GrantsSound,
         PublishedPassedReview, CodesWorkOnce, ActiveInstalls, ExchangeCodeRead,
         MarketReads, installVars, publisherVars
    <2>2. InstallsSound'
      BY <1>15 DEF MarketplaceIInv, InstallsSound, ExchangeCodeRead, MarketReads,
         installVars, publisherVars
    <2>3. MarketReadsSound'
      BY <1>15 DEF MarketplaceIInv, MarketReadsSound, ExchangeCodeRead, MarketReads,
         installVars
    <2>q. QED  BY <2>1, <2>2, <2>3 DEF MarketplaceIInv
  <1>16. ASSUME NEW x \in MarketTxns, NEW i \in Installs, NEW g \in Grants,
                ExchangeCodeWrite(x, i, g)
        PROVE  MarketplaceIInv'
    <2>1. ReviewSound'
      BY <1>16 DEF MarketplaceIInv, ReviewSound, ExchangeCodeWrite, publisherVars
    <2>2. InstallsSound'
      BY <1>16 DEF MarketplaceIInv, InstallsSound, MarketReadsSound, ExchangeCodeWrite,
         publisherVars, EndMarketTxn, InstallListing, IssueTokens, IssuedPair
    <2>3. MarketReadsSound'
      BY <1>16, MarketplaceAssumption DEF MarketplaceIInv, MarketReadsSound,
         ExchangeCodeWrite, EndMarketTxn, NoMarketTxn, InstallListing, IssueTokens
    <2>4. CodesSound'
      BY <1>16 DEF MarketplaceIInv, CodesSound, InstallsSound, ExchangeCodeWrite, NoteRace
    <2>5. GrantsSound'
      <3>1. /\ install' = [install EXCEPT ![i] = [status |-> "active", consent |-> marketTxn[x].seen.scopes]]
            /\ grant' = [grant EXCEPT ![g] = [install |-> i, scopes |-> marketTxn[x].seen.scopes, access |-> TRUE, refresh |-> TRUE]]
            /\ grant[g].install = NoInstall /\ install[i].status = "none"
                  /\ marketRaces \subseteq marketRaces'
        BY <1>16 DEF ExchangeCodeWrite, InstallListing, IssueTokens, IssuedPair, NoteRace
      <3>2. \A h \in Grants : grant[h].install # i
        BY <3>1, MarketplaceAssumption DEF MarketplaceIInv, InstallsSound
      <3>3. \A h \in Grants : grant'[h].install = i <=> h = g
        BY <3>1, <3>2 DEF MarketplaceIInv, InstallsSound
      <3>4. ASSUME NEW j \in ActiveInstalls' \ marketRaces', j # i
            PROVE  /\ j \in ActiveInstalls \ marketRaces /\ install'[j] = install[j]
                   /\ \A h \in Grants : grant'[h].install = j => grant'[h] = grant[h]
        BY <3>1, <3>4 DEF ActiveInstalls
      <3>5. grant'[g].scopes = marketTxn[x].seen.scopes
               /\ install'[i].consent = marketTxn[x].seen.scopes
        BY <3>1 DEF MarketplaceIInv, InstallsSound
      <3>6. ASSUME NEW h \in Grants, grant'[h].install = i
            PROVE  h = g /\ grant'[h].scopes \subseteq install'[i].consent
        BY <3>3, <3>5, <3>6
      <3>q. QED  BY <3>4, <3>6, OneInstallWritten DEF MarketplaceIInv
    <2>6. PublishedPassedReview'
      BY <1>16 DEF MarketplaceIInv, PublishedPassedReview, ExchangeCodeWrite, publisherVars,
         NoteRace
    <2>7. CodesWorkOnce'
      BY <1>16 DEF MarketplaceIInv, CodesWorkOnce, MarketReadsSound, CodesSound,
         ExchangeCodeWrite, NoteRace
    <2>q. QED  BY <2>1, <2>2, <2>3, <2>4, <2>5, <2>6, <2>7 DEF MarketplaceIInv
  <1>17. ASSUME NEW x \in MarketTxns, NEW g \in Grants, ExchangeRefreshRead(x, g)
        PROVE  MarketplaceIInv'
    <2>1. /\ ReviewSound'
          /\ CodesSound'
          /\ GrantsSound'
          /\ PublishedPassedReview'
          /\ CodesWorkOnce'
      BY <1>17 DEF MarketplaceIInv, ReviewSound, CodesSound, GrantsSound,
         PublishedPassedReview, CodesWorkOnce, ActiveInstalls, ExchangeRefreshRead,
         MarketReads, installVars, publisherVars
    <2>2. InstallsSound'
      BY <1>17 DEF MarketplaceIInv, InstallsSound, ExchangeRefreshRead, MarketReads,
         installVars, publisherVars
    <2>3. MarketReadsSound'
      <3> DEFINE what == [op |-> "refresh", grant |-> g, seen |-> <<grant[g], install[grant[g].install]>>]
      <3>1. /\ marketTxn' = [marketTxn EXCEPT ![x] = what] /\ UNCHANGED <<install, grant>>
            /\ grant[g].refresh /\ grant[g].install \in Installs
        BY <1>17 DEF ExchangeRefreshRead, ResolveToken, ActiveInstalls, MarketReads,
           installVars
      <3>2. what.op = "refresh" /\ what.grant = g /\ what.seen[1] = grant[g]
        OBVIOUS
      <3> HIDE DEF what
      <3>q. QED  BY <3>1, <3>2 DEF MarketplaceIInv, MarketReadsSound
    <2>q. QED  BY <2>1, <2>2, <2>3 DEF MarketplaceIInv
  <1>18. ASSUME NEW x \in MarketTxns, NEW g \in Grants, ExchangeRefreshWrite(x, g)
        PROVE  MarketplaceIInv'
    <2>1. ReviewSound'
      BY <1>18 DEF MarketplaceIInv, ReviewSound, ExchangeRefreshWrite, publisherVars
    <2>2. InstallsSound'
      <3> DEFINE old == marketTxn[x].grant
                 i == grant[old].install
      <3>1. /\ old \in Grants /\ i \in Installs /\ grant[g].install = NoInstall /\ g # old
            /\ marketTxn[x].seen[1].refresh
        BY <1>18, MarketplaceAssumption DEF ExchangeRefreshWrite, MarketplaceIInv,
           MarketReadsSound
      <3>2. /\ grant' = [grant EXCEPT ![old].refresh = FALSE, ![g] = [install |-> i,
                           scopes |-> marketTxn[x].seen[2].consent, access |-> TRUE, refresh |-> TRUE]]
            /\ UNCHANGED <<install, authCode, codeInstalls, review>>
            /\ marketTxn' = [marketTxn EXCEPT ![x] = NoMarketTxn]
            /\ marketRaces' = IF <<grant[old], install[i]>> # marketTxn[x].seen
                              THEN marketRaces \cup {i} ELSE marketRaces
        BY <1>18 DEF ExchangeRefreshWrite, IssuedPair, NoteRace, EndMarketTxn, publisherVars
      <3>3. /\ DOMAIN grant' = Grants
            /\ \A h \in Grants : /\ DOMAIN grant'[h] = {"install", "scopes", "access", "refresh"}
                                 /\ h \notin {old, g} => grant'[h] = grant[h]
            /\ grant'[old].install = i /\ ~grant'[old].refresh
            /\ grant'[old].scopes = grant[old].scopes /\ grant'[old].access = grant[old].access
            /\ grant'[g].install = i /\ grant'[g].scopes = marketTxn[x].seen[2].consent
        BY <3>1, <3>2 DEF MarketplaceIInv, InstallsSound
      <3>4. \A h \in Grants : /\ grant'[h].install \in Installs \cup {NoInstall}
                              /\ grant'[h].install # NoInstall =>
                                    install[grant'[h].install].status # "none"
        BY <3>1, <3>3 DEF MarketplaceIInv, InstallsSound
      <3>5. /\ UNCHANGED <<install, authCode, codeInstalls, review>>
                  /\ DOMAIN marketTxn' = MarketTxns
        BY <3>2 DEF MarketplaceIInv, InstallsSound
      <3>q. QED  BY <3>3, <3>4, <3>5 DEF MarketplaceIInv, InstallsSound
    <2>3. MarketReadsSound'
      BY <1>18 DEF MarketplaceIInv, MarketReadsSound, InstallsSound, ExchangeRefreshWrite,
         EndMarketTxn, NoMarketTxn, NoteRace, IssuedPair
    <2>4. CodesSound'
      BY <1>18 DEF MarketplaceIInv, CodesSound, ExchangeRefreshWrite, NoteRace
    <2>5. GrantsSound'
      <3> DEFINE old == marketTxn[x].grant
                 i == grant[old].install
      <3>1. /\ old \in Grants /\ i \in Installs /\ grant[g].install = NoInstall /\ g # old
            /\ marketTxn[x].seen[1].refresh
        BY <1>18, MarketplaceAssumption DEF ExchangeRefreshWrite, MarketplaceIInv,
           MarketReadsSound
      <3>2. /\ grant' = [grant EXCEPT ![old].refresh = FALSE, ![g] = [install |-> i,
                           scopes |-> marketTxn[x].seen[2].consent, access |-> TRUE, refresh |-> TRUE]]
            /\ UNCHANGED <<install, authCode, codeInstalls, review>>
            /\ marketTxn' = [marketTxn EXCEPT ![x] = NoMarketTxn]
            /\ marketRaces' = IF <<grant[old], install[i]>> # marketTxn[x].seen
                              THEN marketRaces \cup {i} ELSE marketRaces
        BY <1>18 DEF ExchangeRefreshWrite, IssuedPair, NoteRace, EndMarketTxn, publisherVars
      <3>3. /\ DOMAIN grant' = Grants
            /\ \A h \in Grants : /\ DOMAIN grant'[h] = {"install", "scopes", "access", "refresh"}
                                 /\ h \notin {old, g} => grant'[h] = grant[h]
            /\ grant'[old].install = i /\ ~grant'[old].refresh
            /\ grant'[old].scopes = grant[old].scopes /\ grant'[old].access = grant[old].access
            /\ grant'[g].install = i /\ grant'[g].scopes = marketTxn[x].seen[2].consent
        BY <3>1, <3>2 DEF MarketplaceIInv, InstallsSound
      <3>4. ASSUME NEW j \in ActiveInstalls' \ marketRaces', j # i
            PROVE  /\ j \in ActiveInstalls \ marketRaces
                   /\ \A h \in Grants : grant'[h].install = j => grant'[h] = grant[h]
        BY <3>1, <3>2, <3>3, <3>4 DEF ActiveInstalls
      <3>5. ASSUME i \in ActiveInstalls' \ marketRaces'
            PROVE  /\ i \in ActiveInstalls \ marketRaces
                   /\ grant[old].refresh /\ grant'[g].scopes = install[i].consent
                   /\ \A h \in Grants : grant[h].install = i /\ grant[h].refresh => h = old
        <4>1. <<grant[old], install[i]>> = marketTxn[x].seen
                 /\ i \in ActiveInstalls \ marketRaces
          BY <3>2, <3>5 DEF ActiveInstalls
        <4>2. marketTxn[x].seen[1] = grant[old] /\ marketTxn[x].seen[2] = install[i]
          BY <4>1
        <4>q. QED  BY <3>1, <3>3, <4>1, <4>2 DEF MarketplaceIInv, GrantsSound
      <3>6. ASSUME i \in ActiveInstalls' \ marketRaces'
            PROVE  \A h \in Grants : grant'[h].install = i =>
                      /\ grant'[h].refresh => h = g
                      /\ grant'[h].access \/ grant'[h].refresh =>
                            grant'[h].scopes \subseteq install'[i].consent
        <4>1. ASSUME NEW h \in Grants, grant'[h].install = i, h # g
              PROVE  /\ ~grant'[h].refresh
                     /\ grant'[h].access => grant'[h].scopes \subseteq install[i].consent
          <5>1. grant[h].install = i /\ grant'[h].scopes = grant[h].scopes
                   /\ grant'[h].access = grant[h].access
            BY <3>1, <3>3, <4>1
          <5>2. ~grant'[h].refresh
            BY <3>3, <3>5, <3>6, <4>1, <5>1
          <5>3. grant[h].access => grant[h].scopes \subseteq install[i].consent
            BY <3>5, <3>6, <5>1 DEF MarketplaceIInv, GrantsSound
          <5>q. QED  BY <5>1, <5>2, <5>3
        <4>2. grant'[g].scopes \subseteq install[i].consent
          BY <3>5, <3>6
        <4>q. QED  BY <3>2, <4>1, <4>2
      <3>7. \A j \in ActiveInstalls' \ marketRaces' : j # i =>
               /\ j \in ActiveInstalls \ marketRaces /\ install'[j] = install[j]
               /\ \A h \in Grants : grant'[h].install = j => grant'[h] = grant[h]
        BY <3>2, <3>4
      <3> HIDE DEF i
      <3>q. QED  BY <3>6, <3>7, OneInstallWritten DEF MarketplaceIInv
    <2>6. PublishedPassedReview'
      BY <1>18 DEF MarketplaceIInv, PublishedPassedReview, ExchangeRefreshWrite,
         publisherVars, NoteRace
    <2>7. CodesWorkOnce'
      BY <1>18 DEF MarketplaceIInv, CodesWorkOnce, ExchangeRefreshWrite, NoteRace
    <2>q. QED  BY <2>1, <2>2, <2>3, <2>4, <2>5, <2>6, <2>7 DEF MarketplaceIInv
  <1>19. ASSUME NEW x \in MarketTxns, MarketTxnFails(x)
        PROVE  MarketplaceIInv'
    <2>1. /\ ReviewSound'
          /\ CodesSound'
          /\ GrantsSound'
          /\ PublishedPassedReview'
          /\ CodesWorkOnce'
      BY <1>19 DEF MarketplaceIInv, ReviewSound, CodesSound, GrantsSound,
         PublishedPassedReview, CodesWorkOnce, ActiveInstalls, MarketTxnFails,
         publisherVars, installVars
    <2>2. InstallsSound'
      BY <1>19 DEF MarketplaceIInv, InstallsSound, MarketTxnFails, publisherVars,
         installVars, EndMarketTxn
    <2>3. MarketReadsSound'
      BY <1>19 DEF MarketplaceIInv, MarketReadsSound, MarketTxnFails, installVars,
         EndMarketTxn, NoMarketTxn
    <2>q. QED  BY <2>1, <2>2, <2>3 DEF MarketplaceIInv
  <1>q. QED  BY <1>1, <1>2, <1>3, <1>4, <1>5, <1>6, <1>7, <1>8, <1>9, <1>10, <1>11, <1>12,
                <1>13, <1>14, <1>15, <1>16, <1>17, <1>18, <1>19
             DEF MarketplaceNext, PublisherNext, InstallNext

\* No listing, no install, no token.
LEMMA MarketplaceStarts == MarketplaceInit => MarketplaceIInv
  BY MarketplaceAssumption DEF MarketplaceInit, MarketplaceIInv, InstallsSound,
     MarketReadsSound, ReviewSound, CodesSound, GrantsSound, ActiveInstalls,
     PublishedPassedReview, CodesWorkOnce, NoMarketTxn

\* Stuttering included, every step keeps the invariant.
LEMMA MarketplaceKeeps == MarketplaceIInv /\ [MarketplaceNext]_marketplaceVars => MarketplaceIInv'
  <1>1. MarketplaceIInv /\ UNCHANGED marketplaceVars => MarketplaceIInv'
    BY DEF marketplaceVars, MarketplaceIInv, InstallsSound, MarketReadsSound, ReviewSound,
       CodesSound, GrantsSound, ActiveInstalls, PublishedPassedReview, CodesWorkOnce
  <1> QED  BY <1>1, MarketplaceStep

-----------------------------------------------------------------------------
(* AI service *)

\* Where the runs and their actions are: the invoices a run has not reached
\* have no effect, and the one it acted on is committed or was reversed early.
RunSound(r) ==
    /\ DOMAIN agentRun[r] = {"status", "pc", "pod", "tools", "next", "acted"}
    /\ agentRun[r].next \in Nat
    /\ DOMAIN aiAction[r] = OverdueInvoices
    /\ \A i \in OverdueInvoices :
          /\ DOMAIN aiAction[r][i] = {"status", "effect"}
          /\ i >= agentRun[r].next => aiAction[r][i].effect = "none"
    /\ agentRun[r].pc = "acted" =>
          /\ agentRun[r].next \in OverdueInvoices
          /\ \/ aiAction[r][agentRun[r].next].status = "committed"
             \/ <<r, agentRun[r].next>> \in earlyReversal

RunsSound ==
    /\ DOMAIN agentRun = AgentRuns /\ DOMAIN aiAction = AgentRuns
    /\ \A r \in AgentRuns : RunSound(r)

\* A run that acted under the engaged switch is not cleared again.
ClearedOnce ==
    /\ DOMAIN agentRun = AgentRuns /\ afterKill \in [AgentRuns -> Nat]
    /\ \A r \in AgentRuns :
          /\ engaged = {} => afterKill[r] = 0
          /\ agentRun[r].pc = "cleared" => afterKill[r] = 0

\* A proposal that is still to be confirmed was not carried out, unless a
\* request is about to record that it was.
ProposalsSound ==
    /\ proposal \in [Proposals -> {"none", "pending", "committed", "cancelled"}]
    /\ applied \in [Proposals -> Nat] /\ DOMAIN aiTxn = AiTxns
    /\ \A x \in AiTxns : aiTxn[x].op \in {"confirm", "forwarded"} =>
          /\ DOMAIN aiTxn[x] = {"op", "proposal", "seen"}
          /\ aiTxn[x].proposal \in Proposals /\ aiTxn[x].seen = "pending"
          /\ proposal[aiTxn[x].proposal] # "none"
    /\ \A p \in Proposals \ (aiRaces \cup unrecorded) :
          /\ proposal[p] \in {"none", "cancelled"} => applied[p] = 0
          /\ proposal[p] = "pending" /\ ~BeingConfirmed(p) => applied[p] = 0

\* The stored month is this one or an earlier one.
UsageSound ==
    /\ aiTokens \in [used : Nat, month : Nat, copilot : BOOLEAN] /\ aiMonth \in Nat
          /\ spent \in Nat
    /\ aiTokens.month <= aiMonth

AssistantIInv ==
    /\ RunsSound /\ ClearedOnce /\ ProposalsSound /\ UsageSound
    /\ KillSwitchHalts /\ EffectsFollowActions /\ ProposalAppliedOnce /\ UsageIsOfTheMonth

\* record_token_usage keeps the month's count.
LEMMA UsageCounted ==
    ASSUME UsageSound, UsageIsOfTheMonth, RecordTokenUsage(1)
    PROVE  UsageSound' /\ UsageIsOfTheMonth'
  <1> DEFINE used == IF aiTokens.month = aiMonth THEN aiTokens.used + 1 ELSE 1
  <1>1. /\ aiTokens' = [used |-> used, month |-> aiMonth, copilot |-> aiTokens.copilot]
        /\ spent' = spent + 1 /\ aiMonth' = aiMonth
    BY DEF UsageSound, RecordTokenUsage
  <1>2. used \in Nat /\ used = spent + 1
    BY DEF UsageSound, UsageIsOfTheMonth
  <1> HIDE DEF used
  <1> QED  BY <1>1, <1>2 DEF UsageSound, UsageIsOfTheMonth

\* What a run does with a cleared invoice: it acts on it or passes it over.
LEMMA Chased ==
    ASSUME NEW r \in AgentRuns, ChaseInvoice(r)
    PROVE  /\ agentRun[r].next \in OverdueInvoices /\ agentRun[r].pc = "cleared"
           /\ UNCHANGED <<engaged, earlyReversal>>
           /\ \/ /\ agentRun' = [agentRun EXCEPT ![r].pc = "acted"]
                 /\ aiAction' = [aiAction EXCEPT ![r][agentRun[r].next].status = "committed"]
                 /\ afterKill' = [afterKill EXCEPT ![r] = IF engaged # {} THEN @ + 1 ELSE @]
              \/ /\ agentRun' = [agentRun EXCEPT ![r].pc = "loop", ![r].next = agentRun[r].next + 1]
                 /\ UNCHANGED <<aiAction, afterKill>>
  BY DEF ChaseInvoice, SendReminder, EscalateException, UseTool, RecordAction, AgentGoes,
     OverdueInvoices

\* A run that acts, or passes an invoice over, keeps the invariant.
LEMMA ChaseStep ==
    ASSUME AssistantIInv, NEW r \in AgentRuns, ChaseInvoice(r)
    PROVE  AssistantIInv'
  <1> DEFINE i == agentRun[r].next
  <1>1. /\ ProposalsSound' /\ UsageSound' /\ ProposalAppliedOnce' /\ UsageIsOfTheMonth'
    BY DEF AssistantIInv, ProposalsSound, UsageSound, ProposalAppliedOnce,
       UsageIsOfTheMonth, BeingConfirmed, ChaseInvoice, copilotVars, budgetVars
  <1>2. /\ i \in OverdueInvoices /\ agentRun[r].pc = "cleared"
              /\ UNCHANGED <<engaged, earlyReversal>>
        /\ \/ /\ agentRun' = [agentRun EXCEPT ![r].pc = "acted"]
              /\ aiAction' = [aiAction EXCEPT ![r][i].status = "committed"]
              /\ afterKill' = [afterKill EXCEPT ![r] = IF engaged # {} THEN @ + 1 ELSE @]
           \/ /\ agentRun' = [agentRun EXCEPT ![r].pc = "loop", ![r].next = i + 1]
              /\ UNCHANGED <<aiAction, afterKill>>
    BY Chased
  <1>a. i \in Nat
    BY DEF AssistantIInv, RunsSound, RunSound
  <1>b. afterKill[r] = 0
    BY <1>2 DEF AssistantIInv, ClearedOnce
  <1>3. i \in Nat /\ i >= i /\ afterKill[r] = 0 /\ afterKill[r] + 1 = 1
    BY <1>a, <1>b
  <1>4. aiAction[r][i].effect = "none"
    BY <1>2, <1>3 DEF AssistantIInv, RunsSound, RunSound
  <1>5. CASE /\ agentRun' = [agentRun EXCEPT ![r].pc = "acted"]
             /\ aiAction' = [aiAction EXCEPT ![r][i].status = "committed"]
             /\ afterKill' = [afterKill EXCEPT ![r] = IF engaged # {} THEN @ + 1 ELSE @]
    <2>a. /\ DOMAIN agentRun' = AgentRuns
          /\ \A q \in AgentRuns :
                /\ DOMAIN agentRun'[q] = DOMAIN agentRun[q]
                      /\ agentRun'[q].next = agentRun[q].next
                /\ agentRun'[q].pc = IF q = r THEN "acted" ELSE agentRun[q].pc
      BY <1>5 DEF AssistantIInv, RunsSound
    <2>1. /\ DOMAIN aiAction' = AgentRuns
          /\ \A q \in AgentRuns :
                /\ DOMAIN aiAction'[q] = OverdueInvoices
                /\ \A j \in OverdueInvoices :
                      /\ DOMAIN aiAction'[q][j] = {"status", "effect"}
                      /\ aiAction'[q][j].effect = aiAction[q][j].effect
                      /\ aiAction'[q][j].status =
                            IF q = r /\ j = i THEN "committed" ELSE aiAction[q][j].status
      <3> HIDE DEF i
      <3>1. /\ DOMAIN aiAction = AgentRuns
            /\ \A q \in AgentRuns : /\ DOMAIN aiAction[q] = OverdueInvoices
                                    /\ \A j \in OverdueInvoices : DOMAIN aiAction[q][j] = {"status", "effect"}
        BY DEF AssistantIInv, RunsSound, RunSound
      <3> QED  BY <1>2, <1>5, <3>1
    <2> HIDE DEF i
    <2>2. RunsSound'
      BY <1>2, <2>a, <2>1 DEF AssistantIInv, RunsSound, RunSound, i
    <2>3. ClearedOnce'
      BY <1>2, <1>3, <1>5, <2>a DEF AssistantIInv, ClearedOnce
    <2>4. KillSwitchHalts'
      BY <1>2, <1>3, <1>5 DEF AssistantIInv, KillSwitchHalts
    <2>5. EffectsFollowActions'
      BY <1>2, <1>4, <2>1 DEF AssistantIInv, EffectsFollowActions
    <2> QED  BY <1>1, <2>2, <2>3, <2>4, <2>5 DEF AssistantIInv
  <1>6. CASE /\ agentRun' = [agentRun EXCEPT ![r].pc = "loop", ![r].next = i + 1]
             /\ UNCHANGED <<aiAction, afterKill>>
    <2>1. /\ DOMAIN agentRun' = AgentRuns
          /\ \A q \in AgentRuns :
                /\ DOMAIN agentRun'[q] = DOMAIN agentRun[q]
                /\ agentRun'[q].pc = IF q = r THEN "loop" ELSE agentRun[q].pc
                /\ agentRun'[q].next = IF q = r THEN i + 1 ELSE agentRun[q].next
      BY <1>6 DEF AssistantIInv, RunsSound
    <2> HIDE DEF i
    <2>2. RunsSound'
      <3>1. i + 1 \in Nat /\ \A j \in OverdueInvoices : j >= i + 1 => j >= i
        BY <1>3 DEF OverdueInvoices
      <3>2. \A q \in AgentRuns : \A j \in OverdueInvoices :
               j >= agentRun'[q].next => j >= agentRun[q].next
        BY <2>1, <3>1 DEF i
      <3>3. \A q \in AgentRuns : /\ agentRun'[q].next \in Nat
                                 /\ DOMAIN agentRun'[q] = DOMAIN agentRun[q]
        BY <2>1, <3>1 DEF AssistantIInv, RunsSound, RunSound
      <3>4. \A q \in AgentRuns : agentRun'[q].pc = "acted" =>
               agentRun[q].pc = "acted" /\ agentRun'[q].next = agentRun[q].next
        BY <2>1
      <3>5. earlyReversal' = earlyReversal /\ aiAction' = aiAction
        BY <1>2, <1>6
      <3>6. DOMAIN aiAction = AgentRuns /\ RunsSound
        BY DEF AssistantIInv, RunsSound
      <3>7. \A q \in AgentRuns : RunSound(q)'
        <4> SUFFICES ASSUME NEW q \in AgentRuns
                     PROVE  RunSound(q)'
          OBVIOUS
        <4>1. RunSound(q)
          BY <3>6 DEF RunsSound
        <4> QED  BY <3>2, <3>3, <3>4, <3>5, <4>1 DEF RunSound
      <3> QED  BY <2>1, <3>5, <3>6, <3>7 DEF RunsSound
    <2>3. ClearedOnce'
      BY <1>2, <1>6, <2>1 DEF AssistantIInv, ClearedOnce
    <2>4. KillSwitchHalts' /\ EffectsFollowActions'
      BY <1>2, <1>6 DEF AssistantIInv, KillSwitchHalts, EffectsFollowActions
    <2> QED  BY <1>1, <2>2, <2>3, <2>4 DEF AssistantIInv
  <1> QED  BY <1>2, <1>5, <1>6

\* Every step of the AI service keeps the invariant.
LEMMA AssistantStep ==
    ASSUME AssistantIInv, AssistantNext
    PROVE  AssistantIInv'
  <1>1. ASSUME NEW p \in Pods, NEW scope \in KillScopes, NEW on \in BOOLEAN,
               SetKillSwitch(p, scope, on)
        PROVE  AssistantIInv'
    <2>1. /\ ProposalsSound'
          /\ UsageSound'
          /\ EffectsFollowActions'
          /\ ProposalAppliedOnce'
          /\ UsageIsOfTheMonth'
      BY <1>1 DEF AssistantIInv, ProposalsSound, UsageSound, EffectsFollowActions,
         ProposalAppliedOnce, UsageIsOfTheMonth, BeingConfirmed, SetKillSwitch, actionVars,
         copilotVars, budgetVars
    <2>2. RunsSound'
      BY <1>1 DEF AssistantIInv, RunsSound, RunSound, SetKillSwitch, actionVars
    <2>3. ClearedOnce'
      BY <1>1 DEF AssistantIInv, ClearedOnce, SetKillSwitch
    <2>4. KillSwitchHalts'
      BY <1>1 DEF AssistantIInv, KillSwitchHalts, SetKillSwitch
    <2>q. QED  BY <2>1, <2>2, <2>3, <2>4 DEF AssistantIInv
  <1>2. ASSUME NEW p \in Pods, GetKillSwitch(p)
        PROVE  AssistantIInv'
    <2>1. /\ RunsSound'
          /\ ClearedOnce'
          /\ ProposalsSound'
          /\ UsageSound'
          /\ KillSwitchHalts'
          /\ EffectsFollowActions'
          /\ ProposalAppliedOnce'
          /\ UsageIsOfTheMonth'
      BY <1>2 DEF AssistantIInv, RunsSound, RunSound, ClearedOnce, ProposalsSound,
         UsageSound, KillSwitchHalts, EffectsFollowActions, ProposalAppliedOnce,
         UsageIsOfTheMonth, BeingConfirmed, GetKillSwitch, actionVars, copilotVars,
         budgetVars
    <2>q. QED  BY <2>1 DEF AssistantIInv
  <1>3. ASSUME NEW p \in Pods, RestartPod(p)
        PROVE  AssistantIInv'
    <2>1. /\ ProposalsSound'
          /\ UsageSound'
          /\ KillSwitchHalts'
          /\ EffectsFollowActions'
          /\ ProposalAppliedOnce'
          /\ UsageIsOfTheMonth'
      BY <1>3 DEF AssistantIInv, ProposalsSound, UsageSound, KillSwitchHalts,
         EffectsFollowActions, ProposalAppliedOnce, UsageIsOfTheMonth, BeingConfirmed,
         RestartPod, actionVars, copilotVars, budgetVars
    <2>2. RunsSound'
      BY <1>3 DEF AssistantIInv, RunsSound, RunSound, RestartPod, actionVars
    <2>3. ClearedOnce'
      BY <1>3 DEF AssistantIInv, ClearedOnce, RestartPod
    <2>q. QED  BY <2>1, <2>2, <2>3 DEF AssistantIInv
  <1>4. ASSUME NEW doc \in PolicyDocs, PublishPolicy(doc)
        PROVE  AssistantIInv'
    <2>1. /\ RunsSound'
          /\ ClearedOnce'
          /\ ProposalsSound'
          /\ UsageSound'
          /\ KillSwitchHalts'
          /\ EffectsFollowActions'
          /\ ProposalAppliedOnce'
          /\ UsageIsOfTheMonth'
      BY <1>4 DEF AssistantIInv, RunsSound, RunSound, ClearedOnce, ProposalsSound,
         UsageSound, KillSwitchHalts, EffectsFollowActions, ProposalAppliedOnce,
         UsageIsOfTheMonth, BeingConfirmed, PublishPolicy, actionVars, copilotVars,
         budgetVars, killVars
    <2>q. QED  BY <2>1 DEF AssistantIInv
  <1>5. ASSUME NEW r \in AgentRuns, NEW p \in Pods, StartAndRun(r, p)
        PROVE  AssistantIInv'
    <2>1. /\ ProposalsSound'
          /\ UsageSound'
          /\ KillSwitchHalts'
          /\ EffectsFollowActions'
          /\ ProposalAppliedOnce'
          /\ UsageIsOfTheMonth'
      BY <1>5 DEF AssistantIInv, ProposalsSound, UsageSound, KillSwitchHalts,
         EffectsFollowActions, ProposalAppliedOnce, UsageIsOfTheMonth, BeingConfirmed,
         StartAndRun, actionVars, copilotVars, budgetVars
    <2>2. RunsSound'
      BY <1>5 DEF AssistantIInv, RunsSound, RunSound, StartAndRun, actionVars
    <2>3. ClearedOnce'
      BY <1>5 DEF AssistantIInv, ClearedOnce, StartAndRun
    <2>q. QED  BY <2>1, <2>2, <2>3 DEF AssistantIInv
  <1>6. ASSUME NEW r \in AgentRuns, InsertRun(r)
        PROVE  AssistantIInv'
    <2>1. /\ ProposalsSound'
          /\ UsageSound'
          /\ KillSwitchHalts'
          /\ EffectsFollowActions'
          /\ ProposalAppliedOnce'
          /\ UsageIsOfTheMonth'
      BY <1>6 DEF AssistantIInv, ProposalsSound, UsageSound, KillSwitchHalts,
         EffectsFollowActions, ProposalAppliedOnce, UsageIsOfTheMonth, BeingConfirmed,
         InsertRun, actionVars, copilotVars, budgetVars, killVars
    <2>2. RunsSound'
      BY <1>6 DEF AssistantIInv, RunsSound, RunSound, OverdueInvoices, InsertRun,
         actionVars, copilotVars, budgetVars, killVars
    <2>3. ClearedOnce'
      BY <1>6 DEF AssistantIInv, ClearedOnce, InsertRun, killVars
    <2>q. QED  BY <2>1, <2>2, <2>3 DEF AssistantIInv
  <1>7. ASSUME NEW r \in AgentRuns, NextInvoice(r)
        PROVE  AssistantIInv'
    <2>1. /\ ProposalsSound'
          /\ UsageSound'
          /\ KillSwitchHalts'
          /\ EffectsFollowActions'
          /\ ProposalAppliedOnce'
          /\ UsageIsOfTheMonth'
      BY <1>7 DEF AssistantIInv, ProposalsSound, UsageSound, KillSwitchHalts,
         EffectsFollowActions, ProposalAppliedOnce, UsageIsOfTheMonth, BeingConfirmed,
         NextInvoice, actionVars, copilotVars, budgetVars
    <2>2. RunsSound'
      <3>1. PICK pc \in {"finished", "killed", "cleared"} : agentRun' = [agentRun EXCEPT ![r].pc = pc]
        BY <1>7 DEF NextInvoice, AgentGoes
      <3>2. UNCHANGED <<aiAction, earlyReversal>>
        BY <1>7 DEF NextInvoice, actionVars
      <3>q. QED  BY <3>1, <3>2 DEF AssistantIInv, RunsSound, RunSound
    <2>3. ClearedOnce'
      <3>1. PICK pc \in {"finished", "killed", "cleared"} :
               agentRun' = [agentRun EXCEPT ![r].pc = pc] /\ (pc = "cleared" => engaged = {})
        BY <1>7 DEF NextInvoice, AgentGoes, IsKilled
      <3>2. UNCHANGED <<engaged, afterKill>>
        BY <1>7 DEF NextInvoice
      <3>q. QED  BY <3>1, <3>2 DEF AssistantIInv, ClearedOnce
    <2>q. QED  BY <2>1, <2>2, <2>3 DEF AssistantIInv
  <1>8. ASSUME NEW r \in AgentRuns, ChaseInvoice(r)
        PROVE  AssistantIInv'
    BY <1>8, ChaseStep
  <1>9. ASSUME NEW r \in AgentRuns, RecordEffect(r)
        PROVE  AssistantIInv'
    <2>1. /\ ProposalsSound'
          /\ UsageSound'
          /\ KillSwitchHalts'
          /\ ProposalAppliedOnce'
          /\ UsageIsOfTheMonth'
      BY <1>9 DEF AssistantIInv, ProposalsSound, UsageSound, KillSwitchHalts,
         ProposalAppliedOnce, UsageIsOfTheMonth, BeingConfirmed, RecordEffect, killVars,
         copilotVars, budgetVars
    <2>2. RunsSound'
      BY <1>9 DEF AssistantIInv, RunsSound, RunSound, OverdueInvoices, RecordEffect
    <2>3. ClearedOnce'
      BY <1>9 DEF AssistantIInv, ClearedOnce, RecordEffect, killVars
    <2>4. EffectsFollowActions'
      <3>1. /\ aiAction' = [aiAction EXCEPT ![r][agentRun[r].next].effect = "active"]
            /\ earlyReversal' = earlyReversal /\ agentRun[r].pc = "acted"
        BY <1>9 DEF RecordEffect
      <3>q. QED  BY <3>1 DEF AssistantIInv, RunsSound, RunSound, EffectsFollowActions
    <2>q. QED  BY <2>1, <2>2, <2>3, <2>4 DEF AssistantIInv
  <1>10. ASSUME NEW r \in AgentRuns, MarkRun(r)
        PROVE  AssistantIInv'
    <2>1. /\ ProposalsSound'
          /\ UsageSound'
          /\ KillSwitchHalts'
          /\ EffectsFollowActions'
          /\ ProposalAppliedOnce'
          /\ UsageIsOfTheMonth'
      BY <1>10 DEF AssistantIInv, ProposalsSound, UsageSound, KillSwitchHalts,
         EffectsFollowActions, ProposalAppliedOnce, UsageIsOfTheMonth, BeingConfirmed,
         MarkRun, actionVars, copilotVars, budgetVars, killVars
    <2>2. RunsSound'
      BY <1>10 DEF AssistantIInv, RunsSound, RunSound, OverdueInvoices, MarkRun, actionVars,
         copilotVars, budgetVars, killVars
    <2>3. ClearedOnce'
      BY <1>10 DEF AssistantIInv, ClearedOnce, MarkRun, killVars
    <2>q. QED  BY <2>1, <2>2, <2>3 DEF AssistantIInv
  <1>11. ASSUME NEW r \in AgentRuns, AccountRun(r)
        PROVE  AssistantIInv'
    <2>1. /\ ProposalsSound'
          /\ KillSwitchHalts'
          /\ EffectsFollowActions'
          /\ ProposalAppliedOnce'
      BY <1>11 DEF AssistantIInv, ProposalsSound, KillSwitchHalts, EffectsFollowActions,
         ProposalAppliedOnce, BeingConfirmed, AccountRun, killVars, actionVars, copilotVars
    <2>2. RunsSound'
      BY <1>11 DEF AssistantIInv, RunsSound, RunSound, AccountRun, actionVars, AgentGoes
    <2>3. ClearedOnce'
      BY <1>11 DEF AssistantIInv, ClearedOnce, AccountRun, killVars, AgentGoes
    <2>4. UsageSound'
      <3>1. CASE RecordTokenUsage(1)
        BY <3>1, UsageCounted DEF AssistantIInv
      <3>2. CASE UNCHANGED budgetVars
        BY <3>2 DEF AssistantIInv, UsageSound, budgetVars
      <3>q. QED  BY <1>11, <3>1, <3>2 DEF AccountRun
    <2>5. UsageIsOfTheMonth'
      <3>1. CASE RecordTokenUsage(1)
        BY <3>1, UsageCounted DEF AssistantIInv
      <3>2. CASE UNCHANGED budgetVars
        BY <3>2 DEF AssistantIInv, UsageIsOfTheMonth, budgetVars
      <3>q. QED  BY <1>11, <3>1, <3>2 DEF AccountRun
    <2>q. QED  BY <2>1, <2>2, <2>3, <2>4, <2>5 DEF AssistantIInv
  <1>12. ASSUME NEW r \in AgentRuns, NEW i \in OverdueInvoices, ReverseAction(r, i)
        PROVE  AssistantIInv'
    <2>1. /\ ClearedOnce'
          /\ ProposalsSound'
          /\ UsageSound'
          /\ KillSwitchHalts'
          /\ ProposalAppliedOnce'
          /\ UsageIsOfTheMonth'
      BY <1>12 DEF AssistantIInv, ClearedOnce, ProposalsSound, UsageSound, KillSwitchHalts,
         ProposalAppliedOnce, UsageIsOfTheMonth, BeingConfirmed, ReverseAction, killVars,
         copilotVars, budgetVars
    <2>2. RunsSound'
      BY <1>12 DEF AssistantIInv, RunsSound, RunSound, ReverseAction
    <2>3. EffectsFollowActions'
      BY <1>12 DEF AssistantIInv, EffectsFollowActions, RunsSound, RunSound,
         OverdueInvoices, ReverseAction, killVars, copilotVars, budgetVars
    <2>q. QED  BY <2>1, <2>2, <2>3 DEF AssistantIInv
  <1>13. CASE NextAiMonth
    <2>1. /\ RunsSound'
          /\ ClearedOnce'
          /\ ProposalsSound'
          /\ KillSwitchHalts'
          /\ EffectsFollowActions'
          /\ ProposalAppliedOnce'
      BY <1>13 DEF AssistantIInv, RunsSound, RunSound, ClearedOnce, ProposalsSound,
         KillSwitchHalts, EffectsFollowActions, ProposalAppliedOnce, BeingConfirmed,
         NextAiMonth, killVars, actionVars, copilotVars
    <2>2. UsageSound'
      BY <1>13 DEF AssistantIInv, UsageSound, NextAiMonth
    <2>3. UsageIsOfTheMonth'
      BY <1>13 DEF AssistantIInv, UsageIsOfTheMonth, UsageSound, NextAiMonth
    <2>q. QED  BY <2>1, <2>2, <2>3 DEF AssistantIInv
  <1>14. ASSUME NEW x \in AiTxns, ProcessChat(x)
        PROVE  AssistantIInv'
    <2>1. /\ RunsSound'
          /\ ClearedOnce'
          /\ UsageSound'
          /\ KillSwitchHalts'
          /\ EffectsFollowActions'
          /\ ProposalAppliedOnce'
          /\ UsageIsOfTheMonth'
      BY <1>14 DEF AssistantIInv, RunsSound, RunSound, ClearedOnce, UsageSound,
         KillSwitchHalts, EffectsFollowActions, ProposalAppliedOnce, UsageIsOfTheMonth,
         ProcessChat, AiReads, killVars, actionVars, budgetVars
    <2>2. ProposalsSound'
      BY <1>14 DEF AssistantIInv, ProposalsSound, BeingConfirmed, ProcessChat, AiReads,
         NoAiTxn
    <2>q. QED  BY <2>1, <2>2 DEF AssistantIInv
  <1>15. ASSUME NEW x \in AiTxns, PersistInteraction(x)
        PROVE  AssistantIInv'
    <2>1. /\ RunsSound'
          /\ ClearedOnce'
          /\ KillSwitchHalts'
          /\ EffectsFollowActions'
          /\ ProposalAppliedOnce'
      BY <1>15 DEF AssistantIInv, RunsSound, RunSound, ClearedOnce, KillSwitchHalts,
         EffectsFollowActions, ProposalAppliedOnce, PersistInteraction, NotCopilot,
         killVars, actionVars
    <2>2. ProposalsSound'
      BY <1>15 DEF AssistantIInv, ProposalsSound, BeingConfirmed, PersistInteraction,
         EndAiTxn, NoAiTxn
    <2>3. UsageSound'
      BY <1>15, UsageCounted DEF AssistantIInv, PersistInteraction
    <2>4. UsageIsOfTheMonth'
      BY <1>15, UsageCounted DEF AssistantIInv, PersistInteraction
    <2>q. QED  BY <2>1, <2>2, <2>3, <2>4 DEF AssistantIInv
  <1>16. ASSUME NEW x \in AiTxns, DecideSummaryRead(x)
        PROVE  AssistantIInv'
    <2>1. /\ RunsSound'
          /\ ClearedOnce'
          /\ UsageSound'
          /\ KillSwitchHalts'
          /\ EffectsFollowActions'
          /\ ProposalAppliedOnce'
          /\ UsageIsOfTheMonth'
      BY <1>16 DEF AssistantIInv, RunsSound, RunSound, ClearedOnce, UsageSound,
         KillSwitchHalts, EffectsFollowActions, ProposalAppliedOnce, UsageIsOfTheMonth,
         DecideSummaryRead, AiReads, killVars, actionVars, budgetVars
    <2>2. ProposalsSound'
      BY <1>16 DEF AssistantIInv, ProposalsSound, BeingConfirmed, DecideSummaryRead,
         AiReads, NoAiTxn
    <2>q. QED  BY <2>1, <2>2 DEF AssistantIInv
  <1>17. ASSUME NEW p \in Proposals, PersistProposal(p)
        PROVE  AssistantIInv'
    <2>1. /\ RunsSound'
          /\ ClearedOnce'
          /\ UsageSound'
          /\ KillSwitchHalts'
          /\ EffectsFollowActions'
          /\ UsageIsOfTheMonth'
      BY <1>17 DEF AssistantIInv, RunsSound, RunSound, ClearedOnce, UsageSound,
         KillSwitchHalts, EffectsFollowActions, UsageIsOfTheMonth, PersistProposal,
         NotCopilot, killVars, actionVars, budgetVars
    <2>2. ProposalsSound'
      BY <1>17 DEF AssistantIInv, ProposalsSound, BeingConfirmed, PersistProposal
    <2>3. ProposalAppliedOnce'
      BY <1>17 DEF AssistantIInv, ProposalAppliedOnce, PersistProposal
    <2>q. QED  BY <2>1, <2>2, <2>3 DEF AssistantIInv
  <1>18. ASSUME NEW p \in Proposals, CancelProposal(p)
        PROVE  AssistantIInv'
    <2>1. /\ RunsSound'
          /\ ClearedOnce'
          /\ UsageSound'
          /\ KillSwitchHalts'
          /\ EffectsFollowActions'
          /\ UsageIsOfTheMonth'
      BY <1>18 DEF AssistantIInv, RunsSound, RunSound, ClearedOnce, UsageSound,
         KillSwitchHalts, EffectsFollowActions, UsageIsOfTheMonth, CancelProposal,
         NotCopilot, killVars, actionVars, budgetVars
    <2>2. ProposalsSound'
      BY <1>18 DEF AssistantIInv, ProposalsSound, BeingConfirmed, CancelProposal
    <2>3. ProposalAppliedOnce'
      BY <1>18 DEF AssistantIInv, ProposalAppliedOnce, ProposalsSound, CancelProposal
    <2>q. QED  BY <2>1, <2>2, <2>3 DEF AssistantIInv
  <1>19. ASSUME NEW x \in AiTxns, NEW p \in Proposals, ConfirmProposalRead(x, p)
        PROVE  AssistantIInv'
    <2>1. /\ RunsSound'
          /\ ClearedOnce'
          /\ UsageSound'
          /\ KillSwitchHalts'
          /\ EffectsFollowActions'
          /\ ProposalAppliedOnce'
          /\ UsageIsOfTheMonth'
      BY <1>19 DEF AssistantIInv, RunsSound, RunSound, ClearedOnce, UsageSound,
         KillSwitchHalts, EffectsFollowActions, ProposalAppliedOnce, UsageIsOfTheMonth,
         ConfirmProposalRead, AiReads, killVars, actionVars, budgetVars
    <2>2. ProposalsSound'
      BY <1>19 DEF AssistantIInv, ProposalsSound, BeingConfirmed, ConfirmProposalRead,
         AiReads, NoAiTxn
    <2>q. QED  BY <2>1, <2>2 DEF AssistantIInv
  <1>20. ASSUME NEW x \in AiTxns, NEW answer \in {"ok", "refused", "lost"},
                ForwardUserRequest(x, answer)
        PROVE  AssistantIInv'
    <2>1. /\ RunsSound'
          /\ ClearedOnce'
          /\ UsageSound'
          /\ KillSwitchHalts'
          /\ EffectsFollowActions'
          /\ UsageIsOfTheMonth'
      BY <1>20 DEF AssistantIInv, RunsSound, RunSound, ClearedOnce, UsageSound,
         KillSwitchHalts, EffectsFollowActions, UsageIsOfTheMonth, ForwardUserRequest,
         NotCopilot, killVars, actionVars, budgetVars
    <2>2. ProposalsSound'
      BY <1>20 DEF AssistantIInv, ProposalsSound, BeingConfirmed, ForwardUserRequest,
         NoAiTxn
    <2>3. ProposalAppliedOnce'
      BY <1>20 DEF AssistantIInv, ProposalAppliedOnce, ProposalsSound, ForwardUserRequest
    <2>q. QED  BY <2>1, <2>2, <2>3 DEF AssistantIInv
  <1>21. ASSUME NEW x \in AiTxns, NEW dies \in BOOLEAN, ConfirmProposalWrite(x, dies)
        PROVE  AssistantIInv'
    <2>1. /\ RunsSound'
          /\ ClearedOnce'
          /\ UsageSound'
          /\ KillSwitchHalts'
          /\ EffectsFollowActions'
          /\ UsageIsOfTheMonth'
      BY <1>21 DEF AssistantIInv, RunsSound, RunSound, ClearedOnce, UsageSound,
         KillSwitchHalts, EffectsFollowActions, UsageIsOfTheMonth, ConfirmProposalWrite,
         NotCopilot, killVars, actionVars, budgetVars
    <2>2. ProposalsSound'
      BY <1>21 DEF AssistantIInv, ProposalsSound, BeingConfirmed, ConfirmProposalWrite,
         EndAiTxn, NoAiTxn
    <2>3. ProposalAppliedOnce'
      BY <1>21 DEF AssistantIInv, ProposalAppliedOnce, ConfirmProposalWrite
    <2>q. QED  BY <2>1, <2>2, <2>3 DEF AssistantIInv
  <1>22. CASE CreateFromCalendar
    <2>1. /\ RunsSound'
          /\ ClearedOnce'
          /\ ProposalsSound'
          /\ UsageSound'
          /\ KillSwitchHalts'
          /\ EffectsFollowActions'
          /\ ProposalAppliedOnce'
          /\ UsageIsOfTheMonth'
      BY <1>22 DEF AssistantIInv, RunsSound, RunSound, ClearedOnce, ProposalsSound,
         UsageSound, KillSwitchHalts, EffectsFollowActions, ProposalAppliedOnce,
         UsageIsOfTheMonth, BeingConfirmed, CreateFromCalendar, NotCopilot, killVars,
         actionVars, budgetVars
    <2>q. QED  BY <2>1 DEF AssistantIInv
  <1>23. ASSUME NEW x \in AiTxns, NEW to \in {"accepted", "rejected"}, DecideSummaryWrite(x, to)
        PROVE  AssistantIInv'
    <2>1. /\ RunsSound'
          /\ ClearedOnce'
          /\ UsageSound'
          /\ KillSwitchHalts'
          /\ EffectsFollowActions'
          /\ UsageIsOfTheMonth'
      BY <1>23 DEF AssistantIInv, RunsSound, RunSound, ClearedOnce, UsageSound,
         KillSwitchHalts, EffectsFollowActions, UsageIsOfTheMonth, DecideSummaryWrite,
         NotCopilot, killVars, actionVars, budgetVars
    <2>2. ProposalsSound'
      BY <1>23 DEF AssistantIInv, ProposalsSound, BeingConfirmed, DecideSummaryWrite,
         EndAiTxn, NoAiTxn
    <2>3. ProposalAppliedOnce'
      BY <1>23 DEF AssistantIInv, ProposalAppliedOnce, DecideSummaryWrite
    <2>q. QED  BY <2>1, <2>2, <2>3 DEF AssistantIInv
  <1>24. ASSUME NEW on \in BOOLEAN, PatchSettings(on)
        PROVE  AssistantIInv'
    <2>1. /\ RunsSound'
          /\ ClearedOnce'
          /\ ProposalsSound'
          /\ KillSwitchHalts'
          /\ EffectsFollowActions'
          /\ ProposalAppliedOnce'
      BY <1>24 DEF AssistantIInv, RunsSound, RunSound, ClearedOnce, ProposalsSound,
         KillSwitchHalts, EffectsFollowActions, ProposalAppliedOnce, BeingConfirmed,
         PatchSettings, NotCopilot, killVars, actionVars, copilotVars
    <2>2. UsageSound'
      BY <1>24 DEF AssistantIInv, UsageSound, PatchSettings
    <2>3. UsageIsOfTheMonth'
      BY <1>24 DEF AssistantIInv, UsageIsOfTheMonth, PatchSettings
    <2>q. QED  BY <2>1, <2>2, <2>3 DEF AssistantIInv
  <1>q. QED  BY <1>1, <1>2, <1>3, <1>4, <1>5, <1>6, <1>7, <1>8, <1>9, <1>10, <1>11, <1>12,
                <1>13, <1>14, <1>15, <1>16, <1>17, <1>18, <1>19, <1>20, <1>21, <1>22, <1>23,
                <1>24 DEF AssistantNext, AgentNext, CopilotNext, ExtractDocument,
                PersistInsight, RunTool

\* No run, no proposal, nothing spent.
LEMMA AssistantStarts == AssistantInit => AssistantIInv
  <1> SUFFICES ASSUME AssistantInit PROVE AssistantIInv
    OBVIOUS
  <1>1. RunsSound /\ ClearedOnce /\ KillSwitchHalts
    BY DEF AssistantInit, RunsSound, RunSound, ClearedOnce, KillSwitchHalts, NoAgentRun
  <1>2. ProposalsSound /\ ProposalAppliedOnce
    BY DEF AssistantInit, ProposalsSound, ProposalAppliedOnce, NoAiTxn, BeingConfirmed
  <1>3. UsageSound /\ UsageIsOfTheMonth
    BY DEF AssistantInit, UsageSound, UsageIsOfTheMonth
  <1>4. EffectsFollowActions
    BY DEF AssistantInit, EffectsFollowActions
  <1> QED  BY <1>1, <1>2, <1>3, <1>4 DEF AssistantIInv

\* Stuttering included, every step keeps the invariant.
LEMMA AssistantKeeps == AssistantIInv /\ [AssistantNext]_assistantVars => AssistantIInv'
  <1>1. AssistantIInv /\ UNCHANGED assistantVars => AssistantIInv'
    BY DEF assistantVars, AssistantIInv, RunsSound, RunSound, ClearedOnce, ProposalsSound,
       UsageSound, KillSwitchHalts, EffectsFollowActions, ProposalAppliedOnce,
       UsageIsOfTheMonth, BeingConfirmed
  <1> QED  BY <1>1, AssistantStep

-----------------------------------------------------------------------------
(* The walk of a simulation over a graph *)

\* A set of naturals up to m has a least element.
LEMMA LeastElement ==
    ASSUME NEW m \in Nat, NEW S, S \subseteq 0 .. m, S # {}
    PROVE  \E n \in S : \A k \in S : n <= k
  <1>0. IsFiniteSet(0 .. m)
    <2>1. 0 \in Int /\ m \in Int
      OBVIOUS
    <2> QED  BY <2>1, FS_Interval
  <1> DEFINE I == 0 .. m
             T == {0 .. n : n \in S}
  <1>1. IsFiniteSet(I)
    BY <1>0
  <1>2. T \subseteq SUBSET I /\ T # {}
    <2>1. ASSUME NEW n \in S
          PROVE  0 .. n \in SUBSET (0 .. m)
      OBVIOUS
    <2> QED  BY <2>1
  <1> HIDE DEF I
  <1>3. FiniteSubsetsOf(I) = SUBSET I
    BY <1>1, FS_FiniteSubsetsOfFinite
  <1>4. IsWellFoundedOn(StrictSubsetOrdering(I), FiniteSubsetsOf(I))
    BY <1>1, FS_StrictSubsetOrderingWellFounded
  <1>5. PICK s \in T : \A t \in T : ~ (<<t, s>> \in StrictSubsetOrdering(I))
    <2> HIDE DEF T
    <2> QED  BY <1>2, <1>3, <1>4, WFMin
  <1>6. PICK n \in S : s = 0 .. n
    OBVIOUS
  <1>7. ASSUME NEW k \in S, k < n
        PROVE  FALSE
    <2> DEFINE t == 0 .. k
    <2>1. t \in T /\ t \subseteq s /\ t # s /\ t \in SUBSET I /\ s \in SUBSET I
      BY <1>6, <1>7 DEF I
    <2> HIDE DEF t, T
    <2>2. <<t, s>> \in StrictSubsetOrdering(I)
      BY <2>1 DEF StrictSubsetOrdering
    <2> QED  BY <1>5, <2>1, <2>2
  <1> QED  BY <1>7

\* h is the walk over a graph of so many steps.
Walks(h, g, p, max) ==
    h = [n \in 0 .. max |-> IF n = 0 THEN g.entry ELSE SimulatedNext(g, p, h[n - 1])]

\* A walk gets one step longer.
LEMMA WalkExtends ==
    ASSUME NEW g, NEW p, NEW m \in Nat, NEW h, Walks(h, g, p, m)
    PROVE  \E e : Walks(e, g, p, m + 1)
  <1> DEFINE e == [n \in 0 .. m + 1 |-> IF n = 0 THEN g.entry ELSE SimulatedNext(g, p, h[n - 1])]
  <1>1. \A n \in 0 .. m : e[n] = h[n]
    BY DEF Walks
  <1>2. \A n \in 0 .. m + 1 : n # 0 => n - 1 \in 0 .. m
    OBVIOUS
  <1>3. e = [n \in 0 .. m + 1 |-> IF n = 0 THEN g.entry ELSE SimulatedNext(g, p, e[n - 1])]
    BY <1>1, <1>2
  <1> HIDE DEF e
  <1> QED  BY <1>3 DEF Walks

\* There is a walk of every length.
LEMMA WalkExists ==
    ASSUME NEW g, NEW p, NEW max \in Nat
    PROVE  \E h : Walks(h, g, p, max)
  <1> DEFINE T == {n \in 0 .. max : ~ \E h : Walks(h, g, p, n)}
  <1>1. SUFFICES ASSUME T # {}
                 PROVE  FALSE
    OBVIOUS
  <1>2. PICK n \in T : \A k \in T : n <= k
    <2>1. T \subseteq 0 .. max
      OBVIOUS
    <2> HIDE DEF T
    <2> QED  BY <1>1, <2>1, LeastElement
  <1>3. n # 0
    <2>1. Walks([j \in 0 .. 0 |-> g.entry], g, p, 0)
      BY DEF Walks
    <2> QED  BY <1>2, <2>1
  <1>4. n - 1 \in 0 .. max /\ n - 1 \notin T
    BY <1>2, <1>3
  <1>5. PICK h : Walks(h, g, p, n - 1)
    BY <1>4
  <1>6. \E e : Walks(e, g, p, (n - 1) + 1)
    BY <1>4, <1>5, WalkExtends
  <1> QED  BY <1>2, <1>6

\* The simulation walks: it starts at the entry and goes from node to node.
LEMMA SimulateWalks ==
    ASSUME NEW g, NEW p, NEW max \in Nat
    PROVE  /\ SimulateWalk(g, p, max)[0] = g.entry
           /\ \A n \in 1 .. max : SimulateWalk(g, p, max)[n] =
                                     SimulatedNext(g, p, SimulateWalk(g, p, max)[n - 1])
  <1> DEFINE w == CHOOSE h : Walks(h, g, p, max)
  <1>1. SimulateWalk(g, p, max) = w
    BY DEF SimulateWalk, Walks
  <1>2. Walks(w, g, p, max)
    BY WalkExists
  <1> HIDE DEF w
  <1>3. /\ w[0] = g.entry
        /\ \A n \in 1 .. max : w[n] = SimulatedNext(g, p, w[n - 1])
    BY <1>2 DEF Walks
  <1> QED  BY <1>1, <1>3

\* A shorter walk is the beginning of a longer one.
LEMMA WalksAgree ==
    ASSUME NEW g, NEW p, NEW max \in Nat, NEW c \in 0 .. max
    PROVE  \A n \in 0 .. c : SimulateWalk(g, p, c)[n] = SimulateWalk(g, p, max)[n]
  <1> DEFINE w == SimulateWalk(g, p, max)
             v == SimulateWalk(g, p, c)
             T == {n \in 0 .. c : v[n] # w[n]}
  <1>0. /\ w[0] = g.entry /\ \A n \in 1 .. max : w[n] = SimulatedNext(g, p, w[n - 1])
        /\ v[0] = g.entry /\ \A n \in 1 .. c : v[n] = SimulatedNext(g, p, v[n - 1])
    BY SimulateWalks
  <1> HIDE DEF w, v
  <1>1. SUFFICES ASSUME T # {}
                 PROVE  FALSE
    BY DEF w, v
  <1>2. PICK n \in T : \A k \in T : n <= k
    <2>1. T \subseteq 0 .. c /\ c \in Nat
      OBVIOUS
    <2> HIDE DEF T
    <2> QED  BY <1>1, <2>1, LeastElement
  <1>3. n # 0
    BY <1>0
  <1>4. n - 1 \in 0 .. c /\ n - 1 \notin T
    BY <1>2, <1>3
  <1> QED  BY <1>0, <1>3, <1>4

\* Where a walk has left the graph, it stays outside.
LEMMA WalkEnds ==
    ASSUME NEW g \in Graphs, NEW p, NEW max \in Nat, NEW m \in 0 .. max,
           SimulateWalk(g, p, max)[m] \notin DOMAIN g.nodes
    PROVE  \A n \in m .. max : SimulateWalk(g, p, max)[n] \notin DOMAIN g.nodes
  <1> DEFINE w == SimulateWalk(g, p, max)
             T == {n \in m .. max : w[n] \in DOMAIN g.nodes}
  <1>0. /\ w[m] \notin DOMAIN g.nodes
        /\ \A n \in 1 .. max : w[n] = SimulatedNext(g, p, w[n - 1])
    BY SimulateWalks
  <1> HIDE DEF w
  <1>1. SUFFICES ASSUME T # {}
                 PROVE  FALSE
    BY DEF w
  <1>2. PICK n \in T : \A k \in T : n <= k
    <2>1. T \subseteq 0 .. max
      OBVIOUS
    <2> HIDE DEF T
    <2> QED  BY <1>1, <2>1, LeastElement
  <1>3. n # m
    BY <1>0
  <1>4. n - 1 \in m .. max /\ n - 1 \notin T
    BY <1>2, <1>3
  <1>5. w[n] = NoNode
    BY <1>0, <1>2, <1>3, <1>4 DEF SimulatedNext
  <1> QED  BY <1>2, <1>5, WorkflowEngineAssumption
-----------------------------------------------------------------------------
(* Workflow engine *)

\* An instance is a row with a count of its steps; an id that is not used yet
\* has recorded nothing.
InstanceSound(i) ==
    /\ DOMAIN instance[i] = {"status", "version", "node", "stepCount", "payload", "due"}
    /\ {instance[i].stepCount, steps[i], calls[i]} \subseteq Nat
    /\ instance[i].status = "none" => instance[i].stepCount = 0

InstancesSound ==
    /\ DOMAIN instance = Instances /\ DOMAIN steps = Instances /\ DOMAIN calls = Instances
    /\ \A i \in Instances : InstanceSound(i)

RecordsIInv ==
    /\ InstancesSound /\ StepsAreRecorded /\ ConcurrencyCapHolds
    /\ bounds.concurrent \in Nat

\* With the active instances among those of before, the cap holds as before.
LEMMA NoneActivated ==
    ASSUME RecordsIInv, ActiveInstances' \subseteq ActiveInstances,
           bounds' = bounds, startRaces' = startRaces, boundsMoved' = boundsMoved
    PROVE  ConcurrencyCapHolds'
  <1>1. ActiveInstances \subseteq Instances
    BY DEF ActiveInstances
  <1>2. IsFiniteSet(ActiveInstances)
    BY <1>1, FS_Subset, WorkflowEngineAssumption
  <1>3. /\ IsFiniteSet(ActiveInstances')
              /\ Cardinality(ActiveInstances') <= Cardinality(ActiveInstances)
    BY <1>2, FS_Subset
  <1>4. Cardinality(ActiveInstances) \in Nat /\ Cardinality(ActiveInstances') \in Nat
    BY <1>2, <1>3, FS_CardinalityType
  <1>5. bounds.concurrent \in Nat /\ ConcurrencyCapHolds
    BY DEF RecordsIInv
  <1> QED  BY <1>3, <1>4, <1>5 DEF ConcurrencyCapHolds

\* The steps of the driver, of a user and of the monitor: the rows of one
\* instance change, and no instance becomes active.
LEMMA DriveStep ==
    ASSUME RecordsIInv, NEW i \in Instances, NEW st, NEW inc \in {0, 1},
           instance[i].status \in {"running", "waiting"},
           st \in {"running", "waiting", "completed", "cancelled", "sla_breached"},
           DOMAIN instance' = Instances,
           \A j \in Instances \ {i} : instance'[j] = instance[j],
           DOMAIN instance'[i] = DOMAIN instance[i],
           instance'[i].status = st, instance'[i].stepCount = instance[i].stepCount + inc
    PROVE  /\ ActiveInstances' \subseteq ActiveInstances
           /\ DOMAIN instance' = Instances
           /\ \A j \in Instances :
                 /\ DOMAIN instance'[j] = {"status", "version", "node", "stepCount", "payload", "due"}
                 /\ instance'[j].stepCount \in Nat
                 /\ instance'[j].status = "none" => instance'[j].stepCount = 0
  BY DEF RecordsIInv, InstancesSound, InstanceSound, ActiveInstances

\* Every step of the workflow service keeps the records sound.
LEMMA RecordsStep ==
    ASSUME RecordsIInv, WorkflowEngineNext
    PROVE  RecordsIInv'
  <1> USE DEF definitionRows, runRows, startRows
  <1>0. /\ InstancesSound /\ StepsAreRecorded /\ ConcurrencyCapHolds
              /\ bounds.concurrent \in Nat
    BY DEF RecordsIInv
  <1>s. ASSUME UNCHANGED <<instance, steps, calls, lostSteps, crashed>>
        PROVE  InstancesSound' /\ StepsAreRecorded' /\ ActiveInstances' = ActiveInstances
    BY <1>0, <1>s DEF InstancesSound, InstanceSound, StepsAreRecorded, ActiveInstances
  <1>c. ASSUME ActiveInstances' \subseteq ActiveInstances,
               UNCHANGED <<bounds, startRaces, boundsMoved>>
        PROVE  ConcurrencyCapHolds' /\ bounds'.concurrent \in Nat
    BY <1>0, <1>c, NoneActivated
  <1>1. ASSUME NEW g \in Graphs, UpdateDefinition(g)
        PROVE  RecordsIInv'
    BY <1>1, <1>s, <1>c DEF UpdateDefinition, RecordsIInv
  <1>2. CASE PublishDefinition
    BY <1>2, <1>s, <1>c DEF PublishDefinition, RecordsIInv
  <1>3. ASSUME NEW c \in ConcurrentCaps, NEW s \in StepCaps, UpdateBounds(c, s)
        PROVE  RecordsIInv'
    <2>1. boundsMoved' = TRUE /\ bounds'.concurrent \in Nat
      BY <1>3, WorkflowEngineAssumption DEF UpdateBounds
    <2> QED  BY <1>3, <1>s, <2>1 DEF UpdateBounds, RecordsIInv, ConcurrencyCapHolds
  <1>4. ASSUME NEW x \in StartTxns, NEW v, NEW due, ReadStart(x, v, due)
        PROVE  RecordsIInv'
    BY <1>4, <1>s, <1>c DEF ReadStart, RecordsIInv
  <1>5. ASSUME NEW x \in StartTxns, NEW i \in Instances, NEW p \in Payloads,
               StartInstanceWrite(x, i, p)
        PROVE  RecordsIInv'
    <2>1. PICK row : /\ DOMAIN row = {"status", "version", "node", "stepCount", "payload", "due"}
                     /\ row.status = "running" /\ row.stepCount = 0
                     /\ instance' = [instance EXCEPT ![i] = row]
      BY <1>5 DEF StartInstanceWrite
    <2>2. /\ instance[i].status = "none" /\ startRaces' = (startRaces \/ ~BelowCap)
          /\ UNCHANGED <<steps, calls, lostSteps, crashed, bounds, boundsMoved>>
      BY <1>5 DEF StartInstanceWrite
    <2>3. /\ DOMAIN instance' = Instances
          /\ \A j \in Instances : instance'[j] = IF j = i THEN row ELSE instance[j]
      BY <1>0, <2>1 DEF InstancesSound
    <2>4. InstancesSound'
      BY <1>0, <2>1, <2>2, <2>3 DEF InstancesSound, InstanceSound
    <2>5. StepsAreRecorded'
      BY <1>0, <2>1, <2>2, <2>3 DEF InstancesSound, InstanceSound, StepsAreRecorded
    <2>6. ActiveInstances' = ActiveInstances \cup {i} /\ i \notin ActiveInstances
      BY <2>1, <2>2, <2>3 DEF ActiveInstances
    <2>7. ConcurrencyCapHolds'
      <3>1. ActiveInstances \subseteq Instances
        BY DEF ActiveInstances
      <3>2. IsFiniteSet(ActiveInstances)
        BY <3>1, FS_Subset, WorkflowEngineAssumption
      <3>3. /\ Cardinality(ActiveInstances) \in Nat
            /\ Cardinality(ActiveInstances') = Cardinality(ActiveInstances) + 1
        BY <2>6, <3>2, FS_CardinalityType, FS_AddElement
      <3>4. startRaces' \/ (~startRaces /\ BelowCap)
        BY <2>2
      <3>5. bounds' = bounds /\ boundsMoved' = boundsMoved
        BY <2>2
      <3>6. BelowCap => Cardinality(ActiveInstances') <= bounds'.concurrent
        BY <1>0, <3>3, <3>5 DEF BelowCap
      <3> QED  BY <3>4, <3>6 DEF ConcurrencyCapHolds
    <2> QED  BY <1>0, <2>2, <2>4, <2>5, <2>7 DEF RecordsIInv
  <1>r. ASSUME NEW i \in Instances, NEW st \in {"running", "waiting"}, NEW nd,
               Recorded(i, st, nd),
               instance[i].status = "running",
               DOMAIN calls' = Instances, \A j \in Instances \ {i} : calls'[j] = calls[j],
               calls'[i] \in {calls[i], calls[i] + 1}
        PROVE  RecordsIInv'
    <2>1. /\ instance' = [instance EXCEPT ![i].status = st, ![i].node = nd, ![i].stepCount = @ + 1]
          /\ steps' = [steps EXCEPT ![i] = @ + 1]
          /\ UNCHANGED <<startRaces, lostSteps, crashed, bounds, boundsMoved>>
      BY <1>r DEF Recorded
    <2>2. /\ DOMAIN instance' = Instances
                /\ \A j \in Instances \ {i} : instance'[j] = instance[j]
          /\ DOMAIN instance'[i] = DOMAIN instance[i]
          /\ instance'[i].status = st /\ instance'[i].stepCount = instance[i].stepCount + 1
      BY <1>0, <2>1 DEF InstancesSound
    <2>3. /\ DOMAIN steps' = Instances
                /\ \A j \in Instances : steps'[j] = IF j = i THEN steps[i] + 1 ELSE steps[j]
          /\ DOMAIN calls' = Instances /\ \A j \in Instances \ {i} : calls'[j] = calls[j]
          /\ calls'[i] \in {calls[i], calls[i] + 1}
      BY <1>0, <1>r, <2>1 DEF InstancesSound
    <2>4. /\ ActiveInstances' \subseteq ActiveInstances
          /\ \A j \in Instances :
                 /\ DOMAIN instance'[j] = {"status", "version", "node", "stepCount", "payload", "due"}
                 /\ instance'[j].stepCount \in Nat
                 /\ instance'[j].status = "none" => instance'[j].stepCount = 0
      BY <1>r, <2>2, DriveStep
    <2>5. InstancesSound'
      BY <1>0, <2>2, <2>3, <2>4 DEF InstancesSound, InstanceSound
    <2>6. StepsAreRecorded'
      BY <1>0, <1>r, <2>1, <2>2, <2>3 DEF InstancesSound, InstanceSound
    <2> QED  BY <1>c, <2>1, <2>4, <2>5, <2>6 DEF RecordsIInv
  <1>6. ASSUME NEW i \in Instances, EndStep(i)
        PROVE  RecordsIInv'
    <2>1. /\ instance' = [instance EXCEPT ![i].status = "completed", ![i].node = NoNode]
          /\ steps' = [steps EXCEPT ![i] = @ + 1] /\ instance[i].status = "running"
          /\ UNCHANGED <<startRaces, calls, lostSteps, crashed, bounds, boundsMoved>>
      BY <1>6 DEF EndStep, AtNode
    <2>2. /\ DOMAIN instance' = Instances
                /\ \A j \in Instances \ {i} : instance'[j] = instance[j]
          /\ DOMAIN instance'[i] = DOMAIN instance[i]
          /\ instance'[i].status = "completed" /\ instance'[i].stepCount = instance[i].stepCount
          /\ instance'[i].stepCount = instance[i].stepCount + 0
      BY <1>0, <2>1 DEF InstancesSound, InstanceSound
    <2>3. /\ DOMAIN steps' = Instances
                /\ \A j \in Instances : steps'[j] = IF j = i THEN steps[i] + 1 ELSE steps[j]
      BY <1>0, <2>1 DEF InstancesSound
    <2>4. /\ ActiveInstances' \subseteq ActiveInstances
          /\ \A j \in Instances :
                 /\ DOMAIN instance'[j] = {"status", "version", "node", "stepCount", "payload", "due"}
                 /\ instance'[j].stepCount \in Nat
                 /\ instance'[j].status = "none" => instance'[j].stepCount = 0
      BY <2>1, <2>2, DriveStep
    <2>5. InstancesSound'
      BY <1>0, <2>1, <2>2, <2>3, <2>4 DEF InstancesSound, InstanceSound
    <2>6. StepsAreRecorded'
      BY <1>0, <2>1, <2>2, <2>3 DEF InstancesSound, InstanceSound, StepsAreRecorded
    <2> QED  BY <1>c, <2>1, <2>4, <2>5, <2>6 DEF RecordsIInv
  <1>7. ASSUME NEW i \in Instances,
               ActionStep(i) \/ ConditionStep(i) \/ BranchStep(i) \/ TimerStep(i)
                  \/ HumanStep(i)
        PROVE  RecordsIInv'
    <2>0. instance[i].status = "running"
      BY <1>7 DEF ActionStep, ConditionStep, BranchStep, TimerStep, HumanStep, AtNode
    <2>1. /\ DOMAIN calls' = Instances /\ \A j \in Instances \ {i} : calls'[j] = calls[j]
          /\ calls'[i] \in {calls[i], calls[i] + 1}
      <3>1. \/ calls' = calls \/ calls' = [calls EXCEPT ![i] = @ + 1]
            \/ calls' = [calls EXCEPT ![i] = IF NodeOf(i).kind = "approval" THEN @ + 1 ELSE @]
        BY <1>7 DEF ActionStep, ConditionStep, BranchStep, TimerStep, HumanStep
      <3> QED  BY <1>0, <3>1 DEF InstancesSound
    <2>2. \E st \in {"running", "waiting"} : \E nd : Recorded(i, st, nd)
      BY <1>7 DEF ActionStep, ConditionStep, BranchStep, TimerStep, HumanStep
    <2> QED  BY <1>r, <2>0, <2>1, <2>2
  <1>8. ASSUME NEW i \in Instances, NEW called \in BOOLEAN,
               \/ FailActionStep(i) \/ FailInstance(i) \/ DriverStops(i)
                     \/ DriverCrashes(i, called)
        PROVE  RecordsIInv'
    <2>1. /\ UNCHANGED <<instance, steps, startRaces, bounds, boundsMoved>>
          /\ lostSteps \subseteq lostSteps' /\ crashed \subseteq crashed'
          /\ \/ calls' = calls
             \/ calls' = [calls EXCEPT ![i] = @ + 1] /\ i \in lostSteps'
             \/ calls' = [calls EXCEPT ![i] = IF called THEN @ + 1 ELSE @] /\ i \in crashed'
      BY <1>8 DEF FailActionStep, FailInstance, RolledBack, DriverStops, DriverCrashes
    <2>2. /\ DOMAIN calls' = Instances /\ \A j \in Instances : calls'[j] \in Nat
          /\ \A j \in Instances : calls'[j] = calls[j] \/ j \in lostSteps' \cup crashed'
      BY <1>0, <2>1 DEF InstancesSound, InstanceSound
    <2>3. InstancesSound'
      BY <1>0, <2>1, <2>2 DEF InstancesSound, InstanceSound
    <2>4. StepsAreRecorded'
      BY <1>0, <2>1, <2>2 DEF StepsAreRecorded
    <2>5. ActiveInstances' = ActiveInstances
      BY <2>1 DEF ActiveInstances
    <2> QED  BY <1>c, <2>1, <2>3, <2>4, <2>5 DEF RecordsIInv
  <1>9. ASSUME NEW late, late \subseteq ActiveInstances,
               NEW st \in {"cancelled", "sla_breached"},
               DOMAIN instance' = Instances,
               \A j \in Instances : instance'[j] =
                   IF j \in late THEN [instance[j] EXCEPT !.status = st] ELSE instance[j],
               UNCHANGED <<steps, calls, lostSteps, crashed, bounds, startRaces, boundsMoved>>
        PROVE  RecordsIInv'
    <2>1. \A j \in Instances :
              /\ DOMAIN instance'[j] = DOMAIN instance[j]
                    /\ instance'[j].stepCount = instance[j].stepCount
              /\ instance'[j].status = IF j \in late THEN st ELSE instance[j].status
              /\ j \in late => instance[j].status \in {"running", "waiting"}
      BY <1>0, <1>9 DEF InstancesSound, InstanceSound, ActiveInstances
    <2>2. InstancesSound'
      BY <1>0, <1>9, <2>1 DEF InstancesSound, InstanceSound
    <2>3. StepsAreRecorded'
      BY <1>0, <1>9, <2>1 DEF StepsAreRecorded
    <2>4. ActiveInstances' \subseteq ActiveInstances
      BY <2>1 DEF ActiveInstances
    <2> QED  BY <1>9, <1>c, <2>2, <2>3, <2>4 DEF RecordsIInv
  <1>10. ASSUME NEW i \in Instances, CancelInstance(i)
         PROVE  RecordsIInv'
    <2>1. {i} \subseteq ActiveInstances /\ DOMAIN instance' = Instances
      BY <1>0, <1>10 DEF CancelInstance, InstancesSound
    <2>2. \A j \in Instances : instance'[j] =
              IF j \in {i} THEN [instance[j] EXCEPT !.status = "cancelled"] ELSE instance[j]
      BY <1>0, <1>10 DEF CancelInstance, InstancesSound
    <2> QED  BY <1>9, <1>10, <2>1, <2>2 DEF CancelInstance
  <1>11. CASE Monitor
    <2>1. PICK breached \in SUBSET ActiveInstances :
              instance' = [i \in Instances |->
                  IF i \in breached THEN [instance[i] EXCEPT !.status = "sla_breached"] ELSE instance[i]]
      BY <1>11 DEF Monitor
    <2> QED  BY <1>9, <1>11, <2>1 DEF Monitor
  <1> QED
    BY <1>1, <1>2, <1>3, <1>4, <1>5, <1>6, <1>7, <1>8, <1>10, <1>11
    DEF WorkflowEngineNext, StartInstanceRead, TriggerEventRead

\* No instance.
LEMMA RecordsStart == WorkflowEngineInit => RecordsIInv
  <1> SUFFICES ASSUME WorkflowEngineInit PROVE RecordsIInv
    OBVIOUS
  <1>1. InstancesSound /\ StepsAreRecorded
    BY DEF WorkflowEngineInit, InstancesSound, InstanceSound, StepsAreRecorded, NoInstance
  <1>2. bounds.concurrent \in Nat
    BY WorkflowEngineAssumption DEF WorkflowEngineInit
  <1>3. ActiveInstances = {}
    BY DEF WorkflowEngineInit, ActiveInstances, NoInstance
  <1>4. ConcurrencyCapHolds
    BY <1>2, <1>3, FS_EmptySet DEF ConcurrencyCapHolds
  <1> QED  BY <1>1, <1>2, <1>4 DEF RecordsIInv

\* Stuttering included, every step keeps the invariant.
LEMMA RecordsKept == RecordsIInv /\ [WorkflowEngineNext]_workflowEngineVars => RecordsIInv'
  <1>1. RecordsIInv /\ UNCHANGED workflowEngineVars => RecordsIInv'
    BY DEF workflowEngineVars, RecordsIInv, InstancesSound, InstanceSound, StepsAreRecorded,
       ConcurrencyCapHolds, ActiveInstances
  <1> QED  BY <1>1, RecordsStep


\* The node of a running instance is where the simulation is after as many
\* steps; every node it has left is one of the graph and no end, and a completed
\* instance has reached one.
Walked(g, row) ==
    LET w == SimulateWalk(g, row.payload, RunLimit)
    IN  /\ \A k \in 0 .. row.stepCount - 1 : w[k] \in DOMAIN g.nodes /\ g.nodes[w[k]].kind # "end"
        /\ row.status = "running" => row.node = w[row.stepCount]
        /\ row.status = "completed" => /\ w[row.stepCount] \in DOMAIN g.nodes
                                       /\ g.nodes[w[row.stepCount]].kind = "end"

\* So it is where the engine and the simulator read the paths alike.
OnItsWalk(g, row) ==
    /\ row.stepCount \in 0 .. RunLimit
    /\ row.status = "completed" => row.stepCount < RunLimit
    /\ PathsReadAlike(g, row.payload) => Walked(g, row)

\* A running instance has used one iteration of its driver for each step, unless
\* one was lost, the driver died, or there is no step left to take.
InstanceRuns(i) ==
    instance[i].status # "none" =>
        /\ instance[i].version \in 1 .. Len(versions)
        /\ OnItsWalk(GraphOf(i), instance[i])
        /\ instance[i].status = "running" => driver[i] + instance[i].stepCount <= RunLimit
        /\ \/ boundsMoved
           \/ /\ instance[i].status = "completed" => instance[i].stepCount < bounds.steps
              /\ instance[i].status = "running" =>
                    \/ i \in lostSteps \cup crashed
                    \/ driver[i] + instance[i].stepCount = RunLimit
                    \/ CannotAdvance(i)

\* A starting request has read a published version.
StartsSound ==
    \A x \in StartTxns :
        \/ starting[x] = NotStarting
        \/ /\ DOMAIN starting[x] = {"op", "version", "due"}
           /\ starting[x].version \in 1 .. Len(versions)

RunsIInv ==
    /\ WorkflowEngineTypeOK /\ StartsSound
    /\ versions \in Seq(Graphs)
    /\ DOMAIN driver = Instances
    /\ \A i \in Instances : InstanceRuns(i) /\ (instance[i].status = "none" => driver[i] = 0)

\* What is asked of an instance stays as it is where its row and its driver do,
\* whatever is published meanwhile.
LEMMA RunKept ==
    ASSUME NEW i \in Instances, InstanceRuns(i),
           instance'[i] = instance[i], driver'[i] = driver[i],
           Len(versions) \in Nat, Len(versions') \in Nat, Len(versions) <= Len(versions'),
           \A v \in 1 .. Len(versions) : versions'[v] = versions[v],
           lostSteps \subseteq lostSteps', crashed \subseteq crashed',
           \/ boundsMoved'
           \/ bounds' = bounds /\ boundsMoved' = boundsMoved
    PROVE  InstanceRuns(i)'
  <1>1. CASE instance[i].status = "none"
    BY <1>1 DEF InstanceRuns
  <1>2. CASE instance[i].status # "none"
    <2>1. instance[i].version \in 1 .. Len(versions) /\ instance[i].version \in 1 .. Len(versions')
      BY <1>2 DEF InstanceRuns
    <2>2. GraphOf(i)' = GraphOf(i)
      BY <2>1 DEF GraphOf
    <2>3. OnItsWalk(GraphOf(i), instance[i])' <=> OnItsWalk(GraphOf(i), instance[i])
        BY <2>2 DEF OnItsWalk, Walked, PathsReadAlike
    <2>4. bounds' = bounds => (CannotAdvance(i)' <=> CannotAdvance(i))
      BY <2>2 DEF CannotAdvance
    <2> QED  BY <1>2, <2>1, <2>3, <2>4 DEF InstanceRuns
  <1> QED  BY <1>1, <1>2

\* Where an instance can take a step, it stands in its walk and has an iteration left.
LEMMA AtItsStep ==
    ASSUME RunsIInv, NEW i \in Instances, NEW kinds, AtNode(i, kinds)
    PROVE  /\ GraphOf(i) \in Graphs /\ instance[i].version \in 1 .. Len(versions)
           /\ OnItsWalk(GraphOf(i), instance[i])
           /\ PathsReadAlike(GraphOf(i), instance[i].payload) =>
                 instance[i].node = SimulateWalk(GraphOf(i), instance[i].payload, RunLimit)[instance[i].stepCount]
           /\ driver[i] \in 1 .. RunLimit /\ driver[i] + instance[i].stepCount <= RunLimit
           /\ \/ boundsMoved \/ i \in lostSteps \cup crashed
              \/ driver[i] + instance[i].stepCount = RunLimit
  <1>1. instance[i].status = "running" /\ driver[i] > 0
    BY DEF AtNode
  <1>2. InstanceRuns(i) /\ driver[i] \in 0 .. RunLimit /\ instance[i].stepCount \in Nat /\ bounds.steps \in Nat
    BY WorkflowEngineAssumption DEF RunsIInv, WorkflowEngineTypeOK
  <1>3. /\ instance[i].version \in 1 .. Len(versions)
        /\ OnItsWalk(GraphOf(i), instance[i])
        /\ driver[i] + instance[i].stepCount <= RunLimit
        /\ \/ boundsMoved \/ i \in lostSteps \cup crashed
           \/ driver[i] + instance[i].stepCount = RunLimit \/ CannotAdvance(i)
    BY <1>1, <1>2 DEF InstanceRuns
  <1>4. GraphOf(i) \in Graphs
    BY <1>3 DEF GraphOf, RunsIInv, WorkflowEngineTypeOK
  <1>5. PathsReadAlike(GraphOf(i), instance[i].payload) =>
            instance[i].node = SimulateWalk(GraphOf(i), instance[i].payload, RunLimit)[instance[i].stepCount]
    BY <1>1, <1>3 DEF OnItsWalk, Walked
  <1>6. ~CannotAdvance(i)
    <2>1. NoNode \notin DOMAIN GraphOf(i).nodes
      BY <1>4, WorkflowEngineAssumption
    <2> QED  BY <1>2, <2>1 DEF AtNode, CannotAdvance
  <1> QED  BY <1>1, <1>2, <1>3, <1>4, <1>5, <1>6, WorkflowEngineAssumption


\* Rows of instances that move and rows that stay, while definitions, bounds and
\* the other requests stay.
LEMMA RunsMove ==
    ASSUME RecordsIInv', RunsIInv, NEW moved, moved \subseteq Instances,
           \A j \in Instances \ moved : instance'[j] = instance[j] /\ driver'[j] = driver[j],
           \A j \in moved : /\ InstanceRuns(j)'
                            /\ instance'[j].status \in InstanceStatuses \ {"none"}
                            /\ driver'[j] \in 0 .. RunLimit,
           DOMAIN driver' = Instances,
           lostSteps \subseteq lostSteps', lostSteps' \subseteq Instances,
           crashed \subseteq crashed', crashed' \subseteq Instances,
           UNCHANGED <<draft, versions, bounds, boundsMoved>>,
           startRaces' \in BOOLEAN, DOMAIN starting' = StartTxns, StartsSound'
    PROVE  RunsIInv'
  <1>1. ASSUME NEW j \in Instances
        PROVE  /\ InstanceRuns(j)'
               /\ instance'[j].status \in InstanceStatuses
               /\ instance'[j].version \in 0 .. Len(versions')
               /\ driver'[j] \in 0 .. RunLimit
    <2>1. CASE j \in moved
      BY <2>1 DEF InstanceRuns, RunsIInv
    <2>2. CASE j \notin moved
      <3>1. InstanceRuns(j)'
        BY <2>2, RunKept DEF RunsIInv
      <3> QED  BY <2>2, <3>1 DEF RunsIInv, WorkflowEngineTypeOK
    <2> QED  BY <2>1, <2>2
  <1>2. \A j \in Instances : {steps'[j], calls'[j], instance'[j].stepCount} \subseteq Nat
    BY DEF RecordsIInv, InstancesSound, InstanceSound
  <1>3. WorkflowEngineTypeOK'
    BY <1>1, <1>2 DEF RunsIInv, WorkflowEngineTypeOK
  <1>4. \A j \in Instances : instance'[j].status = "none" => driver'[j] = 0
    BY DEF RunsIInv
  <1> QED  BY <1>1, <1>3, <1>4 DEF RunsIInv

\* Definitions, bounds and starting requests move while every instance stays.
LEMMA RunsStay ==
    ASSUME RecordsIInv', RunsIInv, UNCHANGED runRows, startRaces' = startRaces,
           draft' \in Graphs, versions' \in Seq(Graphs),
           Len(versions) <= Len(versions'), Len(versions') <= MaxVersions,
           \A v \in 1 .. Len(versions) : versions'[v] = versions[v],
           bounds' \in [concurrent : ConcurrentCaps, steps : StepCaps],
           boundsMoved' \in BOOLEAN,
           \/ boundsMoved'
           \/ bounds' = bounds /\ boundsMoved' = boundsMoved,
           DOMAIN starting' = StartTxns, StartsSound'
    PROVE  RunsIInv'
  <1>0. Len(versions) \in Nat /\ Len(versions') \in Nat
    BY DEF RunsIInv
  <1>1. ASSUME NEW j \in Instances
        PROVE  InstanceRuns(j)'
    BY <1>0, RunKept DEF RunsIInv, runRows
  <1>2. \A j \in Instances : {steps'[j], calls'[j], instance'[j].stepCount} \subseteq Nat
    BY DEF RecordsIInv, InstancesSound, InstanceSound
  <1>3. ASSUME NEW j \in Instances
        PROVE  /\ instance'[j].status \in InstanceStatuses
               /\ instance'[j].version \in 0 .. Len(versions')
               /\ driver'[j] \in 0 .. RunLimit
    BY <1>0 DEF RunsIInv, WorkflowEngineTypeOK, runRows
  <1>4. ASSUME NEW v \in 1 .. Len(versions')
        PROVE  versions'[v] \in Graphs
    OBVIOUS
  <1>5. WorkflowEngineTypeOK'
    BY <1>2, <1>3, <1>4 DEF RunsIInv, WorkflowEngineTypeOK, runRows
  <1> QED  BY <1>1, <1>5 DEF RunsIInv, runRows

\* A committed step takes the instance one node further along its walk.
LEMMA StepWalks ==
    ASSUME NEW g \in Graphs, NEW row, NEW next, OnItsWalk(g, row),
           row.stepCount < RunLimit,
           row.node \in DOMAIN g.nodes, g.nodes[row.node].kind # "end",
           PathsReadAlike(g, row.payload) =>
               row.node = SimulateWalk(g, row.payload, RunLimit)[row.stepCount],
           next.payload = row.payload, next.stepCount = row.stepCount + 1,
           next.status \in {"running", "waiting"},
           PathsReadAlike(g, row.payload) => next.node = SimulatedNext(g, row.payload, row.node)
    PROVE  OnItsWalk(g, next)
  <1> DEFINE w == SimulateWalk(g, row.payload, RunLimit)
  <1>1. row.stepCount \in 0 .. RunLimit
    BY DEF OnItsWalk
  <1>2. next.stepCount \in 1 .. RunLimit /\ next.stepCount - 1 = row.stepCount
    BY <1>1, WorkflowEngineAssumption
  <1>3. ASSUME PathsReadAlike(g, row.payload)
        PROVE  Walked(g, next)
    <2>1. w[next.stepCount] = next.node
      BY <1>2, <1>3, SimulateWalks, WorkflowEngineAssumption
    <2>2. ASSUME NEW k \in 0 .. next.stepCount - 1
          PROVE  w[k] \in DOMAIN g.nodes /\ g.nodes[w[k]].kind # "end"
      <3>1. k = row.stepCount \/ k \in 0 .. row.stepCount - 1
        BY <1>1, <1>2
      <3> QED  BY <1>3, <3>1 DEF OnItsWalk, Walked
    <2> HIDE DEF w
    <2>3. SimulateWalk(g, next.payload, RunLimit) = w
      BY DEF w
    <2> QED  BY <2>1, <2>2, <2>3 DEF Walked
  <1> QED  BY <1>2, <1>3 DEF OnItsWalk

\* Every step of the workflow service keeps the runs on their walks.
LEMMA RunsStep ==
    ASSUME RecordsIInv, RecordsIInv', RunsIInv, WorkflowEngineNext
    PROVE  RunsIInv'
  <1> USE DEF definitionRows, startRows
  <1>0. /\ draft \in Graphs /\ versions \in Seq(Graphs) /\ Len(versions) \in Nat
        /\ Len(versions) <= MaxVersions
        /\ bounds \in [concurrent : ConcurrentCaps, steps : StepCaps]
        /\ DOMAIN starting = StartTxns /\ startRaces \in BOOLEAN /\ boundsMoved \in BOOLEAN
        /\ lostSteps \subseteq Instances /\ crashed \subseteq Instances
        /\ DOMAIN instance = Instances /\ DOMAIN driver = Instances
    BY DEF RunsIInv, WorkflowEngineTypeOK, RecordsIInv, InstancesSound
  <1>s. ASSUME UNCHANGED <<starting, versions>>
        PROVE  StartsSound'
    BY <1>s DEF StartsSound, RunsIInv
  <1>r. ASSUME NEW i \in Instances
        PROVE  /\ DOMAIN instance[i] = {"status", "version", "node", "stepCount", "payload", "due"}
               /\ instance[i].stepCount \in Nat /\ driver[i] \in 0 .. RunLimit
               /\ InstanceRuns(i) /\ instance[i].status \in InstanceStatuses
    BY DEF RunsIInv, WorkflowEngineTypeOK, RecordsIInv, InstancesSound, InstanceSound
  <1>1. ASSUME NEW g \in Graphs, UpdateDefinition(g)
        PROVE  RunsIInv'
    BY <1>0, <1>1, <1>s, RunsStay DEF UpdateDefinition
  <1>2. CASE PublishDefinition
    <2>1. /\ versions' = Append(versions, draft) /\ Len(versions) < MaxVersions
          /\ UNCHANGED <<draft, runRows, startRows, bounds, boundsMoved>>
      BY <1>2 DEF PublishDefinition
    <2>2. /\ versions' \in Seq(Graphs) /\ Len(versions') = Len(versions) + 1
          /\ \A v \in 1 .. Len(versions) : versions'[v] = versions[v]
      BY <1>0, <2>1
    <2>3. StartsSound'
      BY <1>0, <2>1, <2>2 DEF StartsSound, RunsIInv
    <2> QED  BY <1>0, <2>1, <2>2, <2>3, RunsStay, WorkflowEngineAssumption
  <1>3. ASSUME NEW c \in ConcurrentCaps, NEW s \in StepCaps, UpdateBounds(c, s)
        PROVE  RunsIInv'
    BY <1>0, <1>3, <1>s, RunsStay DEF UpdateBounds
  <1>4. ASSUME NEW x \in StartTxns, NEW v \in 1 .. Len(versions), NEW due, ReadStart(x, v, due)
        PROVE  RunsIInv'
    <2>1. /\ starting' = [starting EXCEPT ![x] = [op |-> "start", version |-> v, due |-> due]]
          /\ UNCHANGED <<definitionRows, runRows, startRaces, bounds, boundsMoved>>
      BY <1>4 DEF ReadStart
    <2>2. DOMAIN starting' = StartTxns /\ StartsSound'
      BY <1>0, <2>1 DEF StartsSound, RunsIInv
    <2> QED  BY <1>0, <2>1, <2>2, RunsStay
  <1>e. ASSUME NEW x \in StartTxns, StartInstanceRead(x)
        PROVE  RunsIInv'
    <2>1. Len(versions) \in 1 .. Len(versions)
      BY <1>0, <1>e DEF StartInstanceRead
    <2> QED  BY <1>4, <1>e, <2>1 DEF StartInstanceRead
  <1>v. ASSUME NEW x \in StartTxns, NEW v \in 1 .. Len(versions), TriggerEventRead(x, v)
        PROVE  RunsIInv'
    BY <1>4, <1>v DEF TriggerEventRead
  <1>5. ASSUME NEW x \in StartTxns, NEW i \in Instances, NEW p \in Payloads,
               StartInstanceWrite(x, i, p)
        PROVE  RunsIInv'
    <2>1. PICK row : /\ row = [status |-> "running", version |-> starting[x].version,
                               node |-> versions[starting[x].version].entry,
                               stepCount |-> 0, payload |-> p, due |-> starting[x].due]
                     /\ instance' = [instance EXCEPT ![i] = row]
      BY <1>5 DEF StartInstanceWrite
    <2>2. /\ starting[x].op = "start" /\ driver' = [driver EXCEPT ![i] = RunLimit]
          /\ starting' = [starting EXCEPT ![x] = NotStarting]
          /\ startRaces' = (startRaces \/ ~BelowCap)
          /\ UNCHANGED <<definitionRows, lostSteps, crashed, bounds, boundsMoved>>
      BY <1>5 DEF StartInstanceWrite
    <2>3. starting[x].version \in 1 .. Len(versions)
      BY <2>2 DEF RunsIInv, StartsSound, NotStarting
    <2>4. /\ instance'[i] = row /\ driver'[i] = RunLimit
          /\ \A j \in Instances \ {i} : instance'[j] = instance[j] /\ driver'[j] = driver[j]
          /\ DOMAIN driver' = Instances
      BY <1>0, <2>1, <2>2
    <2>5. GraphOf(i)' = versions[row.version] /\ GraphOf(i)' \in Graphs
      BY <1>0, <2>1, <2>2, <2>3, <2>4 DEF GraphOf
    <2>6. OnItsWalk(versions[row.version], row)
      BY <2>1, <2>3, SimulateWalks, WorkflowEngineAssumption DEF OnItsWalk, Walked
    <2>7. InstanceRuns(i)'
      <3>1. OnItsWalk(GraphOf(i), instance[i])'
        BY <2>4, <2>5, <2>6 DEF OnItsWalk, Walked, PathsReadAlike
      <3> QED
        BY <2>1, <2>2, <2>3, <2>4, <3>1, WorkflowEngineAssumption DEF InstanceRuns
    <2>8. DOMAIN starting' = StartTxns /\ StartsSound'
      BY <1>0, <2>2 DEF StartsSound, RunsIInv
    <2>9. startRaces' \in BOOLEAN
      BY <2>2
    <2>10. RunLimit \in 0 .. RunLimit /\ row.status \in InstanceStatuses \ {"none"}
      BY <2>1, WorkflowEngineAssumption DEF InstanceStatuses
    <2> DEFINE M == {i}
    <2>11. M \subseteq Instances /\ \A j \in M : j = i
      OBVIOUS
    <2>12. \A j \in Instances \ M : instance'[j] = instance[j] /\ driver'[j] = driver[j]
      BY <2>4
    <2>13. \A j \in M : /\ InstanceRuns(j)'
                          /\ instance'[j].status \in InstanceStatuses \ {"none"}
                          /\ driver'[j] \in 0 .. RunLimit
      <3>1. instance'[i].status \in InstanceStatuses \ {"none"} /\ driver'[i] \in 0 .. RunLimit
        BY <2>4, <2>10
      <3> HIDE DEF M
      <3> QED  BY <2>7, <2>11, <3>1
    <2>14. /\ lostSteps \subseteq lostSteps' /\ lostSteps' \subseteq Instances
           /\ crashed \subseteq crashed' /\ crashed' \subseteq Instances
           /\ UNCHANGED <<draft, versions, bounds, boundsMoved>> /\ DOMAIN driver' = Instances
      BY <1>0, <2>2, <2>4
    <2> HIDE DEF M
    <2> QED  BY <2>8, <2>9, <2>11, <2>12, <2>13, <2>14, RunsMove
  <1>m. ASSUME NEW i \in Instances,
               \A j \in Instances \ {i} : instance'[j] = instance[j] /\ driver'[j] = driver[j],
               InstanceRuns(i)', instance'[i].status \in InstanceStatuses \ {"none"},
               driver'[i] \in 0 .. RunLimit, DOMAIN driver' = Instances,
               lostSteps \subseteq lostSteps', lostSteps' \subseteq Instances,
               crashed \subseteq crashed', crashed' \subseteq Instances,
               UNCHANGED <<definitionRows, startRows, bounds, boundsMoved>>
        PROVE  RunsIInv'
    <2> DEFINE M == {i}
    <2>1. M \subseteq Instances /\ \A j \in M : j = i
      OBVIOUS
    <2>2. \A j \in Instances \ M : instance'[j] = instance[j] /\ driver'[j] = driver[j]
      BY <1>m
    <2> HIDE DEF M
    <2> QED  BY <1>0, <1>m, <1>s, <2>1, <2>2, RunsMove
  <1>t. ASSUME NEW i \in Instances, NEW st \in {"running", "waiting"}, NEW nd,
               NEW kinds, AtNode(i, kinds), "end" \notin kinds,
               PathsReadAlike(GraphOf(i), instance[i].payload) =>
                   nd = SimulatedNext(GraphOf(i), instance[i].payload, instance[i].node),
               Recorded(i, st, nd)
        PROVE  RunsIInv'
    <2>1. /\ GraphOf(i) \in Graphs /\ instance[i].version \in 1 .. Len(versions)
          /\ OnItsWalk(GraphOf(i), instance[i])
          /\ PathsReadAlike(GraphOf(i), instance[i].payload) =>
                instance[i].node = SimulateWalk(GraphOf(i), instance[i].payload, RunLimit)[instance[i].stepCount]
          /\ driver[i] \in 1 .. RunLimit /\ driver[i] + instance[i].stepCount <= RunLimit
          /\ \/ boundsMoved \/ i \in lostSteps \cup crashed
             \/ driver[i] + instance[i].stepCount = RunLimit
      BY <1>t, AtItsStep
    <2>2. /\ instance[i].node \in DOMAIN GraphOf(i).nodes
          /\ GraphOf(i).nodes[instance[i].node].kind # "end"
      BY <1>t DEF AtNode, NodeOf
    <2>3. /\ instance' = [instance EXCEPT ![i].status = st, ![i].node = nd, ![i].stepCount = @ + 1]
          /\ driver' = [driver EXCEPT ![i] = @ - 1]
          /\ UNCHANGED <<definitionRows, startRows, lostSteps, crashed, bounds, boundsMoved>>
      BY <1>t DEF Recorded, Tick
    <2>4. /\ \A j \in Instances \ {i} : instance'[j] = instance[j] /\ driver'[j] = driver[j]
          /\ DOMAIN driver' = Instances /\ driver'[i] = driver[i] - 1
          /\ instance'[i].status = st /\ instance'[i].node = nd
          /\ instance'[i].stepCount = instance[i].stepCount + 1
          /\ instance'[i].payload = instance[i].payload /\ instance'[i].version = instance[i].version
      BY <1>0, <1>r, <2>3
    <2>5. instance[i].stepCount \in Nat /\ instance[i].stepCount < RunLimit
      BY <1>r, <2>1, WorkflowEngineAssumption
    <2>6. GraphOf(i)' = GraphOf(i)
      BY <2>1, <2>3, <2>4 DEF GraphOf
    <2>7. OnItsWalk(GraphOf(i), instance'[i])
      BY <1>t, <2>1, <2>2, <2>4, <2>5, StepWalks
    <2>8. OnItsWalk(GraphOf(i), instance[i])'
      BY <2>6, <2>7 DEF OnItsWalk, Walked, PathsReadAlike
    <2>9. /\ driver'[i] \in 0 .. RunLimit
          /\ driver'[i] + instance'[i].stepCount = driver[i] + instance[i].stepCount
      BY <2>1, <2>4, <2>5, WorkflowEngineAssumption
    <2>10. InstanceRuns(i)'
      BY <1>t, <2>1, <2>3, <2>4, <2>8, <2>9 DEF InstanceRuns
    <2> QED  BY <1>0, <1>m, <1>t, <2>3, <2>4, <2>9, <2>10 DEF InstanceStatuses
  <1>6. ASSUME NEW i \in Instances, EndStep(i)
        PROVE  RunsIInv'
    <2>1. /\ GraphOf(i) \in Graphs /\ instance[i].version \in 1 .. Len(versions)
          /\ OnItsWalk(GraphOf(i), instance[i])
          /\ PathsReadAlike(GraphOf(i), instance[i].payload) =>
                instance[i].node = SimulateWalk(GraphOf(i), instance[i].payload, RunLimit)[instance[i].stepCount]
          /\ driver[i] \in 1 .. RunLimit /\ driver[i] + instance[i].stepCount <= RunLimit
      BY <1>6, AtItsStep DEF EndStep
    <2>2. /\ instance[i].node \in DOMAIN GraphOf(i).nodes /\ instance[i].stepCount < bounds.steps
          /\ GraphOf(i).nodes[instance[i].node].kind = "end"
      BY <1>6 DEF EndStep, AtNode, NodeOf
    <2>3. /\ instance' = [instance EXCEPT ![i].status = "completed", ![i].node = NoNode]
          /\ driver' = [driver EXCEPT ![i] = @ - 1]
          /\ UNCHANGED <<definitionRows, startRows, lostSteps, crashed, bounds, boundsMoved>>
      BY <1>6 DEF EndStep, Tick
    <2>4. /\ \A j \in Instances \ {i} : instance'[j] = instance[j] /\ driver'[j] = driver[j]
          /\ DOMAIN driver' = Instances /\ driver'[i] = driver[i] - 1
          /\ instance'[i].status = "completed" /\ instance'[i].stepCount = instance[i].stepCount
          /\ instance'[i].payload = instance[i].payload /\ instance'[i].version = instance[i].version
      BY <1>0, <1>r, <2>3
    <2>5. instance[i].stepCount \in Nat /\ instance[i].stepCount < RunLimit /\ driver'[i] \in 0 .. RunLimit
      BY <1>r, <2>1, <2>4, WorkflowEngineAssumption
    <2>6. GraphOf(i)' = GraphOf(i)
      BY <2>1, <2>3, <2>4 DEF GraphOf
    <2>7. OnItsWalk(GraphOf(i), instance'[i])
      BY <2>1, <2>2, <2>4, <2>5 DEF OnItsWalk, Walked
    <2>8. OnItsWalk(GraphOf(i), instance[i])'
      BY <2>6, <2>7 DEF OnItsWalk, Walked, PathsReadAlike
    <2>9. InstanceRuns(i)'
      BY <2>1, <2>2, <2>3, <2>4, <2>8 DEF InstanceRuns
    <2> QED  BY <1>0, <1>m, <2>3, <2>4, <2>5, <2>9 DEF InstanceStatuses
  <1>7. ASSUME NEW i \in Instances,
               ActionStep(i) \/ ConditionStep(i) \/ BranchStep(i) \/ TimerStep(i) \/ HumanStep(i)
        PROVE  RunsIInv'
    <2> DEFINE forward == NodeOf(i).next
               found == instance[i].payload[NodeOf(i).path]
               holds == IF ConditionHolds(found) THEN NodeOf(i).next ELSE NodeOf(i).alt
               taken == IF ArmMatches(found) THEN NodeOf(i).next ELSE NodeOf(i).alt
               alike == PathsReadAlike(GraphOf(i), instance[i].payload)
    <2>1. \/ AtNode(i, {"action"}) /\ Recorded(i, "running", forward)
          \/ AtNode(i, {"condition"}) /\ Recorded(i, "running", holds)
          \/ AtNode(i, {"branch"}) /\ Recorded(i, "running", taken)
          \/ AtNode(i, {"timer"}) /\ Recorded(i, "waiting", forward)
          \/ AtNode(i, {"approval", "inbox"}) /\ Recorded(i, "waiting", forward)
      BY <1>7 DEF ActionStep, ConditionStep, BranchStep, TimerStep, HumanStep
    <2>2. /\ AtNode(i, {"action"}) \/ AtNode(i, {"timer"}) \/ AtNode(i, {"approval", "inbox"}) =>
                 forward = SimulatedNext(GraphOf(i), instance[i].payload, instance[i].node)
          /\ AtNode(i, {"condition"}) /\ alike =>
                 holds = SimulatedNext(GraphOf(i), instance[i].payload, instance[i].node)
          /\ AtNode(i, {"branch"}) /\ alike =>
                 taken = SimulatedNext(GraphOf(i), instance[i].payload, instance[i].node)
      BY DEF AtNode, NodeOf, SimulatedNext, PathsReadAlike
    <2> HIDE DEF forward, holds, taken
    <2>3. CASE AtNode(i, {"action"}) /\ Recorded(i, "running", forward)
      BY <2>2, <2>3, <1>t
    <2>4. CASE AtNode(i, {"condition"}) /\ Recorded(i, "running", holds)
      BY <2>2, <2>4, <1>t
    <2>5. CASE AtNode(i, {"branch"}) /\ Recorded(i, "running", taken)
      BY <2>2, <2>5, <1>t
    <2>6. CASE AtNode(i, {"timer"}) /\ Recorded(i, "waiting", forward)
      BY <2>2, <2>6, <1>t
    <2>7. CASE AtNode(i, {"approval", "inbox"}) /\ Recorded(i, "waiting", forward)
      BY <2>2, <2>7, <1>t
    <2> QED  BY <2>1, <2>3, <2>4, <2>5, <2>6, <2>7
  <1>d. ASSUME NEW i \in Instances, instance' = instance, instance[i].status # "none",
               NEW left \in 0 .. RunLimit, driver' = [driver EXCEPT ![i] = left],
               left <= driver[i],
               lostSteps' \in {lostSteps, lostSteps \cup {i}}, crashed' \in {crashed, crashed \cup {i}},
               \/ instance[i].status # "running" \/ CannotAdvance(i) \/ i \in lostSteps' \cup crashed',
               UNCHANGED <<definitionRows, startRows, bounds, boundsMoved>>
        PROVE  RunsIInv'
    <2>1. /\ \A j \in Instances \ {i} : instance'[j] = instance[j] /\ driver'[j] = driver[j]
          /\ DOMAIN driver' = Instances /\ driver'[i] = left
      BY <1>0, <1>d
    <2>2. /\ InstanceRuns(i) /\ instance[i].stepCount \in Nat /\ driver[i] \in Nat
      BY <1>r
    <2>3. /\ instance[i].version \in 1 .. Len(versions) /\ OnItsWalk(GraphOf(i), instance[i])
          /\ instance[i].status = "running" => driver[i] + instance[i].stepCount <= RunLimit
          /\ \/ boundsMoved
             \/ instance[i].status = "completed" => instance[i].stepCount < bounds.steps
      BY <1>d, <2>2 DEF InstanceRuns
    <2>4. GraphOf(i)' = GraphOf(i)
      BY <1>d, <2>3 DEF GraphOf
    <2>5. OnItsWalk(GraphOf(i), instance[i])'
      BY <1>d, <2>3, <2>4 DEF OnItsWalk, Walked, PathsReadAlike
    <2>6. CannotAdvance(i)' <=> CannotAdvance(i)
      BY <1>d, <2>4 DEF CannotAdvance
    <2>7. instance[i].status = "running" => driver'[i] + instance[i].stepCount <= RunLimit
      BY <1>d, <2>1, <2>2, <2>3, WorkflowEngineAssumption
    <2>8. InstanceRuns(i)'
      BY <1>d, <2>3, <2>5, <2>6, <2>7 DEF InstanceRuns
    <2> QED  BY <1>0, <1>d, <1>m, <1>r, <2>1, <2>8
  <1>8. ASSUME NEW i \in Instances, NEW called \in BOOLEAN,
               \/ FailActionStep(i) \/ FailInstance(i) \/ DriverStops(i) \/ DriverCrashes(i, called)
        PROVE  RunsIInv'
    <2>1. CASE FailActionStep(i) \/ FailInstance(i)
      <3>1. /\ driver[i] - 1 \in 0 .. RunLimit /\ driver[i] - 1 <= driver[i]
        BY <1>r, <2>1, WorkflowEngineAssumption DEF FailActionStep, FailInstance, AtNode
      <3>2. /\ instance' = instance /\ instance[i].status = "running"
            /\ driver' = [driver EXCEPT ![i] = driver[i] - 1] /\ crashed' = crashed
            /\ lostSteps' \in {lostSteps, lostSteps \cup {i}}
            /\ CannotAdvance(i) \/ i \in lostSteps'
            /\ UNCHANGED <<definitionRows, startRows, bounds, boundsMoved>>
        BY <2>1 DEF FailActionStep, FailInstance, RolledBack, Tick, AtNode
      <3> QED  BY <3>1, <3>2, <1>d
    <2>2. CASE DriverStops(i)
      <3>1. /\ 0 \in 0 .. RunLimit /\ 0 <= driver[i]
        BY <1>r, <2>2, WorkflowEngineAssumption DEF DriverStops
      <3>2. /\ instance' = instance /\ instance[i].status # "running"
            /\ driver' = [driver EXCEPT ![i] = 0] /\ crashed' = crashed /\ lostSteps' = lostSteps
            /\ UNCHANGED <<definitionRows, startRows, bounds, boundsMoved>>
        BY <2>2 DEF DriverStops
      <3>3. CASE instance[i].status # "none"
        BY <3>1, <3>2, <3>3, <1>d
      <3>4. CASE instance[i].status = "none"
        BY <2>2, <3>4 DEF DriverStops, RunsIInv
      <3> QED  BY <3>3, <3>4
    <2>3. CASE DriverCrashes(i, called)
      <3>1. /\ 0 \in 0 .. RunLimit /\ 0 <= driver[i]
        BY <1>r, <2>3, WorkflowEngineAssumption DEF DriverCrashes
      <3>2. /\ instance' = instance /\ instance[i].status = "running"
            /\ driver' = [driver EXCEPT ![i] = 0] /\ crashed' = crashed \cup {i} /\ lostSteps' = lostSteps
            /\ UNCHANGED <<definitionRows, startRows, bounds, boundsMoved>>
        BY <2>3 DEF DriverCrashes
      <3> QED  BY <3>1, <3>2, <1>d
    <2> QED  BY <1>8, <2>1, <2>2, <2>3
  <1>9. ASSUME NEW late, late \subseteq ActiveInstances,
               NEW st \in {"cancelled", "sla_breached"},
               \A j \in Instances : instance'[j] =
                   IF j \in late THEN [instance[j] EXCEPT !.status = st] ELSE instance[j],
               UNCHANGED <<definitionRows, startRows, driver, lostSteps, crashed, bounds, boundsMoved>>
        PROVE  RunsIInv'
    <2>1. late \subseteq Instances
      BY <1>9 DEF ActiveInstances
    <2>2. ASSUME NEW j \in late
          PROVE  InstanceRuns(j)' /\ instance'[j].status = st
      <3>1. /\ j \in Instances /\ instance[j].status \in {"running", "waiting"}
        BY <1>9, <2>1 DEF ActiveInstances
      <3>2. /\ instance'[j].status = st /\ instance'[j].stepCount = instance[j].stepCount
            /\ instance'[j].payload = instance[j].payload /\ instance'[j].version = instance[j].version
        BY <1>9, <1>r, <3>1
      <3>3. instance[j].version \in 1 .. Len(versions) /\ OnItsWalk(GraphOf(j), instance[j])
        BY <1>r, <3>1 DEF InstanceRuns
      <3>4. GraphOf(j)' = GraphOf(j)
        BY <1>9, <3>2, <3>3 DEF GraphOf
      <3>5. OnItsWalk(GraphOf(j), instance'[j])
        BY <3>2, <3>3 DEF OnItsWalk, Walked
      <3>6. OnItsWalk(GraphOf(j), instance[j])'
        BY <3>4, <3>5 DEF OnItsWalk, Walked, PathsReadAlike
      <3> QED  BY <1>9, <3>2, <3>3, <3>6 DEF InstanceRuns
    <2>3. \A j \in Instances \ late : instance'[j] = instance[j] /\ driver'[j] = driver[j]
      BY <1>9
    <2>4. \A j \in late : /\ InstanceRuns(j)'
                          /\ instance'[j].status \in InstanceStatuses \ {"none"}
                          /\ driver'[j] \in 0 .. RunLimit
      BY <1>9, <1>r, <2>1, <2>2 DEF InstanceStatuses
    <2>5. DOMAIN driver' = Instances
      BY <1>0, <1>9
    <2> QED  BY <1>0, <1>9, <1>s, <2>1, <2>3, <2>4, <2>5, RunsMove
  <1>10. ASSUME NEW i \in Instances, CancelInstance(i)
         PROVE  RunsIInv'
    <2>1. {i} \subseteq ActiveInstances
      BY <1>10 DEF CancelInstance
    <2>2. \A j \in Instances : instance'[j] =
              IF j \in {i} THEN [instance[j] EXCEPT !.status = "cancelled"] ELSE instance[j]
      BY <1>0, <1>10 DEF CancelInstance
    <2> QED  BY <1>9, <1>10, <2>1, <2>2 DEF CancelInstance
  <1>11. CASE Monitor
    <2>1. PICK breached \in SUBSET ActiveInstances :
              instance' = [i \in Instances |->
                  IF i \in breached THEN [instance[i] EXCEPT !.status = "sla_breached"] ELSE instance[i]]
      BY <1>11 DEF Monitor
    <2> QED  BY <1>9, <1>11, <2>1 DEF Monitor
  <1> QED
    BY <1>1, <1>2, <1>3, <1>e, <1>v, <1>5, <1>6, <1>7, <1>8, <1>10, <1>11
    DEF WorkflowEngineNext

\* The invariant of the workflow engine.
WorkflowIInv == RecordsIInv /\ RunsIInv

\* No instance runs yet.
LEMMA WorkflowStarts == WorkflowEngineInit => WorkflowIInv
  <1> SUFFICES ASSUME WorkflowEngineInit PROVE RunsIInv
    BY RecordsStart DEF WorkflowIInv
  <1>1. WorkflowEngineTypeOK
    <2>1. Len(versions) = 0 /\ draft \in Graphs
      BY DEF WorkflowEngineInit
    <2>2. ASSUME NEW i \in Instances
          PROVE  /\ instance[i].status \in InstanceStatuses /\ instance[i].version = 0
                 /\ steps[i] = 0 /\ calls[i] = 0 /\ instance[i].stepCount = 0 /\ driver[i] = 0
      BY DEF WorkflowEngineInit, NoInstance, InstanceStatuses
    <2>3. /\ bounds \in [concurrent : ConcurrentCaps, steps : StepCaps]
          /\ DOMAIN starting = StartTxns /\ lostSteps = {} /\ crashed = {}
          /\ startRaces = FALSE /\ boundsMoved = FALSE
      BY DEF WorkflowEngineInit
    <2>4. RunLimit \in Nat /\ MaxVersions \in Nat /\ 0 \in Nat
      BY WorkflowEngineAssumption
    <2>5. /\ Len(versions) <= MaxVersions
          /\ \A v \in 1 .. Len(versions) : versions[v] \in Graphs
      BY <2>1, <2>4
    <2>6. ASSUME NEW i \in Instances
          PROVE  /\ instance[i].status \in InstanceStatuses
                 /\ instance[i].version \in 0 .. Len(versions)
                 /\ {steps[i], calls[i], instance[i].stepCount} \subseteq Nat
                 /\ driver[i] \in 0 .. RunLimit
      BY <2>1, <2>2, <2>4
    <2>7. {startRaces, boundsMoved} \subseteq BOOLEAN
      BY <2>3
    <2> QED  BY <2>1, <2>3, <2>5, <2>6, <2>7 DEF WorkflowEngineTypeOK
  <1>2. StartsSound /\ versions \in Seq(Graphs) /\ DOMAIN driver = Instances
    BY DEF WorkflowEngineInit, StartsSound
  <1>3. \A i \in Instances : InstanceRuns(i) /\ driver[i] = 0
    BY DEF WorkflowEngineInit, InstanceRuns, NoInstance
  <1> QED  BY <1>1, <1>2, <1>3 DEF RunsIInv

\* Stuttering included, every step keeps the invariant.
LEMMA WorkflowKeeps == WorkflowIInv /\ [WorkflowEngineNext]_workflowEngineVars => WorkflowIInv'
  <1>1. ASSUME WorkflowIInv, UNCHANGED workflowEngineVars
        PROVE  RunsIInv'
    <2>1. RecordsIInv'
      BY <1>1, RecordsKept DEF WorkflowIInv
    <2>2. UNCHANGED <<draft, versions, runRows, starting, startRaces, bounds, boundsMoved>>
      BY <1>1 DEF workflowEngineVars, runRows
    <2>3. /\ draft \in Graphs /\ versions \in Seq(Graphs) /\ Len(versions) \in Nat
          /\ Len(versions) <= MaxVersions
          /\ bounds \in [concurrent : ConcurrentCaps, steps : StepCaps]
          /\ DOMAIN starting = StartTxns /\ boundsMoved \in BOOLEAN /\ StartsSound
      BY <1>1 DEF WorkflowIInv, RunsIInv, WorkflowEngineTypeOK
    <2>4. StartsSound'
      BY <2>2, <2>3 DEF StartsSound
    <2> QED  BY <1>1, <2>1, <2>2, <2>3, <2>4, RunsStay DEF WorkflowIInv
  <1>2. RecordsIInv /\ [WorkflowEngineNext]_workflowEngineVars => RecordsIInv'
    BY RecordsKept
  <1> QED  BY <1>1, <1>2, RunsStep DEF WorkflowIInv

\* The dry run tells what a run does, where both read the paths alike.
LEMMA WorkflowPredicted == WorkflowIInv => SimulationPredicts
  <1> SUFFICES ASSUME WorkflowIInv, ~boundsMoved, NEW i \in Instances,
                      PathsReadAlike(GraphOf(i), instance[i].payload)
               PROVE  LET predicted == Simulate(GraphOf(i), instance[i].payload, RunCap)
                      IN  /\ instance[i].status = "completed" => predicted
                          /\ instance[i].status = "running" /\ driver[i] = 0 =>
                                 ~predicted \/ i \in lostSteps \cup crashed
    BY DEF SimulationPredicts
  <1> DEFINE g == GraphOf(i)
             p == instance[i].payload
             w == SimulateWalk(g, p, RunLimit)
             n == instance[i].stepCount
  <1>1. /\ bounds.steps \in Nat /\ RunLimit \in Nat /\ driver[i] \in Nat
        /\ RunCap \in 1 .. RunLimit /\ Clamped(RunCap) = RunCap
        /\ RunCap = bounds.steps \/ RunCap = RunLimit
        /\ RunCap <= bounds.steps
    <2>1. /\ bounds \in [concurrent : ConcurrentCaps, steps : StepCaps]
          /\ driver[i] \in 0 .. RunLimit
      BY DEF WorkflowIInv, RunsIInv, WorkflowEngineTypeOK
    <2>2. /\ bounds.steps \in Nat \ {0} /\ RunLimit \in Nat \ {0}
          /\ SimulateLimit \in Nat /\ RunLimit <= SimulateLimit
      BY <2>1, WorkflowEngineAssumption
    <2> QED  BY <2>1, <2>2 DEF RunCap, Clamped
  <1>2. Simulate(g, p, RunCap) <=>
            \E k \in 0 .. RunCap - 1 : w[k] \in DOMAIN g.nodes /\ g.nodes[w[k]].kind = "end"
    <2>1. \A k \in 0 .. RunCap : SimulateWalk(g, p, RunCap)[k] = w[k]
      BY <1>1, WalksAgree
    <2>2. \A k \in 0 .. RunCap - 1 : k \in 0 .. RunCap
      BY <1>1
    <2> HIDE DEF w, g, p
    <2> QED  BY <1>1, <2>1, <2>2 DEF Simulate
  <1>3. ASSUME instance[i].status \in {"running", "completed"}
        PROVE  /\ instance[i].version \in 1 .. Len(versions) /\ g \in Graphs
               /\ OnItsWalk(g, instance[i])
               /\ instance[i].status = "completed" => n < bounds.steps
               /\ instance[i].status = "running" =>
                     \/ i \in lostSteps \cup crashed \/ driver[i] + n = RunLimit \/ CannotAdvance(i)
    <2>1. InstanceRuns(i) /\ instance[i].status # "none"
      BY <1>3 DEF WorkflowIInv, RunsIInv
    <2>2. instance[i].version \in 1 .. Len(versions)
      BY <2>1 DEF InstanceRuns
    <2>3. g \in Graphs
      BY <2>2 DEF WorkflowIInv, RunsIInv, GraphOf
    <2> QED  BY <2>1, <2>2, <2>3 DEF InstanceRuns
  <1>4. instance[i].status = "completed" => Simulate(g, p, RunCap)
    <2> HAVE instance[i].status = "completed"
    <2>1. /\ n \in 0 .. RunLimit /\ n < RunLimit /\ n < bounds.steps
          /\ w[n] \in DOMAIN g.nodes /\ g.nodes[w[n]].kind = "end"
      BY <1>3 DEF OnItsWalk, Walked
    <2>2. n \in 0 .. RunCap - 1
      BY <1>1, <2>1
    <2> QED  BY <1>2, <2>1, <2>2
  <1>5. ASSUME instance[i].status = "running", driver[i] = 0, i \notin lostSteps \cup crashed
        PROVE  ~Simulate(g, p, RunCap)
    <2>1. /\ n \in 0 .. RunLimit /\ instance[i].node = w[n] /\ g \in Graphs
          /\ \A k \in 0 .. n - 1 : g.nodes[w[k]].kind # "end"
          /\ n = RunLimit \/ CannotAdvance(i)
      <3>1. OnItsWalk(g, instance[i]) /\ g \in Graphs
        BY <1>3, <1>5
      <3>2. driver[i] + n = RunLimit \/ CannotAdvance(i)
        BY <1>3, <1>5
      <3>3. n \in 0 .. RunLimit
        BY <3>1 DEF OnItsWalk
      <3> QED  BY <1>1, <1>5, <3>1, <3>2, <3>3 DEF OnItsWalk, Walked
    <2>2. n >= RunCap \/ w[n] \notin DOMAIN g.nodes
      <3>1. NoNode \notin DOMAIN g.nodes
        BY <2>1, WorkflowEngineAssumption
      <3> QED  BY <1>1, <2>1, <3>1 DEF CannotAdvance
    <2>3. w[n] \notin DOMAIN g.nodes => \A k \in n .. RunLimit : w[k] \notin DOMAIN g.nodes
      BY <1>1, <2>1, WalkEnds
    <2> HIDE DEF w, g, p, n
    <2>4. ASSUME NEW k \in 0 .. RunCap - 1, w[k] \in DOMAIN g.nodes, g.nodes[w[k]].kind = "end"
          PROVE  FALSE
      <3>1. k \notin 0 .. n - 1
        BY <2>1, <2>4
      <3>2. k \in n .. RunLimit
        BY <1>1, <2>1, <2>4, <3>1
      <3> QED  BY <1>1, <2>1, <2>2, <2>3, <2>4, <3>2
    <2> QED  BY <1>2, <2>4
  <1> QED  BY <1>4, <1>5


=============================================================================
