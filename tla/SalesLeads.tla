------------------------------ MODULE SalesLeads ------------------------------
(***************************************************************************)
(* Leads and customers of the CRM service: conversion of a lead, creation, *)
(* import, update and deletion of customers.  The handlers read without a  *)
(* lock and write by id alone; the unique index on the email of customers  *)
(* that are not deleted is what refuses a second one.                      *)
(***************************************************************************)
EXTENDS Naturals, FiniteSets

CONSTANTS
    Leads,        \* sales_lead ids
    Customers,    \* sales_customer ids
    Emails,       \* email addresses
    NoEmail,      \* email IS NULL
    LeadTxns,     \* concurrent requests
    LeadPatches,  \* bound: the statuses update_lead is asked for
    NoCustomer

ASSUME SalesLeadsAssumption ==
    /\ NoEmail \notin Emails /\ NoCustomer \notin Customers /\ "none" \notin Leads
    /\ LeadPatches \subseteq {"new", "qualified", "disqualified", "converted"}

VARIABLES
    lead,         \* sales_lead: status, email, converted_customer_id
    customer,     \* sales_customer: present, deleted, email, and its lead (history)
    converting,   \* what each request has read
    staleLeads,   \* history: leads written from an old read
    patchedLeads  \* history: leads whose status update_lead moved to or from converted

salesLeadsVars == <<lead, customer, converting, staleLeads, patchedLeads>>
leadHistory == <<staleLeads, patchedLeads>>

LeadStatuses == {"new", "qualified", "disqualified", "converted"}
AnyEmail == Emails \cup {NoEmail}
NoCustomerRow == [live |-> FALSE, email |-> NoEmail, lead |-> "none"]
NotConverting == [op |-> "idle"]

SalesLeadsTypeOK ==
    /\ lead \in [Leads -> [status : LeadStatuses \cup {"none"}, email : AnyEmail, customer : Customers \cup {NoCustomer}]]
    /\ \A c \in Customers : customer[c].live \in BOOLEAN /\ customer[c].email \in AnyEmail
    /\ DOMAIN converting = LeadTxns
    /\ staleLeads \subseteq Leads /\ patchedLeads \subseteq Leads

SalesLeadsInit ==
    /\ lead = [l \in Leads |-> [status |-> "none", email |-> NoEmail, customer |-> NoCustomer]]
    /\ customer = [c \in Customers |-> NoCustomerRow]
    /\ converting = [x \in LeadTxns |-> NotConverting]
    /\ staleLeads = {} /\ patchedLeads = {}

\* sales_customer_org_email_unique_idx
EmailIsFree(e, self) ==
    e = NoEmail \/ \A c \in Customers \ {self} : ~(customer[c].live /\ customer[c].email = e)

Unused(c) == customer[c] = NoCustomerRow

LeadReads(x, what) ==
    /\ converting[x] = NotConverting
    /\ converting' = [converting EXCEPT ![x] = what]
    /\ UNCHANGED <<lead, customer, leadHistory>>

EndConverting(x) == converting' = [converting EXCEPT ![x] = NotConverting]

WrittenLead(x) ==
    LET l == converting[x].lead
    IN  staleLeads' = IF lead[l].status # converting[x].status THEN staleLeads \cup {l} ELSE staleLeads

-----------------------------------------------------------------------------
(* Leads *)

CreateLead(l, e) ==
    /\ lead[l].status = "none"
    /\ lead' = [lead EXCEPT ![l].status = "new", ![l].email = e]
    /\ UNCHANGED <<customer, converting, leadHistory>>

\* update_lead takes any status the table allows, converted included.
UpdateLeadRead(x, l) ==
    /\ lead[l].status # "none"
    /\ LeadReads(x, [op |-> "update", lead |-> l, status |-> lead[l].status])

UpdateLeadWrite(x, to) ==
    LET l == converting[x].lead
    IN  /\ converting[x].op = "update"
        /\ lead' = [lead EXCEPT ![l].status = to]
        /\ WrittenLead(x)
        /\ patchedLeads' = IF (to = "converted") # (lead[l].status = "converted") THEN patchedLeads \cup {l}
                           ELSE patchedLeads
        /\ EndConverting(x)
        /\ UNCHANGED <<customer>>

\* transition_status: qualify_lead and disqualify_lead
TransitionRead(x, l) ==
    /\ lead[l].status \notin {"none", "converted"}
    /\ LeadReads(x, [op |-> "transition", lead |-> l, status |-> lead[l].status])

TransitionWrite(x, to) ==
    /\ converting[x].op = "transition"
    /\ lead' = [lead EXCEPT ![converting[x].lead].status = to]
    /\ WrittenLead(x)
    /\ EndConverting(x)
    /\ UNCHANGED <<customer, patchedLeads>>

\* find_customer_duplicates, by email (names are not modelled).
Duplicates(e) == ~EmailIsFree(e, NoCustomer)

\* convert_lead: a converted lead is answered with its conversion.
ConvertLeadRead(x, l, force) ==
    /\ lead[l].status \notin {"none", "converted"}
    /\ force \/ ~Duplicates(lead[l].email)
    /\ LeadReads(x, [op |-> "convert", lead |-> l, status |-> lead[l].status])

\* Customer, primary contact and deal are inserted (the customer stands for the
\* three) and the lead is marked; the unique email refuses the whole.
ConvertLeadWrite(x, c) ==
    LET l == converting[x].lead
    IN  /\ converting[x].op = "convert"
        /\ Unused(c) /\ EmailIsFree(lead[l].email, c)
        /\ customer' = [customer EXCEPT ![c] = [live |-> TRUE, email |-> lead[l].email, lead |-> l]]
        /\ lead' = [lead EXCEPT ![l].status = "converted", ![l].customer = c]
        /\ WrittenLead(x)
        /\ EndConverting(x)
        /\ UNCHANGED patchedLeads

-----------------------------------------------------------------------------
(* Customers *)

CreateCustomer(c, e) ==
    /\ Unused(c) /\ EmailIsFree(e, c)
    /\ customer' = [customer EXCEPT ![c] = [live |-> TRUE, email |-> e, lead |-> "none"]]
    /\ UNCHANGED <<lead, converting, leadHistory>>

\* confirm_customers, for one row of the file: ON CONFLICT DO NOTHING, so a row
\* whose email is taken is counted as imported and leaves nothing.
ImportCustomer(c, e) == CreateCustomer(c, e)

UpdateCustomerRead(x, c) ==
    /\ customer[c].live
    /\ LeadReads(x, [op |-> "customer", customer |-> c])

\* UPDATE by id: a customer deleted since keeps its deletion and takes the email.
UpdateCustomerWrite(x, e) ==
    LET c == converting[x].customer
    IN  /\ converting[x].op = "customer"
        /\ customer[c].live => EmailIsFree(e, c)
        /\ customer' = [customer EXCEPT ![c].email = e]
        /\ EndConverting(x)
        /\ UNCHANGED <<lead, leadHistory>>

\* delete_customer sets deleted_at; the lead, contacts and deals are left.
DeleteCustomer(c) ==
    /\ customer[c].live
    /\ customer' = [customer EXCEPT ![c].live = FALSE]
    /\ UNCHANGED <<lead, converting, leadHistory>>

ConversionFails(x) ==
    /\ converting[x].op \in {"convert", "customer"}
    /\ EndConverting(x)
    /\ UNCHANGED <<lead, customer, leadHistory>>

SalesLeadsNext ==
    \/ \E l \in Leads, e \in AnyEmail : CreateLead(l, e)
    \/ \E x \in LeadTxns, l \in Leads : UpdateLeadRead(x, l) \/ TransitionRead(x, l)
    \/ \E x \in LeadTxns, to \in LeadPatches : UpdateLeadWrite(x, to)
    \/ \E x \in LeadTxns, to \in {"qualified", "disqualified"} : TransitionWrite(x, to)
    \/ \E x \in LeadTxns, l \in Leads, force \in BOOLEAN : ConvertLeadRead(x, l, force)
    \/ \E x \in LeadTxns, c \in Customers : ConvertLeadWrite(x, c)
    \/ \E x \in LeadTxns, c \in Customers : UpdateCustomerRead(x, c)
    \/ \E x \in LeadTxns, e \in Emails : UpdateCustomerWrite(x, e)
    \/ \E x \in LeadTxns : ConversionFails(x)
    \/ \E c \in Customers, e \in AnyEmail : CreateCustomer(c, e)
    \/ \E c \in Customers, e \in AnyEmail : ImportCustomer(c, e)
    \/ \E c \in Customers : DeleteCustomer(c)

-----------------------------------------------------------------------------
(* Properties *)

\* A lead becomes one customer, the one it names, unless the lead was written
\* from an old read or update_lead moved its status to or from converted.
LeadConvertedOnce ==
    \A l \in Leads \ (staleLeads \cup patchedLeads) :
        LET from == {c \in Customers : customer[c].lead = l}
        IN  from = IF lead[l].status = "converted" THEN {lead[l].customer} ELSE {}

\* Two customers that are not deleted never share an email, whichever of
\* create, import, conversion and update came last.
OneCustomerPerEmail ==
    \A c, d \in Customers : (c # d /\ customer[c].live /\ customer[d].live) =>
        customer[c].email = NoEmail \/ customer[c].email # customer[d].email

=============================================================================
