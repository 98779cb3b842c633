------------------------------ MODULE TaxRates ------------------------------
(***************************************************************************)
(* Versioned tax rates of the finance service.  A rate is never changed:   *)
(* create_tax_rate adds a version and closes the one it supersedes.        *)
(* resolve_rate_bps is what issuing an invoice uses for a tax group.       *)
(***************************************************************************)
EXTENDS Naturals

CONSTANTS
    Rates,      \* finance_tax_rate ids
    TaxGroups,  \* finance_tax_group ids
    LastDay,    \* days are 1..LastDay
    NoRate, NoGroup

ASSUME TaxRatesAssumption == LastDay \in Nat /\ NoRate \notin Rates /\ NoGroup \notin TaxGroups

OpenEnded == LastDay + 1  \* valid_to IS NULL: after every day
Days == 1..LastDay

VARIABLES
    taxGroup,     \* tax groups that exist
    rate,         \* finance_tax_rate rows
    keptBounded   \* history: bounded rates that superseding left open

taxRatesVars == <<taxGroup, rate, keptBounded>>

RateRow == [group : TaxGroups \cup {NoGroup}, from : Days, to : 0..OpenEnded,
            component : BOOLEAN, supersedes : Rates \cup {NoRate}]

TaxRatesTypeOK ==
    /\ taxGroup \subseteq TaxGroups
    /\ DOMAIN rate \subseteq Rates /\ \A r \in DOMAIN rate : rate[r] \in RateRow
    /\ keptBounded \subseteq Rates \X Rates

TaxRatesInit ==
    /\ taxGroup = {}
    /\ rate = [r \in {} |-> NoRate]
    /\ keptBounded = {}

CreateTaxGroup(g) ==
    /\ g \notin taxGroup
    /\ taxGroup' = taxGroup \cup {g}
    /\ UNCHANGED <<rate, keptBounded>>

\* The UPDATE of the superseded rate: COALESCE keeps a bound that is there.
Close(row, from) ==
    IF row.to = OpenEnded THEN [row EXCEPT !.to = from - 1] ELSE row

CreateTaxRate(r, group, from, to, component, prev) ==
    LET inherited == IF group = NoGroup /\ prev # NoRate THEN rate[prev].group ELSE group
        row == [group |-> inherited, from |-> from, to |-> to,
                component |-> component, supersedes |-> prev]
    IN  /\ r \notin DOMAIN rate
        /\ to >= from
        /\ prev # NoRate => prev \in DOMAIN rate
        /\ inherited # NoGroup => inherited \in taxGroup
        /\ rate' = [q \in DOMAIN rate \cup {r} |->
                       CASE q = r -> row
                         [] q = prev -> Close(rate[q], from)
                         [] OTHER -> rate[q]]
        /\ keptBounded' = IF prev # NoRate /\ rate[prev].to \in from..LastDay
                          THEN keptBounded \cup {<<r, prev>>} ELSE keptBounded
        /\ UNCHANGED taxGroup

TaxRatesNext ==
    \/ \E g \in TaxGroups : CreateTaxGroup(g)
    \/ \E r \in Rates, group \in TaxGroups \cup {NoGroup}, from \in Days, to \in 1..OpenEnded,
          component \in BOOLEAN, prev \in DOMAIN rate \cup {NoRate} :
           CreateTaxRate(r, group, from, to, component, prev)

-----------------------------------------------------------------------------
\* resolve_rate_bps for a group: the versions valid on the day, the latest
\* valid_from first; equal ones are the database's choice.
ValidOn(g, d) == {r \in DOMAIN rate : /\ rate[r].group = g /\ ~rate[r].component
                                      /\ rate[r].from <= d /\ d <= rate[r].to}
Resolved(g, d) == {r \in ValidOn(g, d) : \A q \in ValidOn(g, d) : rate[q].from <= rate[r].from}

\* From the first day of the version that supersedes it, a rate never resolves
\* again, whatever versions are added in whatever order of days; a rate that had
\* an end date when it was superseded keeps it and may go on resolving.
SupersededRateRetires ==
    \A r \in DOMAIN rate :
        LET prev == rate[r].supersedes
        IN  prev # NoRate /\ <<r, prev>> \notin keptBounded =>
                \A d \in rate[r].from..LastDay : prev \notin Resolved(rate[prev].group, d)

=============================================================================
