--------------------------- MODULE GeneralLedger ---------------------------
(***************************************************************************)
(* Fiscal periods, ledger accounts, and journal entries (finance service). *)
(* Every handler of the service posts through post_journal, which reads    *)
(* the period of the entry's date without a lock: a posting is two steps   *)
(* of one transaction.  Each that posts has begun with the upsert of       *)
(* ensure_ledger_accounts, which locks the organization's standard         *)
(* accounts until the commit: postings do not overlap, periods and         *)
(* accounts change under them.                                             *)
(*                                                                         *)
(* A date stands for a month; amounts are left to the modules that post,   *)
(* and the close checklist, which no handler tests, is left out.           *)
(***************************************************************************)
EXTENDS Naturals, TLC

CONSTANTS
    Dates,           \* entry dates
    NamedPeriods,    \* periods that create_period inserts under codes of its own
    LedgerAccounts,  \* ledger accounts
    Entries,         \* journal entry ids
    PayrollSources,  \* source ids of payroll runs
    OtherSources,    \* source ids of receipts, bills and payments
    LedgerTxns,      \* concurrent postings
    NoSource,        \* a manual entry: a fresh source id each time
    NoEntry          \* not a reversal; no period

ASSUME GeneralLedgerAssumption ==
    /\ Dates \cap NamedPeriods = {}
    /\ PayrollSources \cap OtherSources = {}
    /\ NoSource \notin PayrollSources \cup OtherSources
    /\ NoEntry \notin Entries \cup Dates \cup NamedPeriods

VARIABLES
    period,        \* finance_fiscal_period: status and the dates it covers
    active,        \* finance_ledger_account.is_active
    entry,         \* finance_journal_entry: period, account, source, reversed entry
    posting        \* what each posting has read

generalLedgerVars == <<period, active, entry, posting>>

\* ensure_period_for_date names the period it creates after the month.
AllPeriods == Dates \cup NamedPeriods
LedgerSources == PayrollSources \cup OtherSources \cup {NoSource}
NoPosting == [at |-> "idle"]
Unposted == [period |-> NoEntry, account |-> NoEntry, source |-> NoSource, reverses |-> NoEntry]

GeneralLedgerTypeOK ==
    /\ period \in [AllPeriods -> [status : {"none", "open", "closed"}, dates : SUBSET Dates]]
    /\ DOMAIN active \subseteq LedgerAccounts
    /\ entry \in [Entries -> [period : AllPeriods \cup {NoEntry}, account : LedgerAccounts \cup {NoEntry},
                              source : LedgerSources, reverses : Entries \cup {NoEntry}]]
    /\ DOMAIN posting = LedgerTxns

GeneralLedgerInit ==
    /\ period = [q \in AllPeriods |-> [status |-> "none", dates |-> {}]]
    /\ active = <<>>
    /\ entry = [e \in Entries |-> Unposted]
    /\ posting = [x \in LedgerTxns |-> NoPosting]

-----------------------------------------------------------------------------
(* Periods and accounts *)

\* create_period: the code is unique; nothing forbids dates that another
\* period covers.
CreatePeriod(q, dates) ==
    /\ period[q].status = "none"
    /\ \A x \in LedgerTxns : posting[x].at # "idle" => posting[x].creates # q
    /\ period' = [period EXCEPT ![q] = [status |-> "open", dates |-> dates]]
    /\ UNCHANGED <<entry, posting, active>>

ClosePeriod(q) ==
    /\ period[q].status = "open"
    /\ period' = [period EXCEPT ![q].status = "closed"]
    /\ UNCHANGED <<entry, posting, active>>

ReopenPeriod(q) ==
    /\ period[q].status = "closed"
    /\ period' = [period EXCEPT ![q].status = "open"]
    /\ UNCHANGED <<entry, posting, active>>

\* create_account, and ensure_ledger_accounts for the seeded ones.
CreateAccount(a) ==
    /\ a \notin DOMAIN active
    /\ active' = [b \in DOMAIN active \cup {a} |-> b = a \/ active[b]]
    /\ UNCHANGED <<period, entry, posting>>

\* update_account may deactivate an account, and activate it again.
UpdateAccount(a, on) ==
    /\ a \in DOMAIN active
    /\ active' = [active EXCEPT ![a] = on]
    /\ UNCHANGED <<period, entry, posting>>

-----------------------------------------------------------------------------
(* Postings *)

IsActive(a) == a \in DOMAIN active /\ active[a]

\* find_period_for_date is a LIMIT 1 without an order: any period that covers
\* the date.  When none does, ensure_period_for_date inserts the month's, whose
\* code stays locked until the commit.
Covering(d) == {q \in AllPeriods : period[q].status # "none" /\ d \in period[q].dates}

\* post_journal_handler and post_journal up to the period's test: the accounts are
\* locked, the source has no entry yet, and the period accepts postings.
PostJournalRead(x, d, a, s, reversed) ==
    /\ \A y \in LedgerTxns : posting[y] = NoPosting
    /\ IsActive(a)
    /\ reversed # NoEntry => entry[reversed].account = a
    /\ s # NoSource => \A e \in Entries : entry[e].source # s
    /\ \/ \E q \in Covering(d) :
             /\ period[q].status = "open"
             /\ posting' = [posting EXCEPT ![x] = [at |-> "post", period |-> q, creates |-> NoEntry,
                                        account |-> a, source |-> s, reverses |-> reversed]]
       \/ /\ Covering(d) = {} /\ period[d].status = "none"
          /\ posting' = [posting EXCEPT ![x] = [at |-> "post", period |-> d, creates |-> d,
                                     account |-> a, source |-> s, reverses |-> reversed]]
    /\ UNCHANGED <<period, entry, active>>

\* The entry and its lines.  An inactive account, or a second entry for a payroll
\* run (finance_journal_entry_org_source_payroll_uidx), rolls everything back.
Posts(x) ==
    /\ IsActive(posting[x].account)
    /\ posting[x].source \in PayrollSources => \A e \in Entries : entry[e].source # posting[x].source

PostJournalWrite(x, e) ==
    LET p == posting[x]
    IN  /\ p.at = "post"
        /\ entry[e] = Unposted
        /\ Posts(x)
        /\ entry' = [entry EXCEPT ![e] = [period |-> p.period, account |-> p.account,
                                          source |-> p.source, reverses |-> p.reverses]]
        /\ period' = IF p.creates = NoEntry THEN period
                     ELSE [period EXCEPT ![p.creates] = [status |-> "open", dates |-> {p.creates}]]
        /\ posting' = [posting EXCEPT ![x] = NoPosting]
        /\ UNCHANGED active

PostJournalFails(x) ==
    /\ posting[x].at = "post"
    /\ ~Posts(x)
    /\ posting' = [posting EXCEPT ![x] = NoPosting]
    /\ UNCHANGED <<period, entry, active>>

GeneralLedgerNext ==
    \/ \E q \in AllPeriods, dates \in SUBSET Dates \ {{}} : CreatePeriod(q, dates)
    \/ \E q \in AllPeriods : ClosePeriod(q) \/ ReopenPeriod(q)
    \/ \E a \in LedgerAccounts : CreateAccount(a)
    \/ \E a \in LedgerAccounts, on \in BOOLEAN : UpdateAccount(a, on)
    \/ \E x \in LedgerTxns, d \in Dates, a \in LedgerAccounts, s \in LedgerSources,
          r \in Entries \cup {NoEntry} : PostJournalRead(x, d, a, s, r)
    \/ \E x \in LedgerTxns, e \in Entries : PostJournalWrite(x, e)
    \/ \E x \in LedgerTxns : PostJournalFails(x)

-----------------------------------------------------------------------------
(* Properties *)

\* One journal entry per payroll run, however many requests post it at once: the
\* lookup by source follows the lock, and a unique index stands behind it.
PayrollPostedOnce ==
    \A e, f \in Entries : e # f /\ entry[e].source \in PayrollSources => entry[e].source # entry[f].source

=============================================================================
