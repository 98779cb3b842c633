------------------------- MODULE BankReconciliation -------------------------
(***************************************************************************)
(* Bank statements of the finance service and their reconciliation with    *)
(* received payments.  auto_match_statement reads the unmatched lines,     *)
(* then the payments that no reconciliation names, without a lock, and     *)
(* writes its matches later.  UNIQUE (statement_line_id) of                *)
(* finance_bank_reconciliation rolls back a run that matches a line twice; *)
(* nothing makes matched_payment_id unique.                                *)
(***************************************************************************)
EXTENDS GreedyMatching, FiniteSets

CONSTANTS
    StatementLines,  \* finance_bank_statement_line, in line_no order
    Statements,      \* finance_bank_statement ids
    Received,        \* finance_payment ids
    MatchRuns,       \* concurrent auto_match_statement requests
    NoStatement      \* a line that is not imported

ASSUME BankReconciliationAssumption ==
    /\ StatementLines \subseteq Nat
    /\ NoStatement \notin Statements

VARIABLES
    bankAccount,  \* whether a bank account exists
    statementOf,  \* the statement of each line
    fits,         \* payments with the amount of the line, within three days
    refers,       \* payments that the line's reference, empty or not, allows
    received,     \* payments recorded so far
    reconciled,   \* finance_bank_reconciliation: <<line, payment>> pairs
    matching      \* what each run has read

bankReconciliationVars == <<bankAccount, statementOf, fits, refers, received, reconciled, matching>>

statementData == <<bankAccount, statementOf, fits, refers>>
\* An empty reference allows every payment, any other one at most the payment it names.
References == {Received, {}} \cup {{p} : p \in Received}
NotMatching == [step |-> "idle"]
ReconciledLines == {r[1] : r \in reconciled}
ReconciledPayments == {r[2] : r \in reconciled}

BankReconciliationTypeOK ==
    /\ bankAccount \in BOOLEAN
    /\ statementOf \in [StatementLines -> Statements \cup {NoStatement}]
    /\ fits \in [StatementLines -> SUBSET Received]
    /\ refers \in [StatementLines -> SUBSET Received]
    /\ received \subseteq Received
    /\ reconciled \subseteq StatementLines \X Received
    /\ DOMAIN matching = MatchRuns

BankReconciliationInit ==
    /\ bankAccount = FALSE
    /\ statementOf = [l \in StatementLines |-> NoStatement]
    /\ fits = [l \in StatementLines |-> {}]
    /\ refers = [l \in StatementLines |-> Received]
    /\ received = {}
    /\ reconciled = {}
    /\ matching = [x \in MatchRuns |-> NotMatching]

CreateBankAccount ==
    /\ ~bankAccount
    /\ bankAccount' = TRUE
    /\ UNCHANGED <<statementOf, fits, refers, received, reconciled, matching>>

\* import_statement: the lines of a statement, all unmatched.
ImportStatement(s, lines, fit, named) ==
    /\ bankAccount
    /\ \A l \in StatementLines : statementOf[l] # s
    /\ \A l \in lines : statementOf[l] = NoStatement
    /\ statementOf' = [l \in StatementLines |-> IF l \in lines THEN s ELSE statementOf[l]]
    /\ fits' = [l \in StatementLines |-> IF l \in lines THEN fit[l] ELSE fits[l]]
    /\ refers' = [l \in StatementLines |-> IF l \in lines THEN named ELSE refers[l]]
    /\ UNCHANGED <<bankAccount, received, reconciled, matching>>

\* record_payment, which Receivables describes.
PaymentArrives(p) ==
    /\ p \notin received
    /\ received' = received \cup {p}
    /\ UNCHANGED <<statementData, reconciled, matching>>

\* auto_match_statement: the unmatched lines of the statement ...
MatchReadLines(x, s) ==
    /\ matching[x] = NotMatching
    /\ \E l \in StatementLines : statementOf[l] = s
    /\ matching' = [matching EXCEPT ![x] =
           [step |-> "lines", lines |-> {l \in StatementLines : statementOf[l] = s} \ ReconciledLines]]
    /\ UNCHANGED <<statementData, received, reconciled>>

\* ... then the candidate payments ...
MatchReadPayments(x) ==
    /\ matching[x].step = "lines"
    /\ matching' = [matching EXCEPT ![x] =
           [step |-> "payments", lines |-> matching[x].lines, pool |-> received \ ReconciledPayments]]
    /\ UNCHANGED <<statementData, received, reconciled>>

\* ... and the matches, unless another run has taken one of the lines.
MatchWrite(x) ==
    /\ matching[x].step = "payments"
    /\ \E m \in GreedyMatches(matching[x].lines, matching[x].pool, fits, refers) :
           reconciled' = IF DOMAIN m \cap ReconciledLines # {} THEN reconciled
                         ELSE reconciled \cup {<<l, m[l]>> : l \in DOMAIN m}
    /\ matching' = [matching EXCEPT ![x] = NotMatching]
    /\ UNCHANGED <<statementData, received>>

BankReconciliationNext ==
    \/ CreateBankAccount
    \/ \E s \in Statements, lines \in SUBSET StatementLines \ {{}} :
           \E fit \in [lines -> SUBSET Received], named \in References : ImportStatement(s, lines, fit, named)
    \/ \E p \in Received : PaymentArrives(p)
    \/ \E x \in MatchRuns, s \in Statements : MatchReadLines(x, s)
    \/ \E x \in MatchRuns : MatchReadPayments(x) \/ MatchWrite(x)

-----------------------------------------------------------------------------
\* However the runs overlap, a line is reconciled once, and a payment is
\* reconciled with at most one line of a statement: what the test of the
\* candidates cannot see, the greedy order and the unique line together
\* exclude.  Lines of two statements can take the same payment.
PaymentReconciledOncePerStatement ==
    \A r, q \in reconciled :
        r # q => /\ r[1] # q[1]
                 /\ r[2] = q[2] => statementOf[r[1]] # statementOf[q[1]]

=============================================================================
