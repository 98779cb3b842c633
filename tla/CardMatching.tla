---------------------------- MODULE CardMatching ----------------------------
(***************************************************************************)
(* Card transactions and the expenses they are matched with.               *)
(* auto_match_cards reads the unmatched cards, then the expenses without a *)
(* card, and writes both sides of its matches without testing them again.  *)
(* rematched remembers the cards and expenses that were written although   *)
(* another run had matched them after the read.                            *)
(***************************************************************************)
EXTENDS GreedyMatching

CONSTANTS
    Cards,         \* finance_card_transaction ids, in txn_date order
    CardExpenses,  \* finance_expense ids
    CardRuns,      \* concurrent auto_match_cards requests
    Unmatched      \* no card, no expense

ASSUME CardMatchingAssumption == Cards \subseteq Nat /\ Unmatched \notin Cards \cup CardExpenses

VARIABLES
    cardFits,    \* imported cards, with the expenses of their amount and date
    cardExpense, \* matched_expense_id of each card
    expenseCard, \* card_txn_id of each submitted expense
    cardRun,     \* what each run has read
    rematched    \* history: cards and expenses that two runs matched

cardMatchingVars == <<cardFits, cardExpense, expenseCard, cardRun, rematched>>

NotRunning == [step |-> "idle"]
Imported == DOMAIN cardFits
SubmittedExpenses == DOMAIN expenseCard

CardMatchingTypeOK ==
    /\ Imported \subseteq Cards /\ \A c \in Imported : cardFits[c] \subseteq CardExpenses
    /\ cardExpense \in [Cards -> CardExpenses \cup {Unmatched}]
    /\ SubmittedExpenses \subseteq CardExpenses
    /\ \A e \in SubmittedExpenses : expenseCard[e] \in Cards \cup {Unmatched}
    /\ DOMAIN cardRun = CardRuns
    /\ rematched \subseteq Cards \cup CardExpenses

CardMatchingInit ==
    /\ cardFits = [c \in {} |-> {}]
    /\ cardExpense = [c \in Cards |-> Unmatched]
    /\ expenseCard = [e \in {} |-> Unmatched]
    /\ cardRun = [x \in CardRuns |-> NotRunning]
    /\ rematched = {}

\* import_card_csv: every data row of the file, unmatched.
ImportCardCsv(new, fit) ==
    /\ new # {} /\ new \cap Imported = {}
    /\ cardFits' = [c \in Imported \cup new |-> IF c \in new THEN fit[c] ELSE cardFits[c]]
    /\ UNCHANGED <<cardExpense, expenseCard, cardRun, rematched>>

\* submit_expense, which Reimbursements describes.
ExpenseArrives(e) ==
    /\ e \notin SubmittedExpenses
    /\ expenseCard' = [f \in SubmittedExpenses \cup {e} |-> IF f = e THEN Unmatched ELSE expenseCard[f]]
    /\ UNCHANGED <<cardFits, cardExpense, cardRun, rematched>>

AutoMatchReadCards(x) ==
    /\ cardRun[x] = NotRunning
    /\ cardRun' = [cardRun EXCEPT ![x] =
           [step |-> "cards", cards |-> {c \in Imported : cardExpense[c] = Unmatched}]]
    /\ UNCHANGED <<cardFits, cardExpense, expenseCard, rematched>>

AutoMatchReadExpenses(x) ==
    /\ cardRun[x].step = "cards"
    /\ cardRun' = [cardRun EXCEPT ![x] =
           [step |-> "expenses", cards |-> cardRun[x].cards,
            pool |-> {e \in SubmittedExpenses : expenseCard[e] = Unmatched}]]
    /\ UNCHANGED <<cardFits, cardExpense, expenseCard, rematched>>

AutoMatchWrite(x) ==
    /\ cardRun[x].step = "expenses"
    /\ \E m \in GreedyMatches(cardRun[x].cards, cardRun[x].pool, cardFits, cardFits) :
           LET taken == {m[c] : c \in DOMAIN m}
           IN  /\ cardExpense' = [c \in Cards |-> IF c \in DOMAIN m THEN m[c] ELSE cardExpense[c]]
               /\ expenseCard' = [e \in SubmittedExpenses |->
                                     IF e \in taken THEN CHOOSE c \in DOMAIN m : m[c] = e
                                     ELSE expenseCard[e]]
               /\ rematched' = rematched \cup {c \in DOMAIN m : cardExpense[c] # Unmatched}
                                         \cup {e \in taken : expenseCard[e] # Unmatched}
    /\ cardRun' = [cardRun EXCEPT ![x] = NotRunning]
    /\ UNCHANGED cardFits

CardMatchingNext ==
    \/ \E new \in SUBSET Cards : \E fit \in [new -> SUBSET CardExpenses] : ImportCardCsv(new, fit)
    \/ \E e \in CardExpenses : ExpenseArrives(e)
    \/ \E x \in CardRuns : AutoMatchReadCards(x) \/ AutoMatchReadExpenses(x) \/ AutoMatchWrite(x)

-----------------------------------------------------------------------------
\* matched_expense_id and card_txn_id point at each other, and a match is
\* between a card and an expense that fit, unless two runs matched one of the
\* two.
CardLinksAgree ==
    /\ \A c \in Imported : cardExpense[c] # Unmatched =>
           /\ cardExpense[c] \in cardFits[c]
           /\ expenseCard[cardExpense[c]] = c \/ cardExpense[c] \in rematched
    /\ \A e \in SubmittedExpenses : expenseCard[e] # Unmatched =>
           cardExpense[expenseCard[e]] = e \/ expenseCard[e] \in rematched

=============================================================================
