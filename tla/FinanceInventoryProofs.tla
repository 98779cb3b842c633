----------------------- MODULE FinanceInventoryProofs -----------------------
(***************************************************************************)
(* Lemmas about the components of the finance and inventory services, for  *)
(* every set of invoices, payments, bills, expenses, entities, rates,      *)
(* templates, bank lines, cards, items, orders, receipts and assets.  Each *)
(* component has its inductive invariant and a lemma that its steps keep   *)
(* it; BackOfficeProofs puts them together.  What sums over a set of rows  *)
(* rests on the lemmas of the first section.                               *)
(***************************************************************************)
EXTENDS Receivables, GeneralLedger, Entities, VendorBills, Reimbursements,
        BankReconciliation, CardMatching, TaxRates, RecurringInvoices,
        StockLedger, Procurement, FixedAssets,
        FiniteSetTheorems, WellFoundedInduction, TLAPS

-----------------------------------------------------------------------------
(* Sums over finite sets *)

Chosen(s) == CHOOSE x \in s : TRUE

\* g computes the sums of F over the subsets of S, as the fold does.
Sums(g, F, S) ==
    g = [s \in SUBSET S |-> IF s = {} THEN 0 ELSE F[Chosen(s)] + g[s \ {Chosen(s)}]]

\* The fold of the community modules computes such a g.
LEMMA FoldIsSums ==
    ASSUME NEW F, NEW S
    PROVE  SumFunctionOnSet(F, S) = (CHOOSE g : Sums(g, F, S))[S]
  BY DEF SumFunctionOnSet, FoldFunctionOnSet, MapThenFoldSet, Sums, Chosen

\* A property of finite sets that fails for one fails for a smallest one.
LEMMA SmallestCounterexample ==
    ASSUME NEW S, IsFiniteSet(S), NEW T, T \subseteq SUBSET S, T # {}
    PROVE  \E s \in T : \A t \in T : t \subseteq s => t = s
  <1>1. IsWellFoundedOn(StrictSubsetOrdering(S), FiniteSubsetsOf(S))
    BY FS_StrictSubsetOrderingWellFounded
  <1>2. FiniteSubsetsOf(S) = SUBSET S
    BY FS_FiniteSubsetsOfFinite
  <1>3. PICK s \in T : \A t \in T : ~ (<<t, s>> \in StrictSubsetOrdering(S))
    <2>1. T \subseteq FiniteSubsetsOf(S)
      BY <1>2
    <2> HIDE DEF FiniteSubsetsOf
    <2> QED  BY <1>1, <2>1, WFMin
  <1>4. ASSUME NEW t \in T, t \subseteq s, t # s
        PROVE  FALSE
    <2>1. <<t, s>> \in (SUBSET S) \X (SUBSET S)
      OBVIOUS
    <2>2. <<t, s>> \in StrictSubsetOrdering(S)
      BY <1>4, <2>1 DEF StrictSubsetOrdering
    <2> QED  BY <1>3, <2>2
  <1> QED  BY <1>3, <1>4

\* Two such functions agree where both are defined.
LEMMA SumsAgree ==
    ASSUME NEW F, NEW S, IsFiniteSet(S), NEW A, NEW B, S \subseteq A, S \subseteq B,
           NEW g, Sums(g, F, A), NEW h, Sums(h, F, B)
    PROVE  g[S] = h[S]
  <1> DEFINE T == {s \in SUBSET S : g[s] # h[s]}
  <1>1. SUFFICES T = {}
    OBVIOUS
  <1>2. SUFFICES ASSUME T # {}
                 PROVE  FALSE
    OBVIOUS
  <1>3. PICK s \in T : \A t \in T : t \subseteq s => t = s
    <2>1. T \subseteq SUBSET S
      OBVIOUS
    <2> HIDE DEF T
    <2> QED  BY <1>2, <2>1, SmallestCounterexample
  <1>4. /\ g[s] = IF s = {} THEN 0 ELSE F[Chosen(s)] + g[s \ {Chosen(s)}]
        /\ h[s] = IF s = {} THEN 0 ELSE F[Chosen(s)] + h[s \ {Chosen(s)}]
    BY DEF Sums
  <1>5. s # {} => Chosen(s) \in s
    BY DEF Chosen
  <1>6. s # {} => g[s \ {Chosen(s)}] = h[s \ {Chosen(s)}]
    BY <1>3, <1>5
  <1> QED  BY <1>4, <1>6

\* There is such a function for every finite set.
LEMMA SumsExist ==
    ASSUME NEW F, NEW S, IsFiniteSet(S)
    PROVE  \E g : Sums(g, F, S)
  <1> DEFINE T == {s \in SUBSET S : ~ \E g : Sums(g, F, s)}
             h(s) == CHOOSE g : Sums(g, F, s)
  <1>1. SUFFICES ASSUME T # {}
                 PROVE  FALSE
    OBVIOUS
  <1>2. PICK u \in T : \A t \in T : t \subseteq u => t = u
    <2>1. T \subseteq SUBSET S
      OBVIOUS
    <2> HIDE DEF T
    <2> QED  BY <1>1, <2>1, SmallestCounterexample
  <1>3. u \subseteq S /\ IsFiniteSet(u)
    BY FS_Subset
  <1>4. ASSUME NEW s \in SUBSET u, s # u
        PROVE  Sums(h(s), F, s)
    BY <1>2, <1>3, <1>4
  <1> DEFINE g == [s \in SUBSET u |->
                      IF s = {} THEN 0 ELSE F[Chosen(s)] + h(s \ {Chosen(s)})[s \ {Chosen(s)}]]
  <1> HIDE DEF h
  <1>5. ASSUME NEW s \in SUBSET u, s # {}
        PROVE  g[s \ {Chosen(s)}] = h(s \ {Chosen(s)})[s \ {Chosen(s)}]
    <2> DEFINE t == s \ {Chosen(s)}
    <2>1. Chosen(s) \in s /\ t \in SUBSET u /\ t # u
      BY <1>5 DEF Chosen
    <2> HIDE DEF t
    <2>2. h(t)[t] = IF t = {} THEN 0 ELSE F[Chosen(t)] + h(t)[t \ {Chosen(t)}]
      BY <1>4, <2>1 DEF Sums
    <2>3. ASSUME t # {}
          PROVE  h(t)[t \ {Chosen(t)}] = h(t \ {Chosen(t)})[t \ {Chosen(t)}]
      <3> DEFINE v == t \ {Chosen(t)}
      <3>1. v \subseteq t /\ v \in SUBSET u /\ v # u /\ IsFiniteSet(v)
        BY <1>3, <2>1, FS_Subset
      <3>2. Sums(h(t), F, t) /\ Sums(h(v), F, v)
        BY <1>4, <2>1, <3>1
      <3> HIDE DEF v
      <3>3. h(t)[v] = h(v)[v]
        BY <3>1, <3>2, SumsAgree
      <3> QED  BY <3>3 DEF v
    <2> QED  BY <2>1, <2>2, <2>3 DEF t
  <1>6. Sums(g, F, u)
    BY <1>5 DEF Sums
  <1> HIDE DEF g
  <1> QED  BY <1>6

\* The sum over a set is that of the rest and of the element chosen.
LEMMA SumUnfolds ==
    ASSUME NEW F, NEW S, IsFiniteSet(S)
    PROVE  SumFunctionOnSet(F, S) =
               IF S = {} THEN 0 ELSE F[Chosen(S)] + SumFunctionOnSet(F, S \ {Chosen(S)})
  <1> DEFINE h(s) == CHOOSE g : Sums(g, F, s)
             R == S \ {Chosen(S)}
  <1>1. IsFiniteSet(R)
    BY FS_Subset
  <1>2. Sums(h(S), F, S) /\ Sums(h(R), F, R)
    BY <1>1, SumsExist
  <1>3. SumFunctionOnSet(F, S) = h(S)[S] /\ SumFunctionOnSet(F, R) = h(R)[R]
    BY FoldIsSums
  <1> HIDE DEF h
  <1>4. h(S)[R] = h(R)[R]
    BY <1>1, <1>2, SumsAgree
  <1>5. h(S)[S] = IF S = {} THEN 0 ELSE F[Chosen(S)] + h(S)[R]
    BY <1>2 DEF Sums
  <1> QED  BY <1>3, <1>4, <1>5

\* The sum of integers is an integer, and that of naturals a natural.
LEMMA SumType ==
    ASSUME NEW F, NEW S, IsFiniteSet(S), \A x \in S : F[x] \in Int
    PROVE  /\ SumFunctionOnSet(F, S) \in Int
           /\ (\A x \in S : F[x] \in Nat) => SumFunctionOnSet(F, S) \in Nat
  <1> DEFINE Good(s) == /\ SumFunctionOnSet(F, s) \in Int
                        /\ (\A x \in S : F[x] \in Nat) => SumFunctionOnSet(F, s) \in Nat
             T == {s \in SUBSET S : ~Good(s)}
  <1>1. SUFFICES ASSUME T # {}
                 PROVE  FALSE
    OBVIOUS
  <1>2. PICK s \in T : \A t \in T : t \subseteq s => t = s
    <2>1. T \subseteq SUBSET S
      OBVIOUS
    <2> HIDE DEF T
    <2> QED  BY <1>1, <2>1, SmallestCounterexample
  <1>3. SumFunctionOnSet(F, s) = IF s = {} THEN 0 ELSE F[Chosen(s)] + SumFunctionOnSet(F, s \ {Chosen(s)})
    BY FS_Subset, SumUnfolds
  <1>4. s # {} => Chosen(s) \in s
    BY DEF Chosen
  <1>5. s # {} => Good(s \ {Chosen(s)})
    BY <1>2, <1>4
  <1> QED  BY <1>3, <1>4, <1>5

\* Any element may be taken out of a sum.
LEMMA SumRemove ==
    ASSUME NEW F, NEW S, IsFiniteSet(S), \A x \in S : F[x] \in Int, NEW a \in S
    PROVE  SumFunctionOnSet(F, S) = F[a] + SumFunctionOnSet(F, S \ {a})
  <1> DEFINE Sum(s) == SumFunctionOnSet(F, s)
             Good(s) == \A x \in s : Sum(s) = F[x] + Sum(s \ {x})
             T == {s \in SUBSET S : ~Good(s)}
  <1>1. SUFFICES ASSUME T # {}
                 PROVE  FALSE
    OBVIOUS
  <1>2. PICK s \in T : \A t \in T : t \subseteq s => t = s
    <2>1. T \subseteq SUBSET S
      OBVIOUS
    <2> HIDE DEF T
    <2> QED  BY <1>1, <2>1, SmallestCounterexample
  <1> DEFINE c == Chosen(s)
  <1>3. PICK x \in s : Sum(s) # F[x] + Sum(s \ {x})
    OBVIOUS
  <1>4. c \in s /\ s \subseteq S
    BY <1>3 DEF Chosen
  <1>5. Sum(s) = F[c] + Sum(s \ {c})
    BY <1>3, FS_Subset, SumUnfolds
  <1>6. x # c
    BY <1>3, <1>5
  <1>7. Good(s \ {c}) /\ Good(s \ {x})
    BY <1>2, <1>3, <1>4
  <1>8. (s \ {c}) \ {x} = (s \ {x}) \ {c}
    OBVIOUS
  <1> DEFINE rest == Sum((s \ {c}) \ {x})
  <1>9. rest \in Int /\ F[x] \in Int /\ F[c] \in Int
    BY <1>3, <1>4, FS_Subset, SumType
  <1>10. Sum(s \ {c}) = F[x] + rest
    BY <1>3, <1>6, <1>7
  <1>11. Sum(s \ {x}) = F[c] + rest
    BY <1>4, <1>6, <1>7, <1>8
  <1> HIDE DEF Sum, rest, c
  <1> QED  BY <1>3, <1>5, <1>9, <1>10, <1>11

\* Functions that agree on a set have the same sum over it.
LEMMA SumSame ==
    ASSUME NEW F, NEW G, NEW S, IsFiniteSet(S), \A x \in S : F[x] = G[x]
    PROVE  SumFunctionOnSet(F, S) = SumFunctionOnSet(G, S)
  <1> DEFINE T == {s \in SUBSET S : SumFunctionOnSet(F, s) # SumFunctionOnSet(G, s)}
  <1>1. SUFFICES ASSUME T # {}
                 PROVE  FALSE
    OBVIOUS
  <1>2. PICK s \in T : \A t \in T : t \subseteq s => t = s
    <2>1. T \subseteq SUBSET S
      OBVIOUS
    <2> HIDE DEF T
    <2> QED  BY <1>1, <2>1, SmallestCounterexample
  <1>3. IsFiniteSet(s)
    BY FS_Subset
  <1>4. /\ SumFunctionOnSet(F, s) = IF s = {} THEN 0 ELSE F[Chosen(s)] + SumFunctionOnSet(F, s \ {Chosen(s)})
        /\ SumFunctionOnSet(G, s) = IF s = {} THEN 0 ELSE G[Chosen(s)] + SumFunctionOnSet(G, s \ {Chosen(s)})
    BY <1>3, SumUnfolds
  <1>5. s # {} => Chosen(s) \in s
    BY DEF Chosen
  <1>6. s # {} => SumFunctionOnSet(F, s \ {Chosen(s)}) = SumFunctionOnSet(G, s \ {Chosen(s)})
    BY <1>2, <1>5
  <1> QED  BY <1>4, <1>5, <1>6

\* The sum over no element, and over one.
LEMMA SumEmpty == ASSUME NEW F PROVE SumFunctionOnSet(F, {}) = 0
  BY FS_EmptySet, SumUnfolds

\* The sum over one element is its value.
LEMMA SumOne ==
    ASSUME NEW F, NEW a, F[a] \in Int
    PROVE  SumFunctionOnSet(F, {a}) = F[a]
  <1>1. IsFiniteSet({a}) /\ {a} \ {a} = {}
    BY FS_Singleton
  <1> QED  BY <1>1, SumEmpty, SumRemove

\* One element more adds its value.
LEMMA SumInsert ==
    ASSUME NEW F, NEW G, NEW S, IsFiniteSet(S), NEW a, a \notin S, G[a] \in Int,
           \A x \in S : F[x] \in Int /\ G[x] = F[x]
    PROVE  SumFunctionOnSet(G, S \cup {a}) = G[a] + SumFunctionOnSet(F, S)
  <1>1. IsFiniteSet(S \cup {a}) /\ (S \cup {a}) \ {a} = S
    BY FS_AddElement
  <1>2. \A x \in S \cup {a} : G[x] \in Int
    OBVIOUS
  <1>3. SumFunctionOnSet(G, S \cup {a}) = G[a] + SumFunctionOnSet(G, S)
    BY <1>1, <1>2, SumRemove
  <1> QED  BY <1>3, SumSame

\* Elements of value 0 may be left out.
LEMMA SumDrop ==
    ASSUME NEW F, NEW S, IsFiniteSet(S), \A x \in S : F[x] \in Int, NEW R \in SUBSET S,
           \A x \in S \ R : F[x] = 0
    PROVE  SumFunctionOnSet(F, S) = SumFunctionOnSet(F, R)
  <1> DEFINE Sum(s) == SumFunctionOnSet(F, s)
             T == {s \in SUBSET S : R \subseteq s /\ Sum(s) # Sum(R)}
  <1>1. SUFFICES ASSUME T # {}
                 PROVE  FALSE
    OBVIOUS
  <1>2. PICK s \in T : \A t \in T : t \subseteq s => t = s
    <2>1. T \subseteq SUBSET S
      OBVIOUS
    <2> HIDE DEF T
    <2> QED  BY <1>1, <2>1, SmallestCounterexample
  <1>3. PICK a \in s : a \notin R
    BY <1>2
  <1>4. Sum(s) = F[a] + Sum(s \ {a})
    BY <1>2, <1>3, FS_Subset, SumRemove
  <1>5. Sum(s \ {a}) \in Int /\ F[a] = 0
    BY <1>2, <1>3, FS_Subset, SumType
  <1>6. s \ {a} \in SUBSET S /\ R \subseteq s \ {a} /\ Sum(s \ {a}) # Sum(R)
    BY <1>2, <1>3, <1>4, <1>5
  <1> QED  BY <1>2, <1>3, <1>6

\* A sum of ones counts.
LEMMA SumOnes ==
    ASSUME NEW F, NEW S, IsFiniteSet(S), \A x \in S : F[x] = 1
    PROVE  SumFunctionOnSet(F, S) = Cardinality(S)
  <1> DEFINE T == {s \in SUBSET S : SumFunctionOnSet(F, s) # Cardinality(s)}
  <1>1. SUFFICES ASSUME T # {}
                 PROVE  FALSE
    OBVIOUS
  <1>2. PICK s \in T : \A t \in T : t \subseteq s => t = s
    <2>1. T \subseteq SUBSET S
      OBVIOUS
    <2> HIDE DEF T
    <2> QED  BY <1>1, <2>1, SmallestCounterexample
  <1>3. IsFiniteSet(s)
    BY FS_Subset
  <1>4. s # {}
    BY <1>2, SumEmpty, FS_EmptySet
  <1>5. PICK a \in s : TRUE
    BY <1>4
  <1>6. SumFunctionOnSet(F, s) = F[a] + SumFunctionOnSet(F, s \ {a})
    BY <1>3, SumRemove
  <1>7. SumFunctionOnSet(F, s \ {a}) = Cardinality(s \ {a})
    BY <1>2
  <1>8. Cardinality(s \ {a}) = Cardinality(s) - 1 /\ Cardinality(s) \in Nat
    BY <1>3, FS_CardinalityType, FS_RemoveElement
  <1> QED  BY <1>2, <1>6, <1>7, <1>8

\* The image of a finite set is finite.
LEMMA ImageFinite ==
    ASSUME NEW h, NEW S, IsFiniteSet(S)
    PROVE  IsFiniteSet({h[x] : x \in S})
  <1> DEFINE Image(s) == {h[x] : x \in s}
             T == {s \in SUBSET S : ~IsFiniteSet(Image(s))}
  <1>1. SUFFICES ASSUME T # {}
                 PROVE  FALSE
    <2>1. S \notin T => IsFiniteSet(Image(S))
      OBVIOUS
    <2> QED  BY <2>1
  <1>2. PICK s \in T : \A t \in T : t \subseteq s => t = s
    <2>1. T \subseteq SUBSET S
      OBVIOUS
    <2> HIDE DEF T
    <2> QED  BY <1>1, <2>1, SmallestCounterexample
  <1>3. s # {}
    <2>1. Image({}) = {}
      OBVIOUS
    <2> QED  BY <1>2, <2>1, FS_EmptySet
  <1>4. PICK a \in s : TRUE
    BY <1>3
  <1>5. Image(s) = Image(s \ {a}) \cup {h[a]}
    OBVIOUS
  <1>6. IsFiniteSet(Image(s \ {a}))
    <2>1. s \ {a} \notin T /\ s \ {a} \in SUBSET S
      BY <1>2, <1>4
    <2> HIDE DEF Image
    <2> QED  BY <2>1
  <1>7. ~IsFiniteSet(Image(s))
    BY <1>2
  <1> HIDE DEF Image
  <1> QED  BY <1>5, <1>6, <1>7, FS_AddElement

\* Renaming the elements, no two to the same, leaves the sum.
LEMMA SumImage ==
    ASSUME NEW F, NEW G, NEW h, NEW S, IsFiniteSet(S),
           \A x \in S : F[x] \in Int /\ G[h[x]] = F[x],
           \A x, y \in S : h[x] = h[y] => x = y
    PROVE  SumFunctionOnSet(G, {h[x] : x \in S}) = SumFunctionOnSet(F, S)
  <1> DEFINE Image(s) == {h[x] : x \in s}
             T == {s \in SUBSET S : SumFunctionOnSet(G, Image(s)) # SumFunctionOnSet(F, s)}
  <1>1. SUFFICES ASSUME T # {}
                 PROVE  FALSE
    OBVIOUS
  <1>2. PICK s \in T : \A t \in T : t \subseteq s => t = s
    <2>1. T \subseteq SUBSET S
      OBVIOUS
    <2> HIDE DEF T
    <2> QED  BY <1>1, <2>1, SmallestCounterexample
  <1>3. IsFiniteSet(s) /\ IsFiniteSet(Image(s))
    BY FS_Subset, ImageFinite
  <1>4. s # {}
    <2>1. Image({}) = {}
      OBVIOUS
    <2> HIDE DEF Image
    <2> QED  BY <1>2, <2>1, SumEmpty
  <1>5. PICK a \in s : TRUE
    BY <1>4
  <1>6. SumFunctionOnSet(F, s) = F[a] + SumFunctionOnSet(F, s \ {a})
    BY <1>3, SumRemove
  <1>7. SumFunctionOnSet(G, Image(s)) = G[h[a]] + SumFunctionOnSet(G, Image(s) \ {h[a]})
    <2>1. h[a] \in Image(s) /\ \A y \in Image(s) : G[y] \in Int
      OBVIOUS
    <2> HIDE DEF Image
    <2> QED  BY <1>3, <2>1, SumRemove
  <1>8. Image(s) \ {h[a]} = Image(s \ {a})
    OBVIOUS
  <1>9. SumFunctionOnSet(G, Image(s \ {a})) = SumFunctionOnSet(F, s \ {a})
    <2>1. s \ {a} \notin T /\ s \ {a} \in SUBSET S
      BY <1>2, <1>5
    <2> HIDE DEF Image
    <2> QED  BY <2>1
  <1> HIDE DEF Image, T
  <1>10. SumFunctionOnSet(G, Image(s)) # SumFunctionOnSet(F, s)
    BY <1>2 DEF T
  <1>11. G[h[a]] = F[a]
    BY <1>2, <1>5 DEF T
  <1> QED  BY <1>6, <1>7, <1>8, <1>9, <1>10, <1>11

-----------------------------------------------------------------------------
(* Receivables *)

InvoiceRecord == [status : InvoiceStatus, lines : Nat, total : Nat, paid : Nat, credited : Nat,
                  balance : Nat, number : Nat]
PaymentRecord == [amount : Nat, unapplied : Nat, source : Sources \cup {NoKey}]
StripeSources == {"stripe"} \X PaymentKeys
Unissued == {"none", "draft"}

\* An invoice's row r, what the journal holds for it, and whether it was voided:
\* nothing is owed before it is issued, afterwards what is not yet paid or
\* credited, and its total is that of its lines.
RowSound(r, owed, void) ==
    /\ r \in InvoiceRecord /\ owed \in Int
    /\ r.status \in Unissued =>
          ~void /\ r.number = 0 /\ r.paid = 0 /\ r.credited = 0 /\ r.balance = 0 /\ owed = 0
    /\ r.status = "void" => void
    /\ ~void => owed = r.balance
          /\ (r.status \notin Unissued => r.balance = r.total - r.paid - r.credited)
    /\ r.number > 0 => r.total = r.lines

InvoicesSound ==
    /\ invoice \in [Invoices -> InvoiceRecord] /\ receivable \in [Invoices -> Int]
          /\ nextNumber \in Nat \ {0}
    /\ \A i \in Invoices : RowSound(invoice[i], receivable[i], i \in voided)

\* What a request holds as long as it holds the accounts: an invoice in the
\* status it has read, and for an issue its lines; for a payment, a part of its
\* amount to allocate, and a source that no payment came from.
HoldsInvoice(r) ==
    r.op \in {"update", "issue", "send", "void"} =>
        /\ r.inv \in Invoices
        /\ invoice[r.inv].status \notin (IF r.op = "send" THEN Unissued ELSE {"none"})
        /\ r.op = "update" => invoice[r.inv].status = "draft"
        /\ r.op = "issue" => invoice[r.inv].status = "draft" /\ r.amount = invoice[r.inv].lines
HoldsPayment(r) ==
    r.op = "pay" =>
        /\ r.amount \in Nat /\ r.allocate \in Nat /\ r.allocate <= r.amount
        /\ r.allocate > 0 => r.inv \in Invoices
        /\ r.source \in Sources \cup {NoKey}
        /\ r.source \in StripeSources => r.source \notin idemKeys

\* One request at a time holds the accounts.
RequestsSound ==
    /\ DOMAIN request = InvoiceTxns
    /\ \A x \in InvoiceTxns : /\ HoldsInvoice(request[x]) /\ HoldsPayment(request[x])
                              /\ \A y \in InvoiceTxns \ {x} : IdleRequest \in {request[x], request[y]}

\* A payment is a customer's credit for what is unapplied of it, and the event
\* it came from is stored.
PaymentsSound ==
    /\ payment \in [Payments -> PaymentRecord] /\ DOMAIN credit = Payments
    /\ \A p \in Payments : /\ credit[p] = payment[p].unapplied
                           /\ payment[p].source \in StripeSources =>
                                 payment[p].source \in idemKeys
    /\ EventRecordsOnePayment

ReceivablesIInv == InvoicesSound /\ RequestsSound /\ PaymentsSound

\* Once issued, an invoice's number, total and lines stay.
Immutable ==
    \A i \in Invoices : invoice[i].number > 0 =>
        /\ invoice'[i].number = invoice[i].number
        /\ invoice'[i].total = invoice[i].total
        /\ invoice'[i].lines = invoice[i].lines

\* A payment or a credit takes an amount off an invoice's row.
TakenOff(r, f, a) ==
    /\ f.status = r.status /\ f.number = r.number /\ f.total = r.total /\ f.lines = r.lines
    /\ f.total - f.paid - f.credited = r.total - r.paid - r.credited - a

\* Paying or crediting an open invoice by no more than its balance leaves its
\* row as sound as it was, and less owed.
LEMMA BalanceAndStatusSound ==
    ASSUME NEW r \in InvoiceRecord, NEW owed \in Int, NEW i,
           RowSound(r, owed, i \in voided), r.status \in OpenStatus,
           NEW a \in Nat, a <= r.balance, NEW f \in InvoiceRecord, TakenOff(r, f, a)
    PROVE  /\ RowSound(BalanceAndStatus(f), owed - a, i \in voided)
           /\ BalanceAndStatus(f).status \in OpenStatus
           /\ BalanceAndStatus(f).number = r.number
           /\ BalanceAndStatus(f).total = r.total /\ BalanceAndStatus(f).lines = r.lines
  <1>1. /\ f \in InvoiceRecord /\ f.status = r.status /\ f.number = r.number
        /\ f.total = r.total /\ f.lines = r.lines
        /\ f.total - f.paid - f.credited = r.total - r.paid - r.credited - a
    BY DEF TakenOff
  <1> DEFINE b == f.total - f.paid - f.credited
             balance == IF b > 0 THEN b ELSE 0
             status == IF b <= 0 THEN "paid" ELSE IF f.paid > 0 THEN "partially_paid" ELSE f.status
  <1>2. BalanceAndStatus(f) = [f EXCEPT !.balance = balance, !.status = status]
    BY DEF BalanceAndStatus
  <1>3. b \in Int
    BY <1>1 DEF InvoiceRecord
  <1>4. status \in OpenStatus /\ balance \in Nat
    BY <1>1, <1>3 DEF OpenStatus
  <1>5. i \notin voided => owed - a = balance /\ balance = b
    <2>1. i \notin voided => owed = r.balance /\ r.balance = r.total - r.paid - r.credited
      BY DEF RowSound, OpenStatus, Unissued
    <2>2. r.balance \in Nat
      BY DEF InvoiceRecord
    <2> QED  BY <1>1, <1>3, <2>1, <2>2
  <1> HIDE DEF b, balance, status
  <1> DEFINE g == BalanceAndStatus(f)
  <1>7. /\ g \in InvoiceRecord /\ g.status = status /\ g.balance = balance
              /\ g.number = r.number
        /\ g.total = r.total /\ g.lines = r.lines /\ g.paid = f.paid /\ g.credited = f.credited
    BY <1>1, <1>2, <1>4 DEF InvoiceRecord, OpenStatus, InvoiceStatus
  <1> HIDE DEF g
  <1>8. RowSound(g, owed - a, i \in voided)
    <2>1. status \notin Unissued /\ status # "void"
      BY <1>4 DEF OpenStatus, Unissued
    <2>2. r.number > 0 => r.total = r.lines
      BY DEF RowSound
    <2>3. g.total - g.paid - g.credited = b
      BY <1>1, <1>7 DEF b
    <2> QED  BY <1>5, <1>7, <2>1, <2>2, <2>3 DEF RowSound
  <1> QED  BY <1>4, <1>7, <1>8 DEF g

\* Writing one invoice soundly keeps every invoice sound.
LEMMA RowWritten ==
    ASSUME InvoicesSound, NEW i \in Invoices, NEW row, NEW owed,
           invoice' = [invoice EXCEPT ![i] = row], receivable' = [receivable EXCEPT ![i] = owed],
           voided' \in {voided, voided \cup {i}},
           RowSound(row, owed, i \in voided'), nextNumber' \in Nat \ {0}
    PROVE  InvoicesSound' /\ invoice'[i] = row
              /\ \A j \in Invoices \ {i} : invoice'[j] = invoice[j]
  <1>1. \A j \in Invoices : /\ invoice'[j] = IF j = i THEN row ELSE invoice[j]
                            /\ receivable'[j] = IF j = i THEN owed ELSE receivable[j]
                            /\ j # i => (j \in voided' <=> j \in voided)
    BY DEF InvoicesSound
  <1>2. \A j \in Invoices : RowSound(invoice'[j], receivable'[j], j \in voided')
    <2> SUFFICES ASSUME NEW j \in Invoices
                 PROVE  RowSound(invoice'[j], receivable'[j], j \in voided')
      OBVIOUS
    <2>1. CASE j = i
      BY <1>1, <2>1
    <2>2. CASE j # i
      <3>1. RowSound(invoice[j], receivable[j], j \in voided)
        BY DEF InvoicesSound
      <3> QED  BY <1>1, <2>2, <3>1 DEF RowSound
    <2> QED  BY <2>1, <2>2
  <1>3. invoice' \in [Invoices -> InvoiceRecord] /\ receivable' \in [Invoices -> Int]
    <2>1. row \in InvoiceRecord /\ owed \in Int
      BY DEF RowSound
    <2> QED  BY <2>1 DEF InvoicesSound
  <1> QED  BY <1>1, <1>2, <1>3 DEF InvoicesSound

\* A request that starts is the only one.
LEMMA RequestStarts ==
    ASSUME RequestsSound, NEW x \in InvoiceTxns, NEW r, StartRequest(x, r),
           UNCHANGED <<invoice, idemKeys>>, HoldsInvoice(r), HoldsPayment(r)
    PROVE  RequestsSound'
  <1>1. \A y \in InvoiceTxns : request[y] = IdleRequest
    BY DEF StartRequest, LedgerUnlocked
  <1>2. DOMAIN request' = InvoiceTxns
           /\ \A y \in InvoiceTxns : request'[y] = IF y = x THEN r ELSE IdleRequest
    BY <1>1 DEF RequestsSound, StartRequest
  <1>3. ASSUME NEW y \in InvoiceTxns
        PROVE  HoldsInvoice(request[y])' /\ HoldsPayment(request[y])'
    BY <1>2 DEF HoldsInvoice, HoldsPayment, IdleRequest
  <1> QED  BY <1>2, <1>3 DEF RequestsSound

\* When the request that holds the accounts ends, they are free.
LEMMA RequestEnds ==
    ASSUME RequestsSound, NEW x \in InvoiceTxns, request[x].op # "idle", FinishRequest(x)
    PROVE  RequestsSound'
  <1>1. DOMAIN request' = InvoiceTxns
           /\ \A y \in InvoiceTxns : request'[y] = IF y = x THEN IdleRequest ELSE request[y]
    BY DEF RequestsSound, FinishRequest
  <1>2. \A y \in InvoiceTxns \ {x} : request[y] = IdleRequest
    BY DEF RequestsSound, IdleRequest
  <1>3. DOMAIN request' = InvoiceTxns /\ LedgerUnlocked'
    BY <1>1, <1>2 DEF LedgerUnlocked
  <1> HIDE DEF LedgerUnlocked
  <1> QED  BY <1>3 DEF RequestsSound, LedgerUnlocked, HoldsInvoice, HoldsPayment, IdleRequest

\* Every step of the receivables keeps the invariant and what was issued.
LEMMA ReceivablesStep ==
    ASSUME ReceivablesIInv, ReceivablesNext
    PROVE  ReceivablesIInv' /\ Immutable
  <1>0. InvoicesSound /\ RequestsSound /\ PaymentsSound
    BY DEF ReceivablesIInv
  <1>p. ASSUME UNCHANGED payments, UNCHANGED credit
        PROVE  PaymentsSound'
    BY <1>0, <1>p DEF payments, PaymentsSound, EventRecordsOnePayment
  <1>i. ASSUME UNCHANGED <<invoice, nextNumber, receivable, voided>>
        PROVE  InvoicesSound' /\ Immutable
    BY <1>0, <1>i DEF InvoicesSound, Immutable
  \* A request that reads: nothing but the request changes.
  <1>r. ASSUME NEW x \in InvoiceTxns, NEW r, StartRequest(x, r),
               UNCHANGED <<invoice, payments, nextNumber, journal, voided>>,
               HoldsInvoice(r), HoldsPayment(r)
        PROVE  ReceivablesIInv' /\ Immutable
    <2>1. UNCHANGED <<invoice, idemKeys, receivable, credit>>
      BY <1>r DEF payments, journal
    <2>2. RequestsSound'
      BY <1>0, <1>r, <2>1, RequestStarts
    <2> QED  BY <1>i, <1>p, <1>r, <2>1, <2>2 DEF ReceivablesIInv
  \* A request that reads and writes in one step.
  <1>u. ASSUME LedgerUnlocked, UNCHANGED request
        PROVE  RequestsSound'
    BY <1>0, <1>u DEF RequestsSound, LedgerUnlocked, HoldsInvoice, HoldsPayment, IdleRequest
  <1>1. ASSUME NEW i \in Invoices, NEW a \in Amounts, CreateInvoice(i, a)
        PROVE  ReceivablesIInv' /\ Immutable
    <2> DEFINE row == [NoInvoiceRow EXCEPT !.status = "draft", !.lines = a, !.total = a]
    <2>1. /\ invoice[i] = NoInvoiceRow /\ invoice' = [invoice EXCEPT ![i] = row]
          /\ UNCHANGED <<payments, nextNumber, journal, request, voided>> /\ LedgerUnlocked
      BY <1>0, <1>1 DEF CreateInvoice, InvoicesSound
    <2>2. a \in Nat
      BY ReceivablesAssumption
    <2>3. /\ row \in InvoiceRecord /\ row.status = "draft" /\ row.number = 0 /\ row.paid = 0
          /\ row.credited = 0 /\ row.balance = 0
      BY <2>2 DEF NoInvoiceRow, InvoiceRecord, InvoiceStatus
    <2> HIDE DEF row
    <2>4. invoice[i].status = "none" /\ invoice[i].number = 0
      BY <2>1 DEF NoInvoiceRow
    <2>5. i \notin voided /\ receivable[i] = 0
      BY <1>0, <2>4 DEF InvoicesSound, RowSound, Unissued
    <2>6. RowSound(row, 0, i \in voided')
      BY <2>1, <2>3, <2>5 DEF RowSound, Unissued
    <2>7. receivable' = [receivable EXCEPT ![i] = 0] /\ voided' = voided
      BY <1>0, <2>1, <2>5 DEF InvoicesSound, journal
    <2>8. InvoicesSound' /\ invoice'[i] = row
             /\ \A j \in Invoices \ {i} : invoice'[j] = invoice[j]
      BY <1>0, <2>1, <2>6, <2>7, RowWritten DEF InvoicesSound
    <2>9. RequestsSound'
      BY <1>u, <2>1
    <2>10. Immutable
      BY <2>4, <2>8 DEF Immutable
    <2> QED  BY <1>p, <2>1, <2>8, <2>9, <2>10 DEF ReceivablesIInv, journal
  <1>2. ASSUME NEW x \in InvoiceTxns, NEW i \in Invoices,
               \/ UpdateInvoiceRead(x, i) \/ SendInvoiceRead(x, i) \/ VoidInvoiceRead(x, i)
        PROVE  ReceivablesIInv' /\ Immutable
    <2>1. PICK op \in {"update", "send", "void"} :
             /\ StartRequest(x, [op |-> op, inv |-> i])
             /\ op = "send" => invoice[i].status \in {"issued", "sent"}
             /\ op = "update" => invoice[i].status = "draft"
             /\ op = "void" => invoice[i].status # "none"
             /\ UNCHANGED <<invoice, payments, nextNumber, journal, voided>>
      BY <1>2 DEF UpdateInvoiceRead, SendInvoiceRead, VoidInvoiceRead
    <2> DEFINE r == [op |-> op, inv |-> i]
    <2>2. r.op = op /\ r.inv = i
      OBVIOUS
    <2>3. StartRequest(x, r)
      BY <2>1
    <2> HIDE DEF r
    <2>4. HoldsInvoice(r) /\ HoldsPayment(r)
      BY <2>1, <2>2 DEF HoldsInvoice, HoldsPayment, Unissued
    <2> QED  BY <1>r, <2>1, <2>3, <2>4
  <1>3. ASSUME NEW x \in InvoiceTxns, NEW i \in Invoices, IssueInvoiceRead(x, i)
        PROVE  ReceivablesIInv' /\ Immutable
    <2> DEFINE r == [op |-> "issue", inv |-> i, amount |-> invoice[i].lines]
    <2>1. StartRequest(x, r) /\ invoice[i].status = "draft"
             /\ UNCHANGED <<invoice, payments, nextNumber, journal, voided>>
      BY <1>3 DEF IssueInvoiceRead
    <2>2. HoldsInvoice(r) /\ HoldsPayment(r)
      BY <2>1 DEF HoldsInvoice, HoldsPayment, Unissued
    <2> QED  BY <1>r, <2>1, <2>2
  <1>4. ASSUME NEW x \in InvoiceTxns, NEW i \in Invoices \cup {NoInvoice}, NEW a \in Amounts,
               NEW k \in PaymentKeys \cup {NoKey}, RecordPaymentRead(x, i, a, k)
        PROVE  ReceivablesIInv' /\ Immutable
    <2> DEFINE n == IF i = NoInvoice THEN 0 ELSE Lesser(a, invoice[i].balance)
               s == IF k = NoKey THEN NoKey ELSE <<"api", k>>
               r == [op |-> "pay", inv |-> i, amount |-> a, allocate |-> n, source |-> s]
    <2>1. StartRequest(x, r) /\ UNCHANGED <<invoice, payments, nextNumber, journal, voided>>
      BY <1>4 DEF RecordPaymentRead
    <2>2. a \in Nat /\ n \in Nat /\ n <= a /\ (n > 0 => i \in Invoices)
      BY <1>0, ReceivablesAssumption DEF InvoicesSound, RowSound, InvoiceRecord, Lesser
    <2>3. s \in Sources \cup {NoKey} /\ s \notin StripeSources
      BY ReceivablesAssumption DEF Sources, StripeSources
    <2> HIDE DEF n, s
    <2>4. HoldsInvoice(r) /\ HoldsPayment(r)
      BY <2>2, <2>3 DEF HoldsInvoice, HoldsPayment
    <2> QED  BY <1>r, <2>1, <2>4
  <1>5. ASSUME NEW x \in InvoiceTxns, NEW i \in Invoices \cup {NoInvoice}, NEW a \in Amounts,
               NEW k \in PaymentKeys, StripeWebhookRead(x, i, a, k)
        PROVE  ReceivablesIInv' /\ Immutable
    <2> DEFINE n == IF i # NoInvoice /\ invoice[i].status \in OpenStatus
                    THEN Lesser(a, invoice[i].balance) ELSE 0
               s == <<"stripe", k>>
               r == [op |-> "pay", inv |-> i, amount |-> a, allocate |-> n, source |-> s]
    <2>1. /\ StartRequest(x, r) /\ UNCHANGED <<invoice, payments, nextNumber, journal, voided>>
          /\ s \notin idemKeys
      BY <1>5 DEF StripeWebhookRead
    <2>2. a \in Nat /\ n \in Nat /\ n <= a /\ (n > 0 => i \in Invoices)
      BY <1>0, ReceivablesAssumption DEF InvoicesSound, RowSound, InvoiceRecord, Lesser
    <2>3. s \in Sources \cup {NoKey}
      BY DEF Sources
    <2> HIDE DEF n, s
    <2>4. HoldsInvoice(r) /\ HoldsPayment(r)
      BY <2>1, <2>2, <2>3 DEF HoldsInvoice, HoldsPayment
    <2> QED  BY <1>r, <2>1, <2>4
  <1>6. ASSUME NEW x \in InvoiceTxns, NEW a \in Amounts, UpdateInvoiceWrite(x, a)
        PROVE  ReceivablesIInv' /\ Immutable
    <2> DEFINE i == request[x].inv
               row == [invoice[i] EXCEPT !.lines = a, !.total = a]
    <2>1. /\ request[x].op = "update" /\ i \in Invoices /\ invoice[i].status = "draft"
          /\ FinishRequest(x) /\ UNCHANGED <<payments, nextNumber, journal, voided>>
      BY <1>0, <1>6 DEF UpdateInvoiceWrite, RequestsSound, HoldsInvoice
    <2>2. invoice' = [invoice EXCEPT ![i] = row]
      BY <1>0, <1>6, <2>1 DEF UpdateInvoiceWrite, InvoicesSound
    <2>3. a \in Nat /\ RowSound(invoice[i], receivable[i], i \in voided)
      BY <1>0, <2>1, ReceivablesAssumption DEF InvoicesSound
    <2>4. /\ row \in InvoiceRecord /\ row.status = "draft" /\ row.number = invoice[i].number
          /\ row.paid = invoice[i].paid /\ row.credited = invoice[i].credited
                /\ row.balance = invoice[i].balance
      BY <2>1, <2>3 DEF RowSound, InvoiceRecord
    <2> HIDE DEF row
    <2>5. RowSound(row, receivable[i], i \in voided') /\ invoice[i].number = 0
      BY <2>1, <2>3, <2>4 DEF RowSound, Unissued
    <2>6. receivable' = [receivable EXCEPT ![i] = receivable[i]] /\ voided' = voided
      BY <1>0, <2>1 DEF InvoicesSound, journal
    <2>7. InvoicesSound' /\ invoice'[i] = row
             /\ \A j \in Invoices \ {i} : invoice'[j] = invoice[j]
      <3>1. nextNumber' \in Nat \ {0}
        BY <1>0, <2>1 DEF InvoicesSound
      <3> QED  BY <1>0, <2>1, <2>2, <2>5, <2>6, <3>1, RowWritten
    <2>8. RequestsSound'
      BY <1>0, <2>1, RequestEnds
    <2>9. Immutable
      BY <2>1, <2>5, <2>7 DEF Immutable
    <2> QED  BY <1>p, <2>1, <2>7, <2>8, <2>9 DEF ReceivablesIInv, journal
  <1>7. ASSUME NEW x \in InvoiceTxns, IssueInvoiceWrite(x)
        PROVE  ReceivablesIInv' /\ Immutable
    <2> DEFINE i == request[x].inv
               a == request[x].amount
               row == [invoice[i] EXCEPT !.status = "issued", !.number = nextNumber,
                                         !.total = a, !.balance = a]
    <2>1. /\ request[x].op = "issue" /\ i \in Invoices
          /\ invoice[i].status = "draft" /\ a = invoice[i].lines
      BY <1>0, <1>7 DEF IssueInvoiceWrite, RequestsSound, HoldsInvoice
    <2>2. /\ nextNumber' = nextNumber + 1 /\ receivable' = [receivable EXCEPT ![i] = @ + a]
          /\ FinishRequest(x) /\ UNCHANGED <<payments, credit, voided>>
      BY <1>7 DEF IssueInvoiceWrite
    <2>3. invoice' = [invoice EXCEPT ![i] = row]
      BY <1>0, <1>7, <2>1 DEF IssueInvoiceWrite, InvoicesSound
    <2>4. RowSound(invoice[i], receivable[i], i \in voided) /\ nextNumber \in Nat \ {0}
      BY <1>0, <2>1 DEF InvoicesSound
    <2>5. a \in Nat
      BY <2>1, <2>4 DEF RowSound, InvoiceRecord
    <2>6. receivable' = [receivable EXCEPT ![i] = receivable[i] + a]
             /\ nextNumber' \in Nat \ {0}
      BY <2>2, <2>4
    <2>7. /\ row \in InvoiceRecord /\ row.status = "issued" /\ row.total = a
                /\ row.balance = a
          /\ row.lines = invoice[i].lines /\ row.paid = invoice[i].paid
                /\ row.credited = invoice[i].credited
      BY <2>4, <2>5 DEF RowSound, InvoiceRecord, InvoiceStatus
    <2> HIDE DEF row
    <2>8. /\ receivable[i] = 0 /\ invoice[i].paid = 0 /\ invoice[i].credited = 0
                /\ i \notin voided
          /\ invoice[i].number = 0
      BY <2>1, <2>4 DEF RowSound, Unissued
    <2>9. RowSound(row, receivable[i] + a, i \in voided')
      BY <2>1, <2>2, <2>5, <2>7, <2>8 DEF RowSound, Unissued
    <2>10. InvoicesSound' /\ invoice'[i] = row
              /\ \A j \in Invoices \ {i} : invoice'[j] = invoice[j]
      BY <1>0, <2>1, <2>2, <2>3, <2>6, <2>9, RowWritten
    <2>11. Immutable
      BY <2>8, <2>10 DEF Immutable
    <2>12. RequestsSound'
      BY <1>0, <2>1, <2>2, RequestEnds
    <2> QED  BY <1>p, <2>2, <2>10, <2>11, <2>12 DEF ReceivablesIInv
  <1>8. ASSUME NEW x \in InvoiceTxns, SendInvoiceWrite(x)
        PROVE  ReceivablesIInv' /\ Immutable
    <2> DEFINE i == request[x].inv
               row == [invoice[i] EXCEPT !.status = "sent"]
    <2>1. /\ request[x].op = "send" /\ i \in Invoices /\ invoice[i].status \notin Unissued
          /\ FinishRequest(x) /\ UNCHANGED <<payments, nextNumber, journal, voided>>
      BY <1>0, <1>8 DEF SendInvoiceWrite, RequestsSound, HoldsInvoice
    <2>2. invoice' = [invoice EXCEPT ![i] = row]
      BY <1>0, <1>8, <2>1 DEF SendInvoiceWrite, InvoicesSound
    <2>3. RowSound(invoice[i], receivable[i], i \in voided)
      BY <1>0, <2>1 DEF InvoicesSound
    <2>4. /\ row \in InvoiceRecord /\ row.status = "sent" /\ row.total = invoice[i].total
          /\ row.lines = invoice[i].lines /\ row.paid = invoice[i].paid
                /\ row.number = invoice[i].number
          /\ row.credited = invoice[i].credited /\ row.balance = invoice[i].balance
      BY <2>3 DEF RowSound, InvoiceRecord, InvoiceStatus
    <2> HIDE DEF row
    <2>5. RowSound(row, receivable[i], i \in voided')
      BY <2>1, <2>3, <2>4 DEF RowSound, Unissued
    <2>6. InvoicesSound' /\ invoice'[i] = row
             /\ \A j \in Invoices \ {i} : invoice'[j] = invoice[j]
      <3>1. receivable' = [receivable EXCEPT ![i] = receivable[i]] /\ voided' = voided
        BY <1>0, <2>1 DEF InvoicesSound, journal
      <3>2. nextNumber' \in Nat \ {0}
        BY <1>0, <2>1 DEF InvoicesSound
      <3> QED  BY <1>0, <2>1, <2>2, <2>5, <3>1, <3>2, RowWritten
    <2>7. RequestsSound'
      BY <1>0, <2>1, RequestEnds
    <2>8. Immutable
      BY <2>1, <2>4, <2>6 DEF Immutable
    <2> QED  BY <1>p, <2>1, <2>6, <2>7, <2>8 DEF ReceivablesIInv, journal
  <1>9. ASSUME NEW x \in InvoiceTxns, VoidInvoiceWrite(x)
        PROVE  ReceivablesIInv' /\ Immutable
    <2> DEFINE i == request[x].inv
               row == [invoice[i] EXCEPT !.status = "void", !.balance = 0]
    <2>1. /\ request[x].op = "void" /\ i \in Invoices /\ voided' = voided \cup {i}
          /\ FinishRequest(x) /\ UNCHANGED <<payments, nextNumber, journal>>
      BY <1>0, <1>9 DEF VoidInvoiceWrite, RequestsSound, HoldsInvoice
    <2>2. invoice' = [invoice EXCEPT ![i] = row]
      BY <1>0, <1>9, <2>1 DEF VoidInvoiceWrite, InvoicesSound
    <2>3. RowSound(invoice[i], receivable[i], i \in voided)
      BY <1>0, <2>1 DEF InvoicesSound
    <2>4. /\ row \in InvoiceRecord /\ row.status = "void" /\ row.total = invoice[i].total
          /\ row.lines = invoice[i].lines /\ row.number = invoice[i].number
      BY <2>3 DEF RowSound, InvoiceRecord, InvoiceStatus
    <2> HIDE DEF row
    <2>5. RowSound(row, receivable[i], i \in voided')
      BY <2>1, <2>3, <2>4 DEF RowSound, Unissued
    <2>6. InvoicesSound' /\ invoice'[i] = row
             /\ \A j \in Invoices \ {i} : invoice'[j] = invoice[j]
      <3>1. receivable' = [receivable EXCEPT ![i] = receivable[i]]
        BY <1>0, <2>1 DEF InvoicesSound, journal
      <3>2. nextNumber' \in Nat \ {0}
        BY <1>0, <2>1 DEF InvoicesSound
      <3> QED  BY <1>0, <2>1, <2>2, <2>5, <3>1, <3>2, RowWritten
    <2>7. RequestsSound'
      BY <1>0, <2>1, RequestEnds
    <2>8. Immutable
      BY <2>1, <2>4, <2>6 DEF Immutable
    <2> QED  BY <1>p, <2>1, <2>6, <2>7, <2>8 DEF ReceivablesIInv, journal
  \* A payment or a credit note takes an amount off an open invoice.
  <1>a. ASSUME NEW i \in Invoices, NEW a \in Nat, CanAllocate(i, a),
               NEW f \in {[invoice[i] EXCEPT !.paid = @ + a],
                          [invoice[i] EXCEPT !.credited = @ + a]},
               invoice' = [invoice EXCEPT ![i] = BalanceAndStatus(f)],
               receivable' = [receivable EXCEPT ![i] = @ - a],
               UNCHANGED <<nextNumber, voided>>
        PROVE  InvoicesSound' /\ Immutable
    <2> DEFINE row == BalanceAndStatus(f)
    <2>1. /\ invoice[i].status \in OpenStatus /\ a <= invoice[i].balance
          /\ invoice' = [invoice EXCEPT ![i] = row]
      BY <1>a DEF CanAllocate
    <2>2. /\ RowSound(invoice[i], receivable[i], i \in voided)
          /\ invoice[i] \in InvoiceRecord /\ receivable[i] \in Int
      BY <1>0 DEF InvoicesSound
    <2>3. /\ RowSound(row, receivable[i] - a, i \in voided)
          /\ row.number = invoice[i].number /\ row.total = invoice[i].total
                /\ row.lines = invoice[i].lines
      <3>1. f \in InvoiceRecord /\ TakenOff(invoice[i], f, a)
        <4>1. CASE f = [invoice[i] EXCEPT !.paid = @ + a]
          BY <2>2, <4>1 DEF InvoiceRecord, TakenOff
        <4>2. CASE f = [invoice[i] EXCEPT !.credited = @ + a]
          BY <2>2, <4>2 DEF InvoiceRecord, TakenOff
        <4> QED  BY <1>a, <4>1, <4>2
      <3> QED  BY <2>1, <2>2, <3>1, BalanceAndStatusSound
    <2> HIDE DEF row
    <2>4. InvoicesSound' /\ invoice'[i] = row
             /\ \A j \in Invoices \ {i} : invoice'[j] = invoice[j]
      <3>1. receivable' = [receivable EXCEPT ![i] = receivable[i] - a]
               /\ nextNumber' \in Nat \ {0}
        BY <1>0, <1>a DEF InvoicesSound
      <3> QED  BY <1>0, <1>a, <2>1, <2>3, <3>1, RowWritten
    <2>5. Immutable
      BY <2>3, <2>4 DEF Immutable
    <2> QED  BY <2>4, <2>5
  <1>10. ASSUME NEW x \in InvoiceTxns, NEW p \in Payments, PaymentWrite(x, p)
         PROVE  ReceivablesIInv' /\ Immutable
    <2> DEFINE r == request[x]
               unapplied == r.amount - r.allocate
               paid == [amount |-> r.amount, unapplied |-> unapplied, source |-> r.source]
    <2>1. /\ r.op = "pay" /\ payment' = [payment EXCEPT ![p] = paid]
                /\ credit' = [credit EXCEPT ![p] = unapplied]
          /\ idemKeys' = IF r.source = NoKey THEN idemKeys ELSE idemKeys \cup {r.source}
          /\ FinishRequest(x) /\ UNCHANGED <<nextNumber, voided>>
          /\ IF r.allocate > 0 THEN ApplyAllocation(p, r.inv, r.allocate)
             ELSE UNCHANGED <<invoice, allocated, receivable>>
      BY <1>10 DEF PaymentWrite
    <2>2. /\ r.amount \in Nat /\ r.allocate \in Nat /\ r.allocate <= r.amount
          /\ r.allocate > 0 => r.inv \in Invoices
          /\ r.source \in Sources \cup {NoKey}
                /\ (r.source \in StripeSources => r.source \notin idemKeys)
      BY <1>0, <2>1 DEF RequestsSound, HoldsPayment
    <2>3. paid \in PaymentRecord /\ unapplied \in Nat
      BY <2>2 DEF PaymentRecord
    <2>4. r.source \in StripeSources => r.source # NoKey
      BY ReceivablesAssumption DEF StripeSources
    <2>5. InvoicesSound' /\ Immutable
      <3>1. CASE r.allocate > 0
        BY <1>a, <2>1, <2>2, <3>1 DEF ApplyAllocation
      <3>2. CASE ~(r.allocate > 0)
        BY <1>i, <2>1, <3>2
      <3> QED  BY <3>1, <3>2
    <2>6. PaymentsSound'
      <3>1. /\ paid.source = r.source /\ paid.unapplied = unapplied
            /\ r.source \in StripeSources => r.source \in idemKeys'
            /\ idemKeys \subseteq idemKeys'
        BY <2>1, <2>4
      <3> HIDE DEF paid, unapplied
      <3>2. /\ payment' \in [Payments -> PaymentRecord] /\ DOMAIN credit' = Payments
            /\ \A q \in Payments : /\ payment'[q] = IF q = p THEN paid ELSE payment[q]
                                   /\ credit'[q] = IF q = p THEN unapplied ELSE credit[q]
        BY <1>0, <2>1, <2>3 DEF PaymentsSound
      <3>3. \A q \in Payments : /\ credit'[q] = payment'[q].unapplied
                                /\ payment'[q].source \in StripeSources =>
                                      payment'[q].source \in idemKeys'
        BY <1>0, <3>1, <3>2 DEF PaymentsSound
      <3>4. EventRecordsOnePayment'
        <4>1. \A q \in Payments : payment[q].source = r.source => r.source \notin StripeSources
          BY <1>0, <2>2 DEF PaymentsSound
        <4>2. \A q, s \in Payments : payment[q].source = payment[s].source
                 /\ payment[q].source \in StripeSources => q = s
          BY <1>0 DEF PaymentsSound, EventRecordsOnePayment, StripeSources
        <4>3. \A q, s \in Payments : payment'[q].source = payment'[s].source
                 /\ payment'[q].source \in StripeSources => q = s
          BY <3>1, <3>2, <4>1, <4>2
        <4> QED  BY <4>3 DEF EventRecordsOnePayment, StripeSources
      <3> QED  BY <3>2, <3>3, <3>4 DEF PaymentsSound, StripeSources
    <2>7. RequestsSound'
      BY <1>0, <2>1, RequestEnds
    <2> QED  BY <2>5, <2>6, <2>7 DEF ReceivablesIInv
  <1>11. ASSUME NEW p \in Payments, NEW i \in Invoices, NEW a \in Amounts,
                AllocatePayment(p, i, a)
         PROVE  ReceivablesIInv' /\ Immutable
    <2>1. /\ a <= payment[p].unapplied /\ ApplyAllocation(p, i, a)
          /\ payment' = [payment EXCEPT ![p].unapplied = @ - a]
                /\ credit' = [credit EXCEPT ![p] = @ - a]
          /\ UNCHANGED <<nextNumber, idemKeys, request, voided>> /\ LedgerUnlocked
      BY <1>11 DEF AllocatePayment
    <2>2. a \in Nat
      BY ReceivablesAssumption
    <2>3. InvoicesSound' /\ Immutable
      BY <1>a, <2>1, <2>2 DEF ApplyAllocation
    <2>4. RequestsSound'
      BY <1>u, <2>1
    <2>5. PaymentsSound'
      <3>1. payment[p] \in PaymentRecord /\ credit[p] = payment[p].unapplied
        BY <1>0 DEF PaymentsSound
      <3>2. payment[p].unapplied - a \in Nat
        BY <2>1, <2>2, <3>1 DEF PaymentRecord
      <3>3. /\ payment' \in [Payments -> PaymentRecord] /\ DOMAIN credit' = Payments
            /\ \A q \in Payments :
                  /\ payment'[q].source = payment[q].source
                  /\ payment'[q].unapplied = IF q = p THEN payment[q].unapplied - a
                                             ELSE payment[q].unapplied
                  /\ credit'[q] = IF q = p THEN credit[q] - a ELSE credit[q]
        BY <1>0, <2>1, <3>2 DEF PaymentsSound, PaymentRecord
      <3> QED  BY <1>0, <2>1, <3>3 DEF PaymentsSound, EventRecordsOnePayment
    <2> QED  BY <2>3, <2>4, <2>5 DEF ReceivablesIInv
  <1>12. ASSUME NEW i \in Invoices, NEW a \in Amounts, CreateCreditNote(i, a)
         PROVE  ReceivablesIInv' /\ Immutable
    <2>1. /\ CanAllocate(i, a) /\ LedgerUnlocked
          /\ invoice' = [invoice EXCEPT
                ![i] = BalanceAndStatus([invoice[i] EXCEPT !.credited = @ + a])]
          /\ receivable' = [receivable EXCEPT ![i] = @ - a]
          /\ UNCHANGED <<payments, nextNumber, credit, request, voided>>
      BY <1>12 DEF CreateCreditNote
    <2>2. a \in Nat
      BY ReceivablesAssumption
    <2>3. InvoicesSound' /\ Immutable
      BY <1>a, <2>1, <2>2
    <2>4. RequestsSound'
      BY <1>u, <2>1
    <2> QED  BY <1>p, <2>1, <2>3, <2>4 DEF ReceivablesIInv
  <1> QED
    BY <1>1, <1>2, <1>3, <1>4, <1>5, <1>6, <1>7, <1>8, <1>9, <1>10, <1>11, <1>12
    DEF ReceivablesNext

-----------------------------------------------------------------------------
(* General ledger *)

\* The journal has its entries, no two of which are of one payroll run.
LedgerIInv == DOMAIN entry = Entries /\ PayrollPostedOnce

\* Every step of the ledger keeps the invariant: of two postings of a run that
\* have both found no entry, the second is refused by the unique index.
LEMMA LedgerStep ==
    ASSUME LedgerIInv, GeneralLedgerNext
    PROVE  LedgerIInv'
  <1>1. ASSUME UNCHANGED entry
        PROVE  LedgerIInv'
    BY <1>1 DEF LedgerIInv, PayrollPostedOnce
  <1>2. ASSUME NEW x \in LedgerTxns, NEW e \in Entries, PostJournalWrite(x, e)
        PROVE  LedgerIInv'
    <2> DEFINE s == posting[x].source
    <2>1. /\ entry' = [entry EXCEPT
                          ![e] = [period |-> posting[x].period, account |-> posting[x].account,
                                  source |-> s, reverses |-> posting[x].reverses]]
          /\ s \in PayrollSources => \A f \in Entries : entry[f].source # s
      BY <1>2 DEF PostJournalWrite, Posts
    <2> HIDE DEF s
    <2>2. DOMAIN entry' = Entries
             /\ \A f \in Entries : entry'[f].source = IF f = e THEN s ELSE entry[f].source
      BY <2>1 DEF LedgerIInv
    <2> QED  BY <2>1, <2>2 DEF LedgerIInv, PayrollPostedOnce
  <1>3. \/ UNCHANGED entry
        \/ \E x \in LedgerTxns, e \in Entries : PostJournalWrite(x, e)
    BY DEF GeneralLedgerNext, CreatePeriod, ClosePeriod, ReopenPeriod, CreateAccount,
       UpdateAccount, PostJournalRead, PostJournalFails
  <1> QED  BY <1>1, <1>2, <1>3

-----------------------------------------------------------------------------
(* Vendor bills *)

\* A payment under way is the only one, has read what its bill still is, and
\* leaves room for the amount it pays.
PaymentsFit ==
    \A x \in BillTxns : paying[x] # NotPaying =>
        /\ paying[x].bill \in Bills /\ paying[x].amount \in Nat
        /\ bill[paying[x].bill].status # "none" /\ paying[x].seen = bill[paying[x].bill]
        /\ paying[x].seen.paid + paying[x].amount <= BillAmount
        /\ \A y \in BillTxns \ {x} : paying[y] = NotPaying

BillsIInv ==
    /\ DOMAIN bill = Bills /\ \A b \in Bills : bill[b].paid \in Nat
    /\ settled \in [Bills -> Nat] /\ DOMAIN paying = BillTxns
    /\ PaymentsFit
    /\ BillSettledOnce

\* Every step of a bill keeps the invariant: a payment writes from what is still
\* the bill, and adds to the entry what it adds to the bill.
LEMMA BillsStep ==
    ASSUME BillsIInv, VendorBillsNext
    PROVE  BillsIInv'
  <1>1. ASSUME NEW b \in Bills, CreateVendorBill(b)
        PROVE  BillsIInv'
    <2>1. /\ bill[b].status = "none" /\ bill' = [bill EXCEPT ![b].status = "open"]
          /\ UNCHANGED <<settled, paying>>
      BY <1>1 DEF CreateVendorBill
    <2>2. /\ DOMAIN bill' = Bills /\ \A c \in Bills : bill'[c].paid = bill[c].paid
          /\ \A c \in Bills \ {b} : bill'[c] = bill[c]
      BY <2>1 DEF BillsIInv
    <2>3. PaymentsFit'
      BY <2>1, <2>2 DEF BillsIInv, PaymentsFit
    <2> QED  BY <2>1, <2>2, <2>3 DEF BillsIInv, BillSettledOnce
  <1>2. ASSUME NEW x \in BillTxns, NEW b \in Bills, NEW a \in 1..BillAmount,
               PayVendorBillRead(x, b, a)
        PROVE  BillsIInv'
    <2> DEFINE read == [bill |-> b, amount |-> a, seen |-> bill[b]]
    <2>1. /\ \A y \in BillTxns : paying[y] = NotPaying
          /\ bill[b].status # "none" /\ a <= BillAmount - bill[b].paid
          /\ UNCHANGED <<bill, settled>> /\ paying' = [paying EXCEPT ![x] = read]
      BY <1>2 DEF PayVendorBillRead
    <2>2. bill[b].paid \in Nat /\ bill[b].paid + a <= BillAmount
      BY <2>1, VendorBillsAssumption DEF BillsIInv
    <2>3. read.bill = b /\ read.amount = a /\ read.seen = bill[b]
      OBVIOUS
    <2> HIDE DEF read
    <2>4. DOMAIN paying' = BillTxns
             /\ \A y \in BillTxns : paying'[y] = IF y = x THEN read ELSE NotPaying
      BY <2>1 DEF BillsIInv
    <2>5. PaymentsFit'
      BY <2>1, <2>2, <2>3, <2>4 DEF PaymentsFit
    <2> QED  BY <2>1, <2>4, <2>5 DEF BillsIInv, BillSettledOnce
  <1>3. ASSUME NEW x \in BillTxns, PayVendorBillWrite(x)
        PROVE  BillsIInv'
    <2> DEFINE b == paying[x].bill
               a == paying[x].amount
               paid == paying[x].seen.paid + a
               status == IF paid >= BillAmount THEN "paid" ELSE "partially_paid"
    <2>1. paying[x] # NotPaying
      BY <1>3 DEF PayVendorBillWrite
    <2>2. /\ b \in Bills /\ a \in Nat /\ paying[x].seen.paid \in Nat /\ paid \in Nat
          /\ paid <= BillAmount /\ paid = bill[b].paid + a
          /\ \A y \in BillTxns \ {x} : paying[y] = NotPaying
      BY <2>1, VendorBillsAssumption DEF BillsIInv, PaymentsFit
    <2>3. /\ settled' = [settled EXCEPT ![b] = @ + a]
          /\ bill' = [bill EXCEPT ![b] = [status |-> status, paid |-> paid]]
          /\ paying' = [paying EXCEPT ![x] = NotPaying]
      BY <1>3 DEF PayVendorBillWrite
    <2> HIDE DEF b, a, paid, status
    <2>4. /\ settled' \in [Bills -> Nat] /\ DOMAIN bill' = Bills /\ DOMAIN paying' = BillTxns
          /\ \A c \in Bills : /\ settled'[c] = IF c = b THEN settled[c] + a ELSE settled[c]
                              /\ bill'[c].paid = IF c = b THEN paid ELSE bill[c].paid
      BY <2>2, <2>3 DEF BillsIInv
    <2>5. \A y \in BillTxns : paying'[y] = NotPaying
      BY <2>2, <2>3 DEF BillsIInv
    <2>6. PaymentsFit'
      BY <2>5 DEF PaymentsFit
    <2>7. BillSettledOnce'
      BY <2>2, <2>4 DEF BillsIInv, BillSettledOnce
    <2> QED  BY <2>2, <2>4, <2>6, <2>7 DEF BillsIInv
  <1> QED  BY <1>1, <1>2, <1>3 DEF VendorBillsNext

-----------------------------------------------------------------------------
(* Expenses *)

ExpenseRecord == [status : {"none", "pending_approval", "posted", "rejected"},
                  batch : Batches \cup {NoBatch}]

\* A request that decides an expense is the only one, and the expense waits.
ExpensesIInv ==
    /\ expense \in [Expenses -> ExpenseRecord] /\ posted \in [Expenses -> Nat]
          /\ DOMAIN handling = ExpenseTxns
    /\ \A x \in ExpenseTxns : handling[x].op = "decide" =>
          /\ handling[x].row \in Expenses
          /\ expense[handling[x].row].status = "pending_approval"
          /\ \A y \in ExpenseTxns \ {x} : handling[y].op # "decide"
    /\ ExpensePostedOnce

\* Every step of an expense keeps the invariant: a decision on what is still a
\* waiting expense posts it for the first time.
LEMMA ExpensesStep ==
    ASSUME ExpensesIInv, ReimbursementsNext
    PROVE  ExpensesIInv'
  <1>h. ASSUME \E x \in ExpenseTxns : \/ Handled(x)
                                      \/ \E what : Handle(x, what) /\ what.op # "decide",
               expense' \in [Expenses -> ExpenseRecord], posted' = posted,
               \A e \in Expenses : expense'[e].status = expense[e].status
        PROVE  ExpensesIInv'
    <2>1. PICK x \in ExpenseTxns : \/ Handled(x)
                                   \/ \E what : Handle(x, what) /\ what.op # "decide"
      BY <1>h
    <2>2. /\ DOMAIN handling' = ExpenseTxns
          /\ \A y \in ExpenseTxns : handling'[y].op = "decide" => handling'[y] = handling[y]
      BY <2>1 DEF ExpensesIInv, Handled, Handle, NotHandling
    <2> QED  BY <1>h, <2>2 DEF ExpensesIInv, ExpensePostedOnce
  <1>1. ASSUME NEW action \in {"require_approval", "reject"}, UpsertExpensePolicy(action)
        PROVE  ExpensesIInv'
    BY <1>1 DEF UpsertExpensePolicy, expenses, ExpensesIInv, ExpensePostedOnce
  <1>2. ASSUME NEW e \in Expenses, NEW overRole \in BOOLEAN, NEW overCategory \in BOOLEAN,
               SubmitExpense(e, overRole, overCategory)
        PROVE  ExpensesIInv'
    <2> DEFINE waits == overRole \/ (overCategory /\ policy = "require_approval")
               status == IF waits THEN "pending_approval" ELSE "posted"
               n == IF waits THEN 0 ELSE 1
    <2>1. /\ expense' = [expense EXCEPT ![e].status = status]
                /\ posted' = [posted EXCEPT ![e] = n]
          /\ UNCHANGED handling /\ \A y \in ExpenseTxns : handling[y].op # "decide"
      BY <1>2 DEF SubmitExpense, LedgerFree
    <2>2. /\ status \in {"pending_approval", "posted"} /\ n \in Nat
          /\ n = IF status = "posted" THEN 1 ELSE 0
      OBVIOUS
    <2> HIDE DEF waits, status, n
    <2>3. /\ expense' \in [Expenses -> ExpenseRecord] /\ posted' \in [Expenses -> Nat]
          /\ \A f \in Expenses : /\ expense'[f].status = IF f = e THEN status ELSE expense[f].status
                                 /\ posted'[f] = IF f = e THEN n ELSE posted[f]
      BY <2>1, <2>2 DEF ExpensesIInv, ExpenseRecord
    <2> QED  BY <2>1, <2>2, <2>3 DEF ExpensesIInv, ExpensePostedOnce
  <1>3. ASSUME NEW x \in ExpenseTxns, NEW e \in Expenses, DecideExpenseRead(x, e)
        PROVE  ExpensesIInv'
    <2>1. /\ expense[e].status = "pending_approval" /\ UNCHANGED <<expense, posted>>
          /\ handling' = [handling EXCEPT ![x] = [op |-> "decide", row |-> e]]
          /\ \A y \in ExpenseTxns : handling[y].op # "decide"
      BY <1>3 DEF DecideExpenseRead, Handle, expenses, LedgerFree
    <2>2. DOMAIN handling' = ExpenseTxns /\ \A y \in ExpenseTxns :
             handling'[y] = IF y = x THEN [op |-> "decide", row |-> e] ELSE handling[y]
      BY <2>1 DEF ExpensesIInv
    <2> QED  BY <2>1, <2>2 DEF ExpensesIInv, ExpensePostedOnce
  <1>4. ASSUME NEW x \in ExpenseTxns, NEW listed \in Lists, CreateBatchRead(x, listed)
        PROVE  ExpensesIInv'
    <2>1. UNCHANGED <<expense, posted>> /\ \E what : Handle(x, what) /\ what.op # "decide"
      BY <1>4 DEF CreateBatchRead, expenses
    <2> QED  BY <1>h, <2>1 DEF ExpensesIInv
  <1>5. ASSUME NEW x \in ExpenseTxns, NEW r \in Batches, CreateBatchWrite(x, r)
        PROVE  ExpensesIInv'
    <2>1. PICK m \in SUBSET Expenses : 
             expense' = [e \in Expenses |-> IF e \in m THEN [expense[e] EXCEPT !.batch = r]
                                            ELSE expense[e]]
      BY <1>5 DEF CreateBatchWrite
    <2>2. posted' = posted /\ Handled(x)
      BY <1>5 DEF CreateBatchWrite
    <2>3. expense' \in [Expenses -> ExpenseRecord]
             /\ \A e \in Expenses : expense'[e].status = expense[e].status
      BY <2>1 DEF ExpensesIInv, ExpenseRecord
    <2> QED  BY <1>h, <2>2, <2>3
  <1>6. ASSUME NEW x \in ExpenseTxns, NEW r \in Batches, DecideReimbursementRead(x, r)
        PROVE  ExpensesIInv'
    <2>1. UNCHANGED <<expense, posted>> /\ \E what : Handle(x, what) /\ what.op # "decide"
      BY <1>6 DEF DecideReimbursementRead, expenses
    <2> QED  BY <1>h, <2>1 DEF ExpensesIInv
  <1>7. ASSUME NEW x \in ExpenseTxns, NEW approve \in BOOLEAN, DecideExpenseWrite(x, approve)
        PROVE  ExpensesIInv'
    <2> DEFINE e == handling[x].row
               status == IF approve THEN "posted" ELSE "rejected"
    <2>1. /\ e \in Expenses /\ expense[e].status = "pending_approval"
          /\ \A y \in ExpenseTxns \ {x} : handling[y].op # "decide"
      BY <1>7 DEF DecideExpenseWrite, ExpensesIInv
    <2>2. /\ expense' = [expense EXCEPT ![e].status = status]
          /\ posted' = [posted EXCEPT ![e] = IF approve THEN @ + 1 ELSE @]
          /\ handling' = [handling EXCEPT ![x] = NotHandling]
      BY <1>7 DEF DecideExpenseWrite, Handled
    <2>3. status \in {"posted", "rejected"} /\ (approve <=> status = "posted")
      OBVIOUS
    <2> HIDE DEF e, status
    <2>4. /\ expense' \in [Expenses -> ExpenseRecord] /\ posted' \in [Expenses -> Nat]
          /\ \A f \in Expenses : /\ expense'[f].status = IF f = e THEN status ELSE expense[f].status
                                 /\ posted'[f] = IF f = e /\ approve THEN posted[f] + 1
                                                 ELSE posted[f]
      BY <2>1, <2>2, <2>3 DEF ExpensesIInv, ExpenseRecord
    <2>5. DOMAIN handling' = ExpenseTxns /\ \A y \in ExpenseTxns : handling'[y].op # "decide"
      BY <2>1, <2>2 DEF ExpensesIInv, NotHandling
    <2>6. ExpensePostedOnce'
      BY <2>1, <2>3, <2>4 DEF ExpensesIInv, ExpensePostedOnce
    <2> QED  BY <2>4, <2>5, <2>6 DEF ExpensesIInv
  <1>8. ASSUME NEW x \in ExpenseTxns, NEW approve \in BOOLEAN,
               DecideReimbursementWrite(x, approve)
        PROVE  ExpensesIInv'
    <2>1. UNCHANGED <<expense, posted>> /\ Handled(x)
      BY <1>8 DEF DecideReimbursementWrite, expenses
    <2> QED  BY <1>h, <2>1 DEF ExpensesIInv
  <1> QED  BY <1>1, <1>2, <1>3, <1>4, <1>5, <1>6, <1>7, <1>8 DEF ReimbursementsNext

InBatch(r) == {e \in Expenses : expense[e].batch = r}

\* A batch that does not exist has no expenses; a request that makes one has
\* read that its expenses are in none.
BatchesSound ==
    /\ DOMAIN batch = Batches
    /\ \A r \in Batches : /\ DOMAIN batch[r] = {"status", "total"}
                          /\ batch[r].status = "none" => batch[r].total = 0 /\ InBatch(r) = {}
    /\ \A x \in ExpenseTxns :
          /\ handling[x].op = "batch" =>
                handling[x].row \in [Expenses -> Nat] /\ handling[x].seen = {}
          /\ handling[x].op = "decide_batch" =>
                handling[x].row \in Batches /\ batch[handling[x].row].status # "none"
    /\ overlapped \subseteq Expenses

BatchesIInv == BatchesSound /\ BatchTotalsMatchExpenses

\* The total of a list without repetitions is the number of its expenses.
LEMMA ListTotal ==
    ASSUME NEW l \in [Expenses -> Nat], \A e \in Expenses : l[e] <= 1
    PROVE  SumFunction(l) = Cardinality({e \in Expenses : l[e] > 0})
  <1> DEFINE S == {e \in Expenses : l[e] > 0}
  <1>1. /\ (\A e \in Expenses : l[e] \in Int) /\ (\A e \in Expenses \ S : l[e] = 0)
        /\ (\A e \in S : l[e] = 1) /\ S \in SUBSET Expenses
    OBVIOUS
  <1>2. IsFiniteSet(Expenses) /\ IsFiniteSet(S)
    BY ReimbursementsAssumption, FS_Subset
  <1>3. SumFunction(l) = SumFunctionOnSet(l, Expenses)
    BY DEF SumFunction
  <1> HIDE DEF S
  <1>4. SumFunctionOnSet(l, Expenses) = SumFunctionOnSet(l, S)
    BY <1>1, <1>2, SumDrop
  <1>5. SumFunctionOnSet(l, S) = Cardinality(S)
    BY <1>1, <1>2, SumOnes
  <1> QED  BY <1>3, <1>4, <1>5 DEF S

\* A step that leaves the expenses in their batches, and the totals.
LEMMA BatchesStay ==
    ASSUME ExpensesIInv, BatchesIInv, \A e \in Expenses : expense'[e].batch = expense[e].batch,
           DOMAIN batch' = Batches,
           \A r \in Batches : /\ DOMAIN batch'[r] = DOMAIN batch[r]
                                    /\ batch'[r].total = batch[r].total
                              /\ batch'[r].status = "none" <=> batch[r].status = "none",
           overlapped \subseteq overlapped', overlapped' \subseteq Expenses, repeated' = repeated,
           \A x \in ExpenseTxns :
              /\ handling'[x].op = "batch" =>
                    handling'[x].row \in [Expenses -> Nat] /\ handling'[x].seen = {}
              /\ handling'[x].op = "decide_batch" =>
                    handling'[x].row \in Batches /\ batch[handling'[x].row].status # "none"
    PROVE  BatchesIInv'
  <1>1. \A r \in Batches : InBatch(r)' = InBatch(r)
    BY DEF InBatch
  <1>2. BatchesSound'
    BY <1>1 DEF BatchesIInv, BatchesSound
  <1>3. \A e \in overlapped : e \in Expenses
    BY DEF BatchesIInv, BatchesSound
  <1>4. BatchTotalsMatchExpenses'
    BY <1>1, <1>3 DEF BatchesIInv, BatchTotalsMatchExpenses, InBatch
  <1> QED  BY <1>2, <1>4 DEF BatchesIInv

\* Every step of the reimbursements keeps the invariant.
LEMMA BatchesStep ==
    ASSUME ExpensesIInv, BatchesIInv, ReimbursementsNext
    PROVE  BatchesIInv'
  <1>h. ASSUME NEW x \in ExpenseTxns, Handled(x)
        PROVE  \A y \in ExpenseTxns : handling'[y] = handling[y] \/ handling'[y].op = "idle"
    BY <1>h DEF Handled, NotHandling, ExpensesIInv
  <1>r. ASSUME NEW x \in ExpenseTxns, NEW what, Handle(x, what),
               UNCHANGED <<expense, batch, overlapped, repeated>>,
               what.op = "batch" => what.row \in [Expenses -> Nat] /\ what.seen = {},
               what.op = "decide_batch" =>
                  what.row \in Batches /\ batch[what.row].status # "none"
        PROVE  BatchesIInv'
    <2>1. \A y \in ExpenseTxns : handling'[y] = IF y = x THEN what ELSE handling[y]
      BY <1>r DEF Handle, ExpensesIInv
    <2>2. /\ DOMAIN batch' = Batches /\ overlapped \subseteq overlapped'
                /\ overlapped' \subseteq Expenses
          /\ \A y \in ExpenseTxns :
              /\ handling'[y].op = "batch" =>
                    handling'[y].row \in [Expenses -> Nat] /\ handling'[y].seen = {}
              /\ handling'[y].op = "decide_batch" =>
                    handling'[y].row \in Batches /\ batch[handling'[y].row].status # "none"
      BY <1>r, <2>1 DEF BatchesIInv, BatchesSound
    <2> QED  BY <1>r, <2>2, BatchesStay
  <1>1. ASSUME UNCHANGED <<batch, handling, overlapped, repeated>>,
               \A e \in Expenses : expense'[e].batch = expense[e].batch
        PROVE  BatchesIInv'
    BY <1>1, BatchesStay DEF BatchesIInv, BatchesSound
  <1>2. ASSUME NEW action \in {"require_approval", "reject"}, UpsertExpensePolicy(action)
        PROVE  BatchesIInv'
    BY <1>1, <1>2 DEF UpsertExpensePolicy, expenses
  <1>3. ASSUME NEW e \in Expenses, NEW overRole \in BOOLEAN, NEW overCategory \in BOOLEAN,
               SubmitExpense(e, overRole, overCategory)
        PROVE  BatchesIInv'
    <2>1. PICK status : expense' = [expense EXCEPT ![e].status = status]
      BY <1>3 DEF SubmitExpense
    <2>2. \A f \in Expenses : expense'[f].batch = expense[f].batch
      BY <2>1 DEF ExpensesIInv, ExpenseRecord
    <2> QED  BY <1>1, <1>3, <2>2 DEF SubmitExpense
  <1>4. ASSUME NEW x \in ExpenseTxns, NEW e \in Expenses, DecideExpenseRead(x, e)
        PROVE  BatchesIInv'
    <2> DEFINE what == [op |-> "decide", row |-> e]
    <2>1. Handle(x, what) /\ UNCHANGED <<expense, batch, overlapped, repeated>>
             /\ what.op = "decide"
      BY <1>4 DEF DecideExpenseRead, expenses
    <2> HIDE DEF what
    <2> QED  BY <2>1, <1>r
  <1>5. ASSUME NEW x \in ExpenseTxns, NEW approve \in BOOLEAN, DecideExpenseWrite(x, approve)
        PROVE  BatchesIInv'
    <2> DEFINE e == handling[x].row
    <2>1. e \in Expenses
      BY <1>5 DEF DecideExpenseWrite, ExpensesIInv
    <2>2. /\ expense' = [expense EXCEPT ![e].status = IF approve THEN "posted" ELSE "rejected"]
          /\ Handled(x) /\ UNCHANGED <<batch, overlapped, repeated>>
      BY <1>5 DEF DecideExpenseWrite
    <2> HIDE DEF e
    <2>3. \A f \in Expenses : expense'[f].batch = expense[f].batch
      BY <2>2 DEF ExpensesIInv, ExpenseRecord
    <2>4. /\ DOMAIN batch' = Batches /\ overlapped \subseteq overlapped'
                /\ overlapped' \subseteq Expenses
          /\ \A y \in ExpenseTxns :
              /\ handling'[y].op = "batch" =>
                    handling'[y].row \in [Expenses -> Nat] /\ handling'[y].seen = {}
              /\ handling'[y].op = "decide_batch" =>
                    handling'[y].row \in Batches /\ batch[handling'[y].row].status # "none"
      BY <1>h, <2>1, <2>2 DEF BatchesIInv, BatchesSound
    <2> QED  BY <2>2, <2>3, <2>4, BatchesStay
  <1>6. ASSUME NEW x \in ExpenseTxns, NEW listed \in Lists, CreateBatchRead(x, listed)
        PROVE  BatchesIInv'
    <2> DEFINE what == [op |-> "batch", row |-> listed,
                        seen |-> {e \in Expenses : listed[e] > 0 /\ expense[e].batch # NoBatch}]
    <2>1. Handle(x, what) /\ UNCHANGED <<expense, batch, overlapped, repeated>>
      BY <1>6 DEF CreateBatchRead, expenses
    <2>2. what.op = "batch" /\ what.seen = {}
      BY <1>6 DEF CreateBatchRead
    <2>3. what.row \in [Expenses -> Nat]
      BY ReimbursementsAssumption DEF Lists
    <2> HIDE DEF what
    <2> QED  BY <2>1, <2>2, <2>3, <1>r
  <1>7. ASSUME NEW x \in ExpenseTxns, NEW r \in Batches, CreateBatchWrite(x, r)
        PROVE  BatchesIInv'
    <2>1. PICK listed : listed = handling[x].row
      OBVIOUS
    <2> DEFINE members == {e \in Expenses : listed[e] > 0}
               row == [status |-> "pending_approval", total |-> SumFunction(listed)]
    <2>2. /\ handling[x].op = "batch" /\ batch[r].status = "none"
          /\ listed \in [Expenses -> Nat] /\ handling[x].seen = {}
      BY <1>7, <2>1 DEF CreateBatchWrite, BatchesIInv, BatchesSound
    <2>3. /\ batch' = [batch EXCEPT ![r] = row]
          /\ expense' = [e \in Expenses |-> IF e \in members THEN [expense[e] EXCEPT !.batch = r]
                                            ELSE expense[e]]
          /\ overlapped' = overlapped \cup {e \in members : expense[e].batch # NoBatch}
          /\ repeated' = IF \E e \in Expenses : listed[e] > 1 THEN repeated \cup {r} ELSE repeated
          /\ Handled(x)
      BY <1>7, <2>1, <2>2 DEF CreateBatchWrite
    <2>4. row.total = SumFunction(listed) /\ row.status # "none"
             /\ DOMAIN row = {"status", "total"}
      OBVIOUS
    <2> HIDE DEF row
    <2>5. /\ DOMAIN batch' = Batches /\ batch'[r] = row
          /\ \A q \in Batches \ {r} : batch'[q] = batch[q]
      BY <2>3 DEF BatchesIInv, BatchesSound
    <2>6. r \notin repeated' => row.total = Cardinality(members)
      <3>1. r \notin repeated' => \A e \in Expenses : listed[e] <= 1
        BY <2>2, <2>3
      <3> QED  BY <2>2, <2>4, <3>1, ListTotal
    <2>7. members \subseteq Expenses
      OBVIOUS
    <2> HIDE DEF members
    <2>8. \A e \in Expenses : expense'[e].batch = IF e \in members THEN r ELSE expense[e].batch
      BY <2>3 DEF ExpensesIInv, ExpenseRecord
    <2>9. InBatch(r)' = members
      BY <2>2, <2>7, <2>8 DEF InBatch, BatchesIInv, BatchesSound
    <2>10. ASSUME NEW q \in Batches \ {r}
           PROVE  InBatch(q)' = InBatch(q) \ members
      BY <2>8 DEF InBatch
    <2>11. overlapped \subseteq overlapped' /\ overlapped' \subseteq Expenses
      BY <2>3, <2>7 DEF BatchesIInv, BatchesSound
    <2>12. BatchesSound'
      <3>1. \A y \in ExpenseTxns : handling'[y] = handling[y] \/ handling'[y].op = "idle"
        BY <1>h, <2>3
      <3>2. \A q \in Batches : /\ DOMAIN batch'[q] = {"status", "total"}
                               /\ batch'[q].status = "none" =>
                                     batch'[q].total = 0 /\ InBatch(q)' = {}
        BY <2>4, <2>5, <2>10 DEF BatchesIInv, BatchesSound
      <3>3. \A q \in Batches : batch'[q].status = "none" => batch[q].status = "none"
        BY <2>2, <2>4, <2>5
      <3>4. ASSUME NEW y \in ExpenseTxns
            PROVE  /\ handling'[y].op = "batch" =>
                         handling'[y].row \in [Expenses -> Nat] /\ handling'[y].seen = {}
                   /\ handling'[y].op = "decide_batch" =>
                         handling'[y].row \in Batches
                            /\ batch'[handling'[y].row].status # "none"
        BY <3>1, <3>3 DEF BatchesIInv, BatchesSound
      <3> QED  BY <2>5, <2>11, <3>2, <3>4 DEF BatchesSound
    <2>13. ASSUME NEW q \in Batches \ repeated', batch'[q].total # Cardinality(InBatch(q)')
           PROVE  \E e \in overlapped' : expense'[e].batch # q
      <3>1. q # r
        BY <2>5, <2>6, <2>9, <2>13
      <3>2. q \notin repeated /\ batch'[q].total = batch[q].total
        BY <2>3, <2>5, <2>13, <3>1
      <3>3. CASE InBatch(q) \cap members = {}
        <4>1. batch[q].total # Cardinality(InBatch(q))
          BY <2>10, <2>13, <3>1, <3>2, <3>3
        <4>2. PICK e \in overlapped : expense[e].batch # q
          BY <3>2, <4>1 DEF BatchesIInv, BatchTotalsMatchExpenses, InBatch
        <4> QED  BY <2>8, <2>11, <3>1, <4>2
      <3>4. CASE InBatch(q) \cap members # {}
        <4>1. PICK e \in members : expense[e].batch = q
          BY <3>4 DEF InBatch
        <4>2. e \in overlapped' /\ e \in Expenses
          BY <2>3, <2>7, <4>1, ReimbursementsAssumption
        <4> QED  BY <2>8, <3>1, <4>1, <4>2
      <3> QED  BY <3>3, <3>4
    <2>14. BatchTotalsMatchExpenses'
      BY <2>13 DEF BatchTotalsMatchExpenses, InBatch
    <2> QED  BY <2>12, <2>14 DEF BatchesIInv
  <1>8. ASSUME NEW x \in ExpenseTxns, NEW r \in Batches, DecideReimbursementRead(x, r)
        PROVE  BatchesIInv'
    <2> DEFINE what == [op |-> "decide_batch", row |-> r]
    <2>1. Handle(x, what) /\ UNCHANGED <<expense, batch, overlapped, repeated>>
          /\ what.op = "decide_batch" /\ what.row = r /\ batch[r].status # "none"
      BY <1>8 DEF DecideReimbursementRead, expenses
    <2> HIDE DEF what
    <2> QED  BY <2>1, <1>r
  <1>9. ASSUME NEW x \in ExpenseTxns, NEW approve \in BOOLEAN,
               DecideReimbursementWrite(x, approve)
        PROVE  BatchesIInv'
    <2> DEFINE r == handling[x].row
               status == IF approve THEN "approved" ELSE "rejected"
    <2>1. /\ r \in Batches /\ batch[r].status # "none" /\ status # "none"
      BY <1>9 DEF DecideReimbursementWrite, BatchesIInv, BatchesSound
    <2>2. /\ batch' = [batch EXCEPT ![r].status = status] /\ Handled(x)
          /\ UNCHANGED <<expense, overlapped, repeated>>
      BY <1>9 DEF DecideReimbursementWrite, expenses
    <2> HIDE DEF r, status
    <2>3. /\ DOMAIN batch' = Batches
          /\ \A q \in Batches : /\ DOMAIN batch'[q] = DOMAIN batch[q]
                                      /\ batch'[q].total = batch[q].total
                                /\ batch'[q].status = "none" <=> batch[q].status = "none"
      BY <2>1, <2>2 DEF BatchesIInv, BatchesSound
    <2>4. /\ overlapped \subseteq overlapped' /\ overlapped' \subseteq Expenses
          /\ \A y \in ExpenseTxns :
              /\ handling'[y].op = "batch" =>
                    handling'[y].row \in [Expenses -> Nat] /\ handling'[y].seen = {}
              /\ handling'[y].op = "decide_batch" =>
                    handling'[y].row \in Batches /\ batch[handling'[y].row].status # "none"
      BY <1>h, <2>2 DEF BatchesIInv, BatchesSound
    <2> QED  BY <2>2, <2>3, <2>4, BatchesStay
  <1> QED  BY <1>2, <1>3, <1>4, <1>5, <1>6, <1>7, <1>8, <1>9 DEF ReimbursementsNext

\* The initial states satisfy it.
LEMMA BatchesStarts == ReimbursementsInit => BatchesIInv
  <1> SUFFICES ASSUME ReimbursementsInit
               PROVE  BatchesIInv
    OBVIOUS
  <1>1. \A r \in Batches : InBatch(r) = {}
    BY ReimbursementsAssumption DEF ReimbursementsInit, InBatch
  <1>2. BatchesSound
    BY <1>1 DEF ReimbursementsInit, BatchesSound, NotHandling
  <1>3. BatchTotalsMatchExpenses
    BY <1>1, FS_EmptySet DEF ReimbursementsInit, BatchTotalsMatchExpenses, InBatch
  <1> QED  BY <1>2, <1>3 DEF BatchesIInv

\* A step elsewhere leaves it.
LEMMA BatchesIdle == BatchesIInv /\ UNCHANGED reimbursementsVars => BatchesIInv'
  BY DEF reimbursementsVars, BatchesIInv, BatchesSound, BatchTotalsMatchExpenses, InBatch

-----------------------------------------------------------------------------
(* Entities *)

EntitiesIInv == DOMAIN entity = Entities /\ undefaulted \in BOOLEAN /\ DefaultEntityResolves

\* Every step of the entities keeps the invariant: a default is replaced, or
\* update_entity takes it away.
LEMMA EntitiesStep ==
    ASSUME EntitiesIInv, EntitiesNext
    PROVE  EntitiesIInv'
  <1>m. ASSUME NEW n \in Entities, entity' = MakeDefault(n), undefaulted' \in BOOLEAN
        PROVE  EntitiesIInv'
    BY <1>m DEF EntitiesIInv, DefaultEntityResolves, MakeDefault
  <1>1. CASE EnsureDefaultEntity
    BY <1>1, EntitiesAssumption DEF EnsureDefaultEntity, EntitiesIInv, DefaultEntityResolves
  <1>2. ASSUME NEW n \in Entities, NEW isDefault \in BOOLEAN, CreateEntity(n, isDefault)
        PROVE  EntitiesIInv'
    <2>1. CASE isDefault
      BY <1>2, <2>1, <1>m DEF CreateEntity
    <2>2. CASE ~isDefault
      BY <1>2, <2>2 DEF CreateEntity, EntitiesIInv, DefaultEntityResolves
    <2> QED  BY <2>1, <2>2
  <1>3. ASSUME NEW n \in Entities, NEW isDefault \in BOOLEAN, UpdateEntity(n, isDefault)
        PROVE  EntitiesIInv'
    <2>1. CASE isDefault
      BY <1>3, <2>1, <1>m DEF UpdateEntity
    <2>2. CASE ~isDefault
      <3>1. /\ entity' = [entity EXCEPT ![n] = "plain"] /\ entity[n] # "none"
            /\ undefaulted' \in BOOLEAN
            /\ undefaulted \/ entity[n] = "default" => undefaulted'
        BY <1>3, <2>2 DEF UpdateEntity
      <3> QED  BY <3>1 DEF EntitiesIInv, DefaultEntityResolves
    <2> QED  BY <2>1, <2>2
  <1>4. ASSUME UNCHANGED <<entity, undefaulted>>
        PROVE  EntitiesIInv'
    BY <1>4 DEF EntitiesIInv, DefaultEntityResolves
  <1> QED
    BY <1>1, <1>2, <1>3, <1>4 DEF EntitiesNext, CreateIntercompany, GrantEntityAccess

\* The initial states satisfy it.
LEMMA EntitiesStarts == EntitiesInit => EntitiesIInv
  BY EntitiesAssumption DEF EntitiesInit, EntitiesIInv, DefaultEntityResolves

\* A step elsewhere leaves it.
LEMMA EntitiesIdle == EntitiesIInv /\ UNCHANGED entitiesVars => EntitiesIInv'
  BY DEF entitiesVars, EntitiesIInv, DefaultEntityResolves

IntercompanyIInv == intercompany \in [Entities \X Entities -> Nat]

\* Only create_intercompany changes what one entity owes another, and adds to it.
LEMMA IntercompanyStep ==
    ASSUME IntercompanyIInv, EntitiesNext
    PROVE  IntercompanyIInv'
  <1>1. ASSUME NEW m \in Entities, NEW n \in Entities, NEW a \in 1..MaxIntercompany,
               CreateIntercompany(m, n, a)
        PROVE  IntercompanyIInv'
    <2> DEFINE p == <<m, n>>
    <2>1. p \in Entities \X Entities /\ intercompany' = [intercompany EXCEPT ![p] = @ + a]
      BY <1>1 DEF CreateIntercompany
    <2>2. a \in Nat
      BY EntitiesAssumption
    <2> HIDE DEF p
    <2> QED  BY <2>1, <2>2 DEF IntercompanyIInv
  <1>2. ASSUME UNCHANGED intercompany
        PROVE  IntercompanyIInv'
    BY <1>2 DEF IntercompanyIInv
  <1> QED
    BY <1>1, <1>2
    DEF EntitiesNext, EnsureDefaultEntity, CreateEntity, UpdateEntity, GrantEntityAccess

\* The initial states satisfy it.
LEMMA IntercompanyStarts == EntitiesInit => IntercompanyIInv
  BY DEF EntitiesInit, IntercompanyIInv

\* A step elsewhere leaves it.
LEMMA IntercompanyIdle == IntercompanyIInv /\ UNCHANGED entitiesVars => IntercompanyIInv'
  BY DEF entitiesVars, IntercompanyIInv

\* Where nobody outside trades with the entities of S, what they are owed and
\* what they owe are both what they owe each other.
LEMMA EliminationsBalance == IntercompanyIInv => EliminationsNet
  <1> SUFFICES ASSUME IntercompanyIInv, NEW S \in SUBSET Entities,
                      \A p \in Entities \X Entities : intercompany[p] > 0 =>
                         (p[1] \in S) = (p[2] \in S)
               PROVE  Consolidates(S)
    BY DEF EliminationsNet
  <1> DEFINE A == {p \in Entities \X Entities : p[2] \in S}
             B == {p \in Entities \X Entities : p[1] \in S}
  <1>1. IsFiniteSet(A) /\ IsFiniteSet(B)
    BY EntitiesAssumption, FS_Product, FS_Subset
  <1>2. \A p \in Entities \X Entities : intercompany[p] \in Int /\ intercompany[p] >= 0
    BY DEF IntercompanyIInv
  <1>3. \A p \in (A \ B) \cup (B \ A) : intercompany[p] = 0
    BY <1>2
  <1>4. /\ \A p \in A : intercompany[p] \in Int
        /\ \A p \in B : intercompany[p] \in Int
        /\ A \cap B \in SUBSET A /\ A \cap B \in SUBSET B
    BY <1>2
  <1>5. Receivable(S) = SumFunctionOnSet(intercompany, A)
           /\ Payable(S) = SumFunctionOnSet(intercompany, B)
    BY DEF Receivable, Payable
  <1> HIDE DEF A, B
  <1>6. SumFunctionOnSet(intercompany, A) = SumFunctionOnSet(intercompany, A \cap B)
    BY <1>1, <1>3, <1>4, SumDrop
  <1>7. SumFunctionOnSet(intercompany, B) = SumFunctionOnSet(intercompany, A \cap B)
    BY <1>1, <1>3, <1>4, SumDrop
  <1>8. SumFunctionOnSet(intercompany, A) \in Int
    BY <1>1, <1>4, SumType
  <1>9. Receivable(S) = Payable(S) /\ Payable(S) \in Int
    BY <1>5, <1>6, <1>7, <1>8
  <1>10. Eliminated(S) = Payable(S)
    BY <1>9 DEF Eliminated
  <1> QED  BY <1>9, <1>10 DEF Consolidates

-----------------------------------------------------------------------------
(* Tax rates *)

\* A superseded rate ends before the version that supersedes it begins, unless
\* it had a bound of its own.
RatesRetired ==
    \A r \in DOMAIN rate :
        LET prev == rate[r].supersedes
        IN  prev # NoRate /\ <<r, prev>> \notin keptBounded =>
                prev \in DOMAIN rate /\ rate[prev].to < rate[r].from

TaxRatesIInv ==
    /\ \A r \in DOMAIN rate : rate[r].from \in Int /\ rate[r].to \in Int
          /\ rate[r].to <= OpenEnded
    /\ \A r \in DOMAIN rate : DOMAIN rate[r] = {"group", "from", "to", "component", "supersedes"}
    /\ RatesRetired

\* Every step of the rates keeps the invariant: a bound is set once and then
\* stays.
LEMMA TaxRatesStep ==
    ASSUME TaxRatesIInv, TaxRatesNext
    PROVE  TaxRatesIInv'
  <1>1. ASSUME NEW g \in TaxGroups, CreateTaxGroup(g)
        PROVE  TaxRatesIInv'
    BY <1>1 DEF CreateTaxGroup, TaxRatesIInv, RatesRetired
  <1>2. ASSUME NEW r \in Rates, NEW group \in TaxGroups \cup {NoGroup}, NEW from \in Days,
               NEW to \in 1..OpenEnded, NEW component \in BOOLEAN,
               NEW prev \in DOMAIN rate \cup {NoRate},
               CreateTaxRate(r, group, from, to, component, prev)
        PROVE  TaxRatesIInv'
    <2> DEFINE inherited == IF group = NoGroup /\ prev # NoRate THEN rate[prev].group ELSE group
               row == [group |-> inherited, from |-> from, to |-> to,
                       component |-> component, supersedes |-> prev]
               kept == prev # NoRate /\ rate[prev].to \in from..LastDay
    <2>t. LastDay \in Nat /\ from \in Nat /\ from <= LastDay /\ to \in Nat /\ to <= OpenEnded
          /\ OpenEnded = LastDay + 1
      BY TaxRatesAssumption DEF Days, OpenEnded
    <2>1. /\ r \notin DOMAIN rate /\ (prev # NoRate => prev \in DOMAIN rate)
          /\ DOMAIN rate' = DOMAIN rate \cup {r} /\ rate'[r] = row
          /\ \A q \in DOMAIN rate : rate'[q] = IF q = prev THEN Close(rate[q], from) ELSE rate[q]
          /\ keptBounded' = IF kept THEN keptBounded \cup {<<r, prev>>} ELSE keptBounded
      <3> DEFINE Versions(q) == CASE q = r -> row [] q = prev -> Close(rate[q], from) [] OTHER -> rate[q]
      <3>1. /\ r \notin DOMAIN rate /\ (prev # NoRate => prev \in DOMAIN rate)
            /\ keptBounded' = IF kept THEN keptBounded \cup {<<r, prev>>} ELSE keptBounded
            /\ rate' = [q \in DOMAIN rate \cup {r} |-> Versions(q)]
        BY <1>2 DEF CreateTaxRate
      <3>2. Versions(r) = row
        <4>1. r # prev
          BY <3>1, TaxRatesAssumption
        <4> QED  BY <4>1
      <3>3. ASSUME NEW q, q # r
            PROVE  Versions(q) = IF q = prev THEN Close(rate[q], from) ELSE rate[q]
        BY <3>3
      <3> HIDE DEF row, kept, Versions
      <3> QED  BY <3>1, <3>2, <3>3
    <2>2. /\ row.from = from /\ row.to = to /\ row.supersedes = prev
          /\ DOMAIN row = {"group", "from", "to", "component", "supersedes"}
      OBVIOUS
    <2>3. ASSUME NEW q \in DOMAIN rate
          PROVE  /\ DOMAIN rate'[q] = DOMAIN rate[q]
                 /\ rate'[q].from = rate[q].from /\ rate'[q].supersedes = rate[q].supersedes
                 /\ rate'[q].to \in Int /\ rate'[q].to <= rate[q].to
                 /\ q = prev /\ rate[q].to = OpenEnded => rate'[q].to < from
                 /\ rate[q].to # OpenEnded => rate'[q].to = rate[q].to
      BY <2>t, <2>1 DEF TaxRatesIInv, Close
    <2> HIDE DEF row
    <2>4. ASSUME NEW q \in DOMAIN rate
          PROVE  LET p == rate'[q].supersedes
                 IN  p # NoRate /\ <<q, p>> \notin keptBounded' =>
                         p \in DOMAIN rate' /\ rate'[p].to < rate'[q].from
      <3> DEFINE p == rate[q].supersedes
      <3>1. SUFFICES ASSUME p # NoRate, <<q, p>> \notin keptBounded
                     PROVE  p \in DOMAIN rate' /\ rate'[p].to < rate'[q].from
        BY <2>1, <2>3
      <3>2. p \in DOMAIN rate /\ rate[p].to < rate[q].from
        BY <3>1 DEF TaxRatesIInv, RatesRetired
      <3>3. rate[p].to \in Int /\ rate[q].from \in Int
        BY <3>2 DEF TaxRatesIInv
      <3> QED  BY <2>1, <2>3, <3>2, <3>3
    <2>5. prev # NoRate /\ <<r, prev>> \notin keptBounded' =>
              prev \in DOMAIN rate' /\ rate'[prev].to < rate'[r].from
      <3>1. SUFFICES ASSUME prev # NoRate, ~kept
                     PROVE  prev \in DOMAIN rate' /\ rate'[prev].to < from
        BY <2>1, <2>2
      <3>2. prev \in DOMAIN rate /\ rate[prev].to \in Int /\ rate[prev].to <= OpenEnded
        BY <2>1, <3>1 DEF TaxRatesIInv
      <3>3. rate[prev].to = OpenEnded \/ rate[prev].to < from
        BY <2>t, <3>1, <3>2
      <3> QED  BY <2>t, <2>1, <2>3, <3>2, <3>3
    <2>6. RatesRetired'
      BY <2>1, <2>2, <2>4, <2>5 DEF RatesRetired
    <2>7. \A q \in DOMAIN rate' :
              /\ rate'[q].from \in Int /\ rate'[q].to \in Int /\ rate'[q].to <= OpenEnded
              /\ DOMAIN rate'[q] = {"group", "from", "to", "component", "supersedes"}
      <3>1. ASSUME NEW q \in DOMAIN rate
            PROVE  /\ rate'[q].from \in Int /\ rate'[q].to \in Int /\ rate'[q].to <= OpenEnded
                   /\ DOMAIN rate'[q] = {"group", "from", "to", "component", "supersedes"}
        <4>1. /\ rate[q].from \in Int /\ rate[q].to \in Int /\ rate[q].to <= OpenEnded
              /\ DOMAIN rate[q] = {"group", "from", "to", "component", "supersedes"}
          BY DEF TaxRatesIInv
        <4> QED  BY <2>t, <2>3, <4>1
      <3> QED  BY <2>t, <2>1, <2>2, <3>1
    <2> QED  BY <2>6, <2>7 DEF TaxRatesIInv, OpenEnded
  <1> QED  BY <1>1, <1>2 DEF TaxRatesNext

\* A rate that has ended is not valid, and so does not resolve.
LEMMA Retires == TaxRatesIInv => SupersededRateRetires
  <1> SUFFICES ASSUME TaxRatesIInv, NEW r \in DOMAIN rate, rate[r].supersedes # NoRate,
                      <<r, rate[r].supersedes>> \notin keptBounded,
                      NEW d \in rate[r].from..LastDay
               PROVE  rate[r].supersedes \notin Resolved(rate[rate[r].supersedes].group, d)
    BY DEF SupersededRateRetires
  <1> DEFINE prev == rate[r].supersedes
  <1>1. prev \in DOMAIN rate /\ rate[prev].to < rate[r].from
    BY DEF TaxRatesIInv, RatesRetired
  <1>2. rate[prev].to \in Int /\ rate[r].from \in Int /\ d \in Int /\ rate[r].from <= d
    BY <1>1, TaxRatesAssumption DEF TaxRatesIInv
  <1>3. ~(d <= rate[prev].to)
    BY <1>1, <1>2
  <1> QED  BY <1>3 DEF Resolved, ValidOn

\* The initial states satisfy it.
LEMMA TaxRatesStarts == TaxRatesInit => TaxRatesIInv
  BY DEF TaxRatesInit, TaxRatesIInv, RatesRetired

\* A step elsewhere leaves it.
LEMMA TaxRatesIdle == TaxRatesIInv /\ UNCHANGED taxRatesVars => TaxRatesIInv'
  BY DEF taxRatesVars, TaxRatesIInv, RatesRetired

-----------------------------------------------------------------------------
(* Recurring invoices *)

\* Templates, what they made, and that a month which made an invoice has come.
TemplatesSound ==
    /\ month \in Nat
    /\ DOMAIN template \subseteq Templates
    /\ \A t \in DOMAIN template : template[t] \in TemplateRow
    /\ \A i \in invoiced : /\ i[1] \in DOMAIN template /\ i[2] \in Nat
                           /\ i[3] \in Nat /\ i[3] <= month

RecurringIInv == TemplatesSound /\ OneInvoicePerPeriod

\* advance_next_run finds the first date of the cadence after this month.
LEMMA NextRun ==
    ASSUME NEW row \in TemplateRow, month \in Nat
    PROVE  AdvanceNextRun(row) \in (month + 1)..(month + row.cadence)
  <1>1. ASSUME NEW m \in Nat, NEW from \in Nat
        PROVE  /\ \E n \in (m + 1)..(m + 1) : (n - from) % 1 = 0
               /\ \E n \in (m + 1)..(m + 3) : (n - from) % 3 = 0
    <2> DEFINE d(k) == m + k - from
    <2>1. d(1) \in Int /\ d(2) = d(1) + 1 /\ d(3) = d(1) + 2
      OBVIOUS
    <2>2. \A i \in Int : i % 1 = 0 /\ (i % 3 = 0 \/ (i + 1) % 3 = 0 \/ (i + 2) % 3 = 0)
      OBVIOUS
    <2>3. d(1) % 1 = 0 /\ (d(1) % 3 = 0 \/ d(2) % 3 = 0 \/ d(3) % 3 = 0)
      BY <2>1, <2>2
    <2>4. ASSUME NEW c \in {1, 3}, NEW k \in 1..c, d(k) % c = 0
          PROVE  \E n \in (m + 1)..(m + c) : (n - from) % c = 0
      <3> DEFINE n == m + k
      <3>1. n \in (m + 1)..(m + c) /\ n - from = d(k)
        OBVIOUS
      <3>2. (n - from) % c = 0
        BY <2>4, <3>1
      <3> HIDE DEF n, d
      <3> QED  BY <3>1, <3>2
    <2> HIDE DEF d
    <2> QED  BY <2>3, <2>4
  <1>2. \E n \in (month + 1)..(month + row.cadence) : (n - row.next) % row.cadence = 0
    <2>1. row.next \in Nat /\ (row.cadence = 1 \/ row.cadence = 3)
      BY DEF TemplateRow, Cadence
    <2> QED  BY <1>1, <2>1
  <1> QED  BY <1>2 DEF AdvanceNextRun

\* Every step of the templates keeps the invariant.
LEMMA RecurringStep ==
    ASSUME RecurringIInv, RecurringInvoicesNext
    PROVE  RecurringIInv'
  <1>1. CASE MonthPasses
    BY <1>1 DEF MonthPasses, RecurringIInv, TemplatesSound, OneInvoicePerPeriod
  <1>2. ASSUME NEW t \in Templates, NEW content \in Contents, NEW cadence \in Cadence,
               NEW next \in 0..LastMonth, CreateRecurring(t, content, cadence, next)
        PROVE  RecurringIInv'
    <2> DEFINE row == [content |-> content, cadence |-> cadence, next |-> next]
    <2>1. row \in TemplateRow
      BY DEF TemplateRow
    <2>2. /\ DOMAIN template' = DOMAIN template \cup {t} /\ t \notin DOMAIN template
          /\ template'[t] = row /\ \A u \in DOMAIN template : template'[u] = template[u]
          /\ UNCHANGED <<month, invoiced>>
      BY <1>2 DEF CreateRecurring
    <2> HIDE DEF row
    <2> QED  BY <2>1, <2>2 DEF RecurringIInv, TemplatesSound, OneInvoicePerPeriod
  <1>3. CASE RunDue
    <2> DEFINE done == {t \in Due : template[t].content = "valid"}
               made == {<<t, template[t].next, month>> : t \in done}
               row(t) == [template[t] EXCEPT !.next = AdvanceNextRun(template[t])]
    <2>1. /\ DOMAIN template' = DOMAIN template /\ UNCHANGED month /\ month \in Nat
          /\ invoiced' = invoiced \cup made
          /\ \A t \in done : t \in DOMAIN template /\ template[t].next <= month
                /\ template'[t] = row(t)
          /\ \A t \in DOMAIN template \ done : template'[t] = template[t]
      BY <1>3 DEF RunDue, Due, RecurringIInv, TemplatesSound
    <2>2. ASSUME NEW t \in done
          PROVE  row(t) \in TemplateRow /\ row(t).next > month
      <3>1. template[t] \in TemplateRow
        BY <2>1 DEF RecurringIInv, TemplatesSound
      <3>2. AdvanceNextRun(template[t]) \in Nat /\ AdvanceNextRun(template[t]) > month
        BY <2>1, <3>1, NextRun DEF TemplateRow, Cadence
      <3> QED  BY <3>1, <3>2 DEF TemplateRow
    <2>3. ASSUME NEW i \in made
          PROVE  /\ i[1] \in done /\ i[2] = template[i[1]].next /\ i[3] = month
                 /\ i[1] \in DOMAIN template /\ i[2] \in Nat
      <3>1. PICK t \in done : i = <<t, template[t].next, month>>
        OBVIOUS
      <3>2. t \in DOMAIN template /\ template[t].next \in Nat
        BY <2>1 DEF RecurringIInv, TemplatesSound, TemplateRow
      <3>3. month \in Nat
        BY <2>1
      <3>4. i[1] = t /\ i[2] = template[t].next /\ i[3] = month
        BY <3>1
      <3> HIDE DEF done
      <3> QED  BY <3>2, <3>4
    <2> HIDE DEF made, row, done
    <2>4. TemplatesSound'
      <3>1. DOMAIN template' \subseteq Templates /\ month' \in Nat
        BY <2>1 DEF RecurringIInv, TemplatesSound
      <3>2. \A t \in DOMAIN template' : template'[t] \in TemplateRow
        BY <2>1, <2>2 DEF RecurringIInv, TemplatesSound
      <3>4. ASSUME NEW i \in invoiced'
            PROVE  i[1] \in DOMAIN template /\ i[2] \in Nat /\ i[3] \in Nat /\ i[3] <= month
        BY <2>1, <2>3 DEF RecurringIInv, TemplatesSound
      <3> QED  BY <2>1, <3>1, <3>2, <3>4 DEF TemplatesSound
    <2>5. ASSUME NEW i \in invoiced'
          PROVE  i[2] <= i[3] /\ template'[i[1]].next > i[3]
      <3>1. CASE i \in made
        BY <2>1, <2>2, <2>3, <3>1
      <3>2. CASE i \in invoiced
        <4>1. i[3] <= month /\ i[1] \in DOMAIN template /\ i[2] <= i[3]
              /\ template[i[1]].next > i[3] /\ i[3] \in Nat
          BY <3>2 DEF RecurringIInv, TemplatesSound, OneInvoicePerPeriod
        <4>2. template'[i[1]] = template[i[1]] \/ template'[i[1]].next > month
          BY <2>1, <2>2, <4>1
        <4>3. template'[i[1]].next \in Nat
          BY <2>1, <2>4, <4>1 DEF TemplatesSound, TemplateRow
        <4> QED  BY <2>1, <4>1, <4>2, <4>3
      <3> QED  BY <2>1, <3>1, <3>2
    <2>6. ASSUME NEW i \in invoiced', NEW j \in invoiced', i[1] = j[1], i[2] < j[2]
          PROVE  i[3] < j[2]
      <3>t. i[2] \in Nat /\ i[3] \in Nat /\ j[2] \in Nat
        BY <2>4, <2>6 DEF TemplatesSound
      <3>1. CASE i \in invoiced /\ j \in invoiced
        BY <2>6, <3>1 DEF RecurringIInv, OneInvoicePerPeriod
      <3>2. CASE i \in invoiced /\ j \in made
        BY <2>3, <2>6, <3>2 DEF RecurringIInv, OneInvoicePerPeriod
      <3>3. CASE i \in made /\ j \in invoiced
        <4>1. i[2] > j[3] /\ j[2] <= j[3] /\ j[3] \in Nat
          BY <2>3, <2>6, <3>3 DEF RecurringIInv, TemplatesSound, OneInvoicePerPeriod
        <4> QED  BY <2>6, <3>t, <4>1
      <3>4. CASE i \in made /\ j \in made
        BY <2>3, <2>6, <3>t, <3>4
      <3> QED  BY <2>1, <3>1, <3>2, <3>3, <3>4
    <2> QED  BY <2>4, <2>5, <2>6 DEF RecurringIInv, OneInvoicePerPeriod
  <1> QED  BY <1>1, <1>2, <1>3 DEF RecurringInvoicesNext

\* The initial states satisfy it.
LEMMA RecurringStarts == RecurringInvoicesInit => RecurringIInv
  BY DEF RecurringInvoicesInit, RecurringIInv, TemplatesSound, OneInvoicePerPeriod

\* A step elsewhere leaves it.
LEMMA RecurringIdle == RecurringIInv /\ UNCHANGED recurringInvoicesVars => RecurringIInv'
  BY DEF recurringInvoicesVars, RecurringIInv, TemplatesSound, OneInvoicePerPeriod

-----------------------------------------------------------------------------
(* What the greedy loop returns *)

\* Items of the list get candidates that fit them, each candidate goes to one
\* item, and an item without one found its candidates taken by earlier items.
ServesEachOnce(m, items, pool, fit) ==
    /\ DOMAIN m \subseteq items /\ m \in [DOMAIN m -> pool]
    /\ \A i \in DOMAIN m : m[i] \in fit[i]
    /\ \A i, j \in DOMAIN m : m[i] = m[j] => i = j
    /\ \A i \in items \ DOMAIN m : \A p \in fit[i] \cap pool :
           \E k \in DOMAIN m : k < i /\ m[k] = p

\* That is what the loop of auto_match_statement and auto_match_cards returns.
LEMMA GreedyMatch ==
    ASSUME NEW items \in SUBSET Nat, NEW pool, NEW fit, NEW prefers,
           NEW m \in GreedyMatches(items, pool, fit, prefers)
    PROVE  ServesEachOnce(m, items, pool, fit)
  <1>1. DOMAIN m \subseteq items /\ m \in [DOMAIN m -> pool]
           /\ IsGreedyMatch(m, items, pool, fit, prefers)
    BY DEF GreedyMatches
  <1>2. ASSUME NEW i \in items
        PROVE  /\ Takes(i, pool, fit, prefers, Earlier(m, i)) = {} => i \notin DOMAIN m
               /\ i \in DOMAIN m => m[i] \in Takes(i, pool, fit, prefers, Earlier(m, i))
    BY <1>1 DEF IsGreedyMatch
  <1>3. ASSUME NEW i \in items
        PROVE  /\ Takes(i, pool, fit, prefers, Earlier(m, i)) \subseteq (fit[i] \cap pool) \ Earlier(m, i)
               /\ Takes(i, pool, fit, prefers, Earlier(m, i)) = {} =>
                     fit[i] \cap pool \subseteq Earlier(m, i)
    BY DEF Takes
  <1>4. \A i \in DOMAIN m : m[i] \in fit[i] /\ m[i] \notin Earlier(m, i)
    BY <1>1, <1>2, <1>3
  <1>5. \A i, j \in DOMAIN m : i < j => m[i] # m[j]
    BY <1>4 DEF Earlier
  <1>6. \A i, j \in DOMAIN m : m[i] = m[j] => i = j
    BY <1>1, <1>5
  <1>7. ASSUME NEW i \in items \ DOMAIN m, NEW p \in fit[i] \cap pool
        PROVE  \E k \in DOMAIN m : k < i /\ m[k] = p
    <2>1. Takes(i, pool, fit, prefers, Earlier(m, i)) = {}
      BY <1>1 DEF IsGreedyMatch
    <2>2. p \in Earlier(m, i)
      BY <1>3, <2>1
    <2> QED  BY <2>2 DEF Earlier
  <1> QED  BY <1>1, <1>4, <1>6, <1>7 DEF ServesEachOnce

-----------------------------------------------------------------------------
(* Bank reconciliation *)

LinesOf(s) == {l \in StatementLines : statementOf[l] = s}

\* A run has read lines of one imported statement: those it has not read are
\* reconciled, and no payment of its pool is reconciled with one of them.
RunOf(w, s) ==
    /\ LinesOf(s) # {} /\ w.lines \subseteq LinesOf(s)
    /\ LinesOf(s) \ w.lines \subseteq ReconciledLines
    /\ w.step = "payments" =>
           \A r \in reconciled : r[2] \in w.pool /\ r[1] \in LinesOf(s) => r[1] \in w.lines

BankSound ==
    /\ DOMAIN statementOf = StatementLines /\ DOMAIN matching = MatchRuns
    /\ \A r \in reconciled : /\ r[1] \in StatementLines /\ statementOf[r[1]] \in Statements
                             /\ r[2] \in fits[r[1]]
    /\ \A x \in MatchRuns : matching[x].step \in {"lines", "payments"} =>
           \E s \in Statements : RunOf(matching[x], s)

\* The greedy order: an earlier line of the statement that the payment fits
\* has a payment of its own.
EarlierLineServed ==
    \A r \in reconciled, l \in StatementLines :
        l < r[1] /\ statementOf[l] = statementOf[r[1]] /\ r[2] \in fits[l] =>
           l \in ReconciledLines

BankIInv == BankSound /\ EarlierLineServed /\ PaymentReconciledOncePerStatement

\* A run that reads leaves the reconciliations, and what the others have read.
LEMMA MatchReads ==
    ASSUME BankIInv, NEW x \in MatchRuns, UNCHANGED <<statementOf, fits, reconciled>>,
           NEW w, matching' = [matching EXCEPT ![x] = w],
           w.step \in {"lines", "payments"} => \E s \in Statements : RunOf(w, s)
    PROVE  BankIInv'
  <1>1. /\ DOMAIN matching' = MatchRuns /\ matching'[x] = w
        /\ \A y \in MatchRuns \ {x} : matching'[y] = matching[y]
    BY DEF BankIInv, BankSound
  <1>2. ASSUME NEW y \in MatchRuns, matching'[y].step \in {"lines", "payments"}
        PROVE  \E s \in Statements : RunOf(matching[y], s)'
    <2>1. PICK s \in Statements : RunOf(matching'[y], s)
      BY <1>1, <1>2 DEF BankIInv, BankSound
    <2>2. RunOf(matching[y], s)'
      BY <2>1 DEF RunOf, LinesOf, ReconciledLines
    <2> QED  BY <2>2
  <1>3. BankSound'
    BY <1>1, <1>2 DEF BankIInv, BankSound
  <1>4. EarlierLineServed' /\ PaymentReconciledOncePerStatement'
    BY DEF BankIInv, EarlierLineServed, PaymentReconciledOncePerStatement, ReconciledLines
  <1> QED  BY <1>3, <1>4 DEF BankIInv

\* Every step of the reconciliation keeps the invariant.
LEMMA BankStep ==
    ASSUME BankIInv, BankReconciliationNext
    PROVE  BankIInv'
  <1>1. ASSUME UNCHANGED <<statementOf, fits, reconciled, matching>>
        PROVE  BankIInv'
    BY <1>1 DEF BankIInv, BankSound, EarlierLineServed, PaymentReconciledOncePerStatement,
       ReconciledLines, RunOf, LinesOf
  <1>2. ASSUME NEW s \in Statements, NEW lines \in SUBSET StatementLines \ {{}}, NEW fit,
               NEW named,
               ImportStatement(s, lines, fit, named)
        PROVE  BankIInv'
    <2>1. /\ DOMAIN statementOf' = StatementLines
          /\ \A l \in StatementLines : statementOf[l] # s
          /\ \A l \in lines : statementOf[l] = NoStatement /\ statementOf'[l] = s
          /\ \A l \in StatementLines \ lines : statementOf'[l] = statementOf[l]
                /\ fits'[l] = fits[l]
          /\ UNCHANGED <<reconciled, matching>>
      BY <1>2 DEF ImportStatement
    <2>2. ASSUME NEW t \in Statements, t # s
          PROVE  LinesOf(t)' = LinesOf(t)
      BY <2>1, <2>2, BankReconciliationAssumption DEF LinesOf
    <2>3. ReconciledLines' = ReconciledLines
      BY <2>1 DEF ReconciledLines
    <2>4. ASSUME NEW r \in reconciled
          PROVE  r[1] \notin lines /\ statementOf[r[1]] # s
      BY <2>1, BankReconciliationAssumption DEF BankIInv, BankSound
    <2>5. ASSUME NEW y \in MatchRuns, matching'[y].step \in {"lines", "payments"}
          PROVE  \E t \in Statements : RunOf(matching[y], t)'
      <3>1. PICK t \in Statements : RunOf(matching[y], t)
        BY <2>1, <2>5 DEF BankIInv, BankSound
      <3>2. t # s
        BY <2>1, <3>1 DEF RunOf, LinesOf
      <3>3. RunOf(matching[y], t)'
        BY <2>1, <2>2, <2>3, <3>1, <3>2 DEF RunOf
      <3> QED  BY <3>3
    <2>6. BankSound'
      BY <2>1, <2>4, <2>5 DEF BankIInv, BankSound
    <2>7. EarlierLineServed'
      <3>1. ASSUME NEW r \in reconciled, NEW l \in StatementLines,
                   l < r[1], statementOf'[l] = statementOf'[r[1]], r[2] \in fits'[l]
            PROVE  l \in ReconciledLines
        <4>1. r[1] \in StatementLines /\ statementOf'[r[1]] = statementOf[r[1]]
          BY <2>1, <2>4 DEF BankIInv, BankSound
        <4>2. l \notin lines
          BY <2>1, <2>4, <3>1, <4>1
        <4> QED  BY <2>1, <3>1, <4>1, <4>2 DEF BankIInv, EarlierLineServed
      <3> QED  BY <2>1, <2>3, <3>1 DEF EarlierLineServed
    <2>8. PaymentReconciledOncePerStatement'
      BY <2>1, <2>4 DEF BankIInv, BankSound, PaymentReconciledOncePerStatement
    <2> QED  BY <2>6, <2>7, <2>8 DEF BankIInv
  <1>3. ASSUME NEW x \in MatchRuns, NEW s \in Statements, MatchReadLines(x, s)
        PROVE  BankIInv'
    <2> DEFINE w == [step |-> "lines",
                     lines |-> {l \in StatementLines : statementOf[l] = s} \ ReconciledLines]
    <2>1. /\ \E l \in StatementLines : statementOf[l] = s
          /\ matching' = [matching EXCEPT ![x] = w]
                /\ UNCHANGED <<statementOf, fits, reconciled>>
      BY <1>3 DEF MatchReadLines, statementData
    <2>2. RunOf(w, s)
      BY <2>1 DEF RunOf, LinesOf
    <2> HIDE DEF w
    <2> QED  BY <2>1, <2>2, MatchReads
  <1>4. ASSUME NEW x \in MatchRuns, MatchReadPayments(x)
        PROVE  BankIInv'
    <2> DEFINE w == [step |-> "payments", lines |-> matching[x].lines,
                     pool |-> received \ ReconciledPayments]
    <2>1. /\ matching[x].step = "lines" /\ matching' = [matching EXCEPT ![x] = w]
          /\ UNCHANGED <<statementOf, fits, reconciled>>
      BY <1>4 DEF MatchReadPayments, statementData
    <2>2. PICK s \in Statements : RunOf(matching[x], s)
      BY <2>1 DEF BankIInv, BankSound
    <2>3. RunOf(w, s)
      BY <2>2 DEF RunOf, ReconciledPayments
    <2> HIDE DEF w
    <2> QED  BY <2>1, <2>3, MatchReads
  <1>5. ASSUME NEW x \in MatchRuns, MatchWrite(x)
        PROVE  BankIInv'
    <2> DEFINE lines == matching[x].lines
               pool == matching[x].pool
    <2>1. /\ matching[x].step = "payments" /\ matching' = [matching EXCEPT ![x] = NotMatching]
          /\ UNCHANGED <<statementOf, fits>>
      BY <1>5 DEF MatchWrite, statementData
    <2>2. PICK m \in GreedyMatches(lines, pool, fits, refers) :
              reconciled' = IF DOMAIN m \cap ReconciledLines # {} THEN reconciled
                            ELSE reconciled \cup {<<l, m[l]>> : l \in DOMAIN m}
      BY <1>5 DEF MatchWrite
    <2>3. PICK s \in Statements : RunOf(matching[x], s)
      BY <2>1 DEF BankIInv, BankSound
    <2>4. lines \subseteq StatementLines /\ lines \in SUBSET Nat
      BY <2>3, BankReconciliationAssumption DEF RunOf, LinesOf
    <2>5. CASE reconciled' = reconciled
      <3>1. UNCHANGED <<statementOf, fits, reconciled>>
        BY <2>1, <2>5
      <3>2. NotMatching.step \notin {"lines", "payments"}
        BY DEF NotMatching
      <3> QED  BY <2>1, <3>1, <3>2, MatchReads
    <2>6. CASE /\ DOMAIN m \cap ReconciledLines = {}
               /\ reconciled' = reconciled \cup {<<l, m[l]>> : l \in DOMAIN m}
      <3>m. /\ DOMAIN m \subseteq lines /\ m \in [DOMAIN m -> pool]
            /\ \A i \in DOMAIN m : m[i] \in fits[i]
            /\ \A i, j \in DOMAIN m : m[i] = m[j] => i = j
            /\ \A i \in lines \ DOMAIN m : \A p \in fits[i] \cap pool :
                   \E k \in DOMAIN m : k < i /\ m[k] = p
        <4> HIDE DEF lines, pool
        <4>1. lines \in SUBSET Nat
          BY <2>4
        <4>2. ServesEachOnce(m, lines, pool, fits)
          BY <4>1, GreedyMatch
        <4> QED  BY <4>2 DEF ServesEachOnce
      <3>l. ASSUME NEW l \in DOMAIN m
            PROVE  l \in StatementLines /\ l \in Nat /\ statementOf[l] = s /\ m[l] \in pool
        BY <2>3, <2>4, <3>m DEF RunOf, LinesOf
      <3>r. ASSUME NEW r \in reconciled'
            PROVE  r \in reconciled \/ \E l \in DOMAIN m : r[1] = l /\ r[2] = m[l]
                      /\ r = <<l, m[l]>>
        BY <2>6
      <3>g. /\ ReconciledLines' = ReconciledLines \cup DOMAIN m
            /\ reconciled \subseteq reconciled'
        <4>1. reconciled \subseteq reconciled'
          BY <2>6
        <4>2. ReconciledLines' \subseteq ReconciledLines \cup DOMAIN m
          BY <3>r DEF ReconciledLines
        <4>3. ASSUME NEW l \in DOMAIN m
              PROVE  l \in ReconciledLines'
          <5>1. <<l, m[l]>> \in reconciled' /\ <<l, m[l]>>[1] = l
            BY <2>6
          <5> QED  BY <5>1 DEF ReconciledLines
        <4>4. ReconciledLines \subseteq ReconciledLines'
          BY <4>1 DEF ReconciledLines
        <4> QED  BY <4>1, <4>2, <4>3, <4>4
      <3>o. ASSUME NEW r \in reconciled
            PROVE  /\ r[1] \in ReconciledLines /\ r[1] \notin DOMAIN m
                   /\ r[1] \in StatementLines /\ r[1] \in Nat /\ r[2] \in fits[r[1]]
        BY <2>6, BankReconciliationAssumption DEF ReconciledLines, BankIInv, BankSound
      <3>1. ASSUME NEW y \in MatchRuns, matching'[y].step \in {"lines", "payments"}
            PROVE  \E t \in Statements : RunOf(matching[y], t)'
        <4>1. y # x /\ matching'[y] = matching[y]
          BY <2>1, <3>1 DEF BankIInv, BankSound, NotMatching
        <4>2. PICK t \in Statements : RunOf(matching[y], t)
          BY <3>1, <4>1 DEF BankIInv, BankSound
        <4>3. LinesOf(t)' = LinesOf(t)
          BY <2>1 DEF LinesOf
        <4>4. ASSUME matching[y].step = "payments", NEW r \in reconciled',
                     r[2] \in matching[y].pool, r[1] \in LinesOf(t)
              PROVE  r[1] \in matching[y].lines
          <5>1. CASE r \in reconciled
            BY <4>2, <4>4, <5>1 DEF RunOf
          <5>2. CASE r \notin reconciled
            <6>1. r[1] \in DOMAIN m
              BY <3>r, <5>2
            <6>2. r[1] \notin ReconciledLines
              BY <2>6, <6>1
            <6> QED  BY <4>2, <4>4, <6>2 DEF RunOf
          <5> QED  BY <5>1, <5>2
        <4>5. RunOf(matching[y], t)'
          BY <3>g, <4>1, <4>2, <4>3, <4>4 DEF RunOf
        <4> QED  BY <4>5
      <3>2. BankSound'
        <4>1. ASSUME NEW r \in reconciled'
              PROVE  /\ r[1] \in StatementLines /\ statementOf[r[1]] \in Statements
                     /\ r[2] \in fits[r[1]]
          BY <3>r, <3>l, <3>m DEF BankIInv, BankSound
        <4> QED  BY <2>1, <3>1, <4>1 DEF BankIInv, BankSound
      <3>3. EarlierLineServed'
        <4>1. ASSUME NEW r \in reconciled', NEW l \in StatementLines,
                     l < r[1], statementOf[l] = statementOf[r[1]], r[2] \in fits[l]
              PROVE  l \in ReconciledLines'
          <5>1. CASE r \in reconciled
            BY <3>g, <4>1, <5>1 DEF BankIInv, EarlierLineServed
          <5>2. CASE r \notin reconciled
            <6>1. PICK k \in DOMAIN m : r[1] = k /\ r[2] = m[k]
              BY <3>r, <5>2
            <6>2. l \in LinesOf(s) /\ l \in Nat
              BY <3>l, <4>1, <6>1, BankReconciliationAssumption DEF LinesOf
            <6>3. CASE l \notin lines
              BY <2>3, <3>g, <6>2, <6>3 DEF RunOf
            <6>4. CASE l \in lines \ DOMAIN m
              <7>1. PICK j \in DOMAIN m : j < l /\ m[j] = m[k]
                BY <3>l, <3>m, <4>1, <6>1, <6>4
              <7>2. j = k
                BY <3>m, <7>1
              <7> QED  BY <3>l, <4>1, <6>1, <6>2, <7>1, <7>2
            <6> QED  BY <3>g, <6>3, <6>4
          <5> QED  BY <5>1, <5>2
        <4> QED  BY <2>1, <4>1 DEF EarlierLineServed
      <3>4. PaymentReconciledOncePerStatement'
        \* A payment of an earlier reconciliation of the statement was not taken again.
        <4>1. ASSUME NEW r \in reconciled, NEW l \in DOMAIN m
              PROVE  r[1] # l /\ (r[2] = m[l] => statementOf[r[1]] # statementOf[l])
          <5>1. r[1] # l
            BY <3>o
          <5>2. ASSUME r[2] = m[l], statementOf[r[1]] = statementOf[l]
                PROVE  FALSE
            <6>1. r[1] \in LinesOf(s)
              BY <3>l, <3>o, <5>2 DEF LinesOf
            <6>2. r[1] \in lines
              BY <2>1, <2>3, <3>l, <5>2, <6>1 DEF RunOf
            <6>3. PICK k \in DOMAIN m : k < r[1] /\ m[k] = r[2]
              BY <3>l, <3>m, <3>o, <5>2, <6>2
            <6>4. k = l
              BY <3>m, <5>2, <6>3
            <6>5. l \in ReconciledLines
              BY <3>l, <3>m, <5>2, <6>3, <6>4 DEF BankIInv, EarlierLineServed
            <6> QED  BY <2>6, <6>5
          <5> QED  BY <5>1, <5>2
        <4>2. ASSUME NEW r \in reconciled', NEW q \in reconciled', r # q
              PROVE  r[1] # q[1] /\ (r[2] = q[2] => statementOf[r[1]] # statementOf[q[1]])
          <5>1. CASE r \in reconciled /\ q \in reconciled
            BY <4>2, <5>1 DEF BankIInv, PaymentReconciledOncePerStatement
          <5>2. CASE r \in reconciled /\ q \notin reconciled
            BY <3>r, <4>1, <5>2
          <5>3. CASE r \notin reconciled /\ q \in reconciled
            BY <3>r, <4>1, <5>3
          <5>4. CASE r \notin reconciled /\ q \notin reconciled
            <6>1. PICK i \in DOMAIN m : r[1] = i /\ r[2] = m[i] /\ r = <<i, m[i]>>
              BY <3>r, <5>4
            <6>2. PICK j \in DOMAIN m : q[1] = j /\ q[2] = m[j] /\ q = <<j, m[j]>>
              BY <3>r, <5>4
            <6>3. i # j
              BY <4>2, <6>1, <6>2
            <6> QED  BY <3>m, <6>1, <6>2, <6>3
          <5> QED  BY <5>1, <5>2, <5>3, <5>4
        <4> QED  BY <2>1, <4>2 DEF PaymentReconciledOncePerStatement
      <3> QED  BY <3>2, <3>3, <3>4 DEF BankIInv
    <2> QED  BY <2>2, <2>5, <2>6
  <1>6. CreateBankAccount \/ (\E p \in Received : PaymentArrives(p)) =>
            UNCHANGED <<statementOf, fits, reconciled, matching>>
    BY DEF CreateBankAccount, PaymentArrives, statementData
  <1> QED  BY <1>1, <1>2, <1>3, <1>4, <1>5, <1>6 DEF BankReconciliationNext

\* Before the first statement the invariant holds, and a step elsewhere leaves it.
LEMMA BankStarts == BankReconciliationInit => BankIInv
  BY DEF BankReconciliationInit, BankIInv, BankSound, EarlierLineServed, NotMatching,
     PaymentReconciledOncePerStatement

\* A step elsewhere leaves it.
LEMMA BankIdle == BankIInv /\ UNCHANGED bankReconciliationVars => BankIInv'
  BY DEF bankReconciliationVars, BankIInv, BankSound, EarlierLineServed,
     PaymentReconciledOncePerStatement, ReconciledLines, RunOf, LinesOf

-----------------------------------------------------------------------------
(* Card matching *)

\* Only imported cards and submitted expenses are read and matched.
CardsSound ==
    /\ DOMAIN cardExpense = Cards /\ Imported \subseteq Cards
          /\ SubmittedExpenses \subseteq CardExpenses
    /\ DOMAIN cardRun = CardRuns
    /\ \A c \in Cards : cardExpense[c] # Unmatched =>
          c \in Imported /\ cardExpense[c] \in SubmittedExpenses
    /\ \A e \in SubmittedExpenses : expenseCard[e] # Unmatched => expenseCard[e] \in Cards
    /\ \A x \in CardRuns :
          /\ cardRun[x].step \in {"cards", "expenses"} => cardRun[x].cards \subseteq Imported
          /\ cardRun[x].step = "expenses" => cardRun[x].pool \subseteq SubmittedExpenses

CardsIInv == CardsSound /\ CardLinksAgree

\* Every step of the card matching keeps the invariant.
LEMMA CardsStep ==
    ASSUME CardsIInv, CardMatchingNext
    PROVE  CardsIInv'
  <1>u. Unmatched \notin Cards /\ Unmatched \notin CardExpenses
    BY CardMatchingAssumption
  <1>1. ASSUME NEW new \in SUBSET Cards, NEW fit, ImportCardCsv(new, fit)
        PROVE  CardsIInv'
    <2>1. /\ Imported' = Imported \cup new /\ new \cap Imported = {}
          /\ \A c \in Imported : cardFits'[c] = cardFits[c]
          /\ UNCHANGED <<cardExpense, expenseCard, cardRun, rematched>>
      BY <1>1 DEF ImportCardCsv, Imported
    <2>2. CardsSound'
      BY <2>1 DEF CardsIInv, CardsSound, SubmittedExpenses
    <2>3. CardLinksAgree'
      BY <2>1 DEF CardsIInv, CardsSound, CardLinksAgree, SubmittedExpenses
    <2> QED  BY <2>2, <2>3 DEF CardsIInv
  <1>2. ASSUME NEW e \in CardExpenses, ExpenseArrives(e)
        PROVE  CardsIInv'
    <2>1. /\ SubmittedExpenses' = SubmittedExpenses \cup {e} /\ e \notin SubmittedExpenses
          /\ expenseCard'[e] = Unmatched
          /\ \A f \in SubmittedExpenses : expenseCard'[f] = expenseCard[f]
          /\ UNCHANGED <<cardFits, cardExpense, cardRun, rematched>>
      BY <1>2 DEF ExpenseArrives, SubmittedExpenses
    <2>2. CardsSound'
      BY <2>1 DEF CardsIInv, CardsSound, Imported
    <2>3. CardLinksAgree'
      BY <2>1 DEF CardsIInv, CardsSound, CardLinksAgree, Imported
    <2> QED  BY <2>2, <2>3 DEF CardsIInv
  <1>3. ASSUME NEW x \in CardRuns, AutoMatchReadCards(x) \/ AutoMatchReadExpenses(x)
        PROVE  CardsIInv'
    <2>1. /\ DOMAIN cardRun' = CardRuns
          /\ \A y \in CardRuns \ {x} : cardRun'[y] = cardRun[y]
          /\ cardRun'[x].cards \subseteq Imported
          /\ cardRun'[x].step = "expenses" => cardRun'[x].pool \subseteq SubmittedExpenses
          /\ UNCHANGED <<cardFits, cardExpense, expenseCard, rematched>>
      BY <1>3 DEF CardsIInv, CardsSound, AutoMatchReadCards, AutoMatchReadExpenses
    <2>2. CardsSound'
      BY <2>1 DEF CardsIInv, CardsSound, Imported, SubmittedExpenses
    <2>3. CardLinksAgree'
      BY <2>1 DEF CardsIInv, CardLinksAgree, Imported, SubmittedExpenses
    <2> QED  BY <2>2, <2>3 DEF CardsIInv
  <1>4. ASSUME NEW x \in CardRuns, AutoMatchWrite(x)
        PROVE  CardsIInv'
    <2> DEFINE cards == cardRun[x].cards
               pool == cardRun[x].pool
               taken(m) == {m[c] : c \in DOMAIN m}
    <2>0. PICK m \in GreedyMatches(cards, pool, cardFits, cardFits) :
              /\ cardExpense' = [c \in Cards |-> IF c \in DOMAIN m THEN m[c] ELSE cardExpense[c]]
              /\ expenseCard' = [e \in SubmittedExpenses |->
                                    IF e \in taken(m) THEN CHOOSE c \in DOMAIN m : m[c] = e
                                    ELSE expenseCard[e]]
              /\ rematched' = rematched \cup {c \in DOMAIN m : cardExpense[c] # Unmatched}
                                        \cup {e \in taken(m) : expenseCard[e] # Unmatched}
      BY <1>4 DEF AutoMatchWrite
    <2>1. /\ cards \subseteq Imported /\ pool \subseteq SubmittedExpenses
                /\ cards \in SUBSET Nat
      BY <1>4, CardMatchingAssumption DEF AutoMatchWrite, CardsIInv, CardsSound
    <2>2. /\ DOMAIN m \subseteq cards /\ m \in [DOMAIN m -> pool]
          /\ \A c \in DOMAIN m : m[c] \in cardFits[c]
          /\ \A c, d \in DOMAIN m : m[c] = m[d] => c = d
      <3> HIDE DEF cards, pool
      <3>1. cards \in SUBSET Nat
        BY <2>1
      <3>2. ServesEachOnce(m, cards, pool, cardFits)
        BY <3>1, GreedyMatch
      <3> QED  BY <3>2 DEF ServesEachOnce
    <2>3. /\ DOMAIN cardExpense' = Cards /\ SubmittedExpenses' = SubmittedExpenses
          /\ \A c \in DOMAIN m : c \in Cards /\ cardExpense'[c] = m[c]
          /\ \A c \in Cards \ DOMAIN m : cardExpense'[c] = cardExpense[c]
      BY <2>0, <2>1, <2>2 DEF CardsIInv, CardsSound, SubmittedExpenses
    <2>4. \A c \in DOMAIN m : m[c] \in SubmittedExpenses /\ expenseCard'[m[c]] = c
      <3>1. ASSUME NEW c \in DOMAIN m
            PROVE  m[c] \in SubmittedExpenses /\ expenseCard'[m[c]] = c
        <4>1. m[c] \in taken(m) /\ m[c] \in SubmittedExpenses
          BY <2>1, <2>2
        <4>2. expenseCard'[m[c]] = CHOOSE d \in DOMAIN m : m[d] = m[c]
          BY <2>0, <4>1
        <4> QED  BY <2>2, <4>1, <4>2
      <3> QED  BY <3>1
    <2>5. \A e \in SubmittedExpenses \ taken(m) : expenseCard'[e] = expenseCard[e]
      BY <2>0
    <2>6. \A e \in taken(m) : \E c \in DOMAIN m : e = m[c]
      OBVIOUS
    <2>7. /\ rematched \subseteq rematched'
          /\ \A c \in DOMAIN m : cardExpense[c] # Unmatched => c \in rematched'
          /\ \A e \in taken(m) : expenseCard[e] # Unmatched => e \in rematched'
      BY <2>0
    <2>8. /\ DOMAIN cardRun' = CardRuns /\ UNCHANGED cardFits
          /\ \A y \in CardRuns : cardRun'[y] = cardRun[y] \/ cardRun'[y].step = "idle"
      BY <1>4 DEF AutoMatchWrite, CardsIInv, CardsSound, NotRunning
    <2> HIDE DEF taken
    <2>9. CardsSound'
      BY <2>1, <2>2, <2>3, <2>4, <2>5, <2>6, <2>8, <1>u DEF CardsIInv, CardsSound, Imported
    <2>10. ASSUME NEW c \in Imported, cardExpense'[c] # Unmatched
           PROVE  /\ cardExpense'[c] \in cardFits[c]
                  /\ expenseCard'[cardExpense'[c]] = c \/ cardExpense'[c] \in rematched'
      <3>1. CASE c \in DOMAIN m
        BY <2>2, <2>3, <2>4, <3>1
      <3>2. CASE c \notin DOMAIN m
        <4>1. c \in Cards /\ cardExpense'[c] = cardExpense[c]
          BY <2>3, <3>2 DEF CardsIInv, CardsSound
        <4>2. /\ cardExpense[c] \in cardFits[c] /\ cardExpense[c] \in SubmittedExpenses
              /\ expenseCard[cardExpense[c]] = c \/ cardExpense[c] \in rematched
          BY <2>10, <4>1 DEF CardsIInv, CardsSound, CardLinksAgree
        <4> QED  BY <2>5, <2>7, <4>1, <4>2, <1>u
      <3> QED  BY <3>1, <3>2
    <2>11. ASSUME NEW e \in SubmittedExpenses, expenseCard'[e] # Unmatched
           PROVE  cardExpense'[expenseCard'[e]] = e \/ expenseCard'[e] \in rematched'
      <3>1. CASE e \in taken(m)
        BY <2>3, <2>4, <2>6, <3>1
      <3>2. CASE e \notin taken(m)
        <4>1. expenseCard'[e] = expenseCard[e]
          BY <2>5, <3>2
        <4>2. /\ expenseCard[e] \in Cards /\ e # Unmatched
              /\ cardExpense[expenseCard[e]] = e \/ expenseCard[e] \in rematched
          BY <2>11, <4>1, <1>u DEF CardsIInv, CardsSound, CardLinksAgree
        <4> QED  BY <2>3, <2>7, <4>1, <4>2
      <3> QED  BY <3>1, <3>2
    <2>12. CardLinksAgree'
      BY <2>3, <2>8, <2>10, <2>11 DEF CardLinksAgree, Imported
    <2> QED  BY <2>9, <2>12 DEF CardsIInv
  <1> QED  BY <1>1, <1>2, <1>3, <1>4 DEF CardMatchingNext

\* The initial states satisfy it.
LEMMA CardsStarts == CardMatchingInit => CardsIInv
  BY DEF CardMatchingInit, CardsIInv, CardsSound, CardLinksAgree, NotRunning, Imported,
     SubmittedExpenses

\* A step elsewhere leaves it.
LEMMA CardsIdle == CardsIInv /\ UNCHANGED cardMatchingVars => CardsIInv'
  BY DEF cardMatchingVars, CardsIInv, CardsSound, CardLinksAgree, Imported, SubmittedExpenses

-----------------------------------------------------------------------------
(* Stock *)

\* A finite set of numbers that is not empty has a smallest and a largest.
LEMMA HasMinMax ==
    ASSUME NEW S, IsFiniteSet(S)
    PROVE  S \subseteq Nat /\ S # {} => /\ \E m \in S : \A c \in S : m <= c
                                        /\ \E m \in S : \A c \in S : m >= c
  <1> DEFINE Good(s) == (\E m \in s : \A c \in s : m <= c) /\ (\E m \in s : \A c \in s : m >= c)
             T == {s \in SUBSET S : s \subseteq Nat /\ s # {} /\ ~Good(s)}
  <1>1. SUFFICES ASSUME T # {}
                 PROVE  FALSE
    OBVIOUS
  <1>2. PICK s \in T : \A t \in T : t \subseteq s => t = s
    <2>1. T \subseteq SUBSET S
      OBVIOUS
    <2> HIDE DEF T, Good
    <2> QED  BY <1>1, <2>1, SmallestCounterexample
  <1>3. PICK a \in s : TRUE
    BY <1>2
  <1>4. CASE s \ {a} = {}
    <2>1. s = {a} /\ a \in Nat
      BY <1>2, <1>3, <1>4
    <2>2. Good(s)
      BY <2>1
    <2> QED  BY <1>2, <2>2
  <1>5. CASE s \ {a} # {}
    <2>1. s \ {a} \notin T /\ s \ {a} \in SUBSET S
      BY <1>2, <1>3
    <2>2. Good(s \ {a})
      BY <1>5, <2>1
    <2>3. PICK l \in s \ {a} : \A c \in s \ {a} : l <= c
      BY <2>2
    <2>4. PICK h \in s \ {a} : \A c \in s \ {a} : h >= c
      BY <2>2
    <2>5. s \subseteq Nat
      BY <1>2
    <2>6. \E m \in s : \A c \in s : m <= c
      <3>1. CASE a <= l
        BY <1>3, <2>3, <2>5, <3>1
      <3>2. CASE ~(a <= l)
        <4>1. \A c \in s : l <= c
          BY <1>3, <2>3, <2>5, <3>2
        <4> QED  BY <2>3, <4>1
      <3> QED  BY <3>1, <3>2
    <2>7. \E m \in s : \A c \in s : m >= c
      <3>1. CASE a >= h
        BY <1>3, <2>4, <2>5, <3>1
      <3>2. CASE ~(a >= h)
        <4>1. \A c \in s : h >= c
          BY <1>3, <2>4, <2>5, <3>2
        <4> QED  BY <2>4, <4>1
      <3> QED  BY <3>1, <3>2
    <2> QED  BY <1>2, <2>6, <2>7
  <1> QED  BY <1>4, <1>5

\* The unit costs have a smallest and a largest.
LEMMA CostBounds ==
    ASSUME UnitCosts # {}
    PROVE  /\ Min(UnitCosts) \in Nat /\ Max(UnitCosts) \in Nat
           /\ \A c \in UnitCosts : c \in Nat /\ Min(UnitCosts) <= c /\ c <= Max(UnitCosts)
  <1>1. PICK l \in UnitCosts : \A c \in UnitCosts : l <= c
    BY StockLedgerAssumption, HasMinMax
  <1>2. PICK h \in UnitCosts : \A c \in UnitCosts : h >= c
    BY StockLedgerAssumption, HasMinMax
  <1>3. Min(UnitCosts) \in UnitCosts /\ \A c \in UnitCosts : Min(UnitCosts) <= c
    BY <1>1 DEF Min
  <1>4. Max(UnitCosts) \in UnitCosts /\ \A c \in UnitCosts : Max(UnitCosts) >= c
    BY <1>2 DEF Max
  <1> QED  BY <1>3, <1>4, StockLedgerAssumption

\* Products of whole numbers keep their order.
LEMMA ProductOrder ==
    ASSUME NEW a \in Int, NEW b \in Int, NEW c \in Nat, a <= b
    PROVE  a * c <= b * c /\ a * c \in Int /\ b * c \in Int
  OBVIOUS

\* A rounded quotient lies between whole bounds of the exact one.
LEMMA RoundedBetween ==
    ASSUME NEW n \in Nat, NEW d \in Nat \ {0}, NEW lo \in Nat, NEW hi \in Nat,
           lo * d <= n, n <= hi * d
    PROVE  RoundHalfUp(n, d) \in lo..hi
  <1> DEFINE q == n \div d
             r == n % d
  <1>1. q \in Nat /\ r \in Nat /\ r < d /\ n = q * d + r
    OBVIOUS
  <1>2. RoundHalfUp(n, d) = IF 2 * r >= d THEN q + 1 ELSE q
    BY DEF RoundHalfUp, Magnitude
  <1> HIDE DEF q, r
  <1>3. lo <= q
    <2>1. CASE q + 1 <= lo
      <3>1. (q + 1) * d <= lo * d /\ (q + 1) * d = q * d + d
        BY <1>1, <2>1, ProductOrder
      <3> QED  BY <1>1, <3>1
    <2> QED  BY <1>1, <2>1
  <1>4. q <= hi
    <2>1. CASE hi + 1 <= q
      <3>1. (hi + 1) * d <= q * d /\ (hi + 1) * d = hi * d + d
        BY <1>1, <2>1, ProductOrder
      <3> QED  BY <1>1, <3>1
    <2> QED  BY <1>1, <2>1
  <1>5. r > 0 => q < hi
    <2>1. CASE q = hi
      BY <1>1, <2>1
    <2> QED  BY <1>1, <1>4, <2>1
  <1>6. 2 * r >= d => r > 0
    BY <1>1
  <1> QED  BY <1>1, <1>2, <1>3, <1>4, <1>5, <1>6

\* Stock that is not negative, and its average cost between those it was bought at.
Valued(at) ==
    at.qty >= 0 /\ (at.qty > 0 => at.avg \in Min(UnitCosts)..Max(UnitCosts))

\* What a posting will write: a movement that is new, and the level it read with
\* the movement in it.  A reconcile has the level, unless a movement came since.
PostingSound(w) ==
    /\ w.op = "post" =>
          /\ w.row.delta \in Int /\ w.read.qty \in Int
          /\ w.new.qty = w.read.qty + w.row.delta /\ w.new.avg \in Int
          /\ ~backordered => Valued(w.new)
          /\ \A m \in movements : m.id # w.row.id
    /\ w.op = "reconcile" => /\ DOMAIN w = {"op", "cached", "moved"}
                             /\ ~w.moved => w.cached = level.qty

StockSound ==
    /\ stockItem.negative => backordered
    /\ backordered => stockItem.exists
    /\ level.qty \in Int /\ level.avg \in Int
    /\ IsFiniteSet(movements) /\ \A m \in movements : m.delta \in Int
    /\ DOMAIN stockPosting = StockTxns
    /\ \A x \in StockTxns : PostingSound(stockPosting[x])
    /\ \A x, y \in StockTxns : x # y /\ stockPosting[x].op = "post"
          /\ stockPosting[y].op = "post" =>
          stockPosting[x].row.id # stockPosting[y].row.id

StockIInv == StockSound /\ LevelMatchesMovements /\ StockIsValuedAtCost /\ CogsHasMovement

\* The level after a movement has its quantity; a receipt moves the average
\* towards its cost, an issue leaves it.
LEMMA NewLevelSound ==
    ASSUME level.qty \in Int, level.avg \in Int, NEW delta \in Int \ {0}, NEW cost \in Int,
           delta > 0 => cost \in UnitCosts
    PROVE  LET new == NewLevel(level, delta, cost)
           IN  /\ new.qty = level.qty + delta /\ new.avg \in Int
               /\ Valued(level) /\ ~(new.qty < 0) => Valued(new)
  <1> DEFINE q == level.qty
             a == level.avg
             n == q * a + delta * cost
             sum == q + delta
             new == NewLevel(level, delta, cost)
  <1>0. q \in Int /\ a \in Int /\ sum \in Int /\ n \in Int
    OBVIOUS
  <1>1. CASE ~(delta > 0)
    <2>1. new.qty = q + delta /\ new.avg = a
      BY <1>1 DEF NewLevel
    <2>2. new.qty > 0 => q > 0
      BY <1>0, <1>1, <2>1
    <2> QED  BY <1>0, <2>1, <2>2 DEF Valued
  <1>2. CASE delta > 0
    <2>1. /\ new.qty = sum
          /\ new.avg = IF sum = 0 THEN a ELSE RoundHalfUp(n, sum)
      BY <1>2 DEF NewLevel, WeightedAverageReceipt
    <2>2. new.avg \in Int
      <3>1. CASE sum = 0
        BY <1>0, <2>1, <3>1
      <3>2. CASE sum # 0
        <4>1. Magnitude(n) \in Nat /\ Magnitude(sum) \in Nat \ {0}
          BY <1>0, <3>2 DEF Magnitude
        <4>2. Magnitude(n) \div Magnitude(sum) \in Int /\ Magnitude(n) % Magnitude(sum) \in Int
          BY <4>1
        <4>3. RoundHalfUp(n, sum) \in Int
          BY <4>2 DEF RoundHalfUp
        <4> QED  BY <2>1, <3>2, <4>3
      <3> QED  BY <3>1, <3>2
    <2>3. ASSUME Valued(level), ~(new.qty < 0)
          PROVE  Valued(new)
      <3> DEFINE lo == Min(UnitCosts)
                 hi == Max(UnitCosts)
      <3>1. /\ lo \in Nat /\ hi \in Nat /\ cost \in Nat /\ lo <= cost /\ cost <= hi
            /\ q \in Nat /\ (q > 0 => a \in lo..hi) /\ delta \in Nat /\ sum \in Nat \ {0}
        BY <1>0, <1>2, <2>3, CostBounds DEF Valued
      <3>2. lo * delta <= cost * delta /\ cost * delta <= hi * delta
               /\ cost * delta = delta * cost
        BY <3>1, ProductOrder
      <3>3. lo * q <= q * a /\ q * a <= hi * q
        <4>1. CASE q = 0
          BY <1>0, <3>1, <4>1
        <4>2. CASE q > 0
          <5>1. lo <= a /\ a <= hi
            BY <3>1, <4>2
          <5>2. lo * q <= a * q /\ a * q <= hi * q /\ a * q = q * a
            BY <1>0, <3>1, <5>1, ProductOrder
          <5> QED  BY <5>2
        <4> QED  BY <3>1, <4>1, <4>2
      <3>4. lo * sum = lo * q + lo * delta /\ hi * sum = hi * q + hi * delta
        BY <3>1
      <3> DEFINE u == lo * q
                 v == lo * delta
                 w == hi * q
                 z == hi * delta
                 qa == q * a
                 dc == delta * cost
      <3>5. /\ u \in Nat /\ v \in Nat /\ w \in Nat /\ z \in Nat /\ qa \in Int /\ dc \in Int
            /\ n = qa + dc /\ lo * sum = u + v /\ hi * sum = w + z
            /\ v <= dc /\ dc <= z /\ u <= qa /\ qa <= w
        <4>1. u \in Nat /\ v \in Nat /\ w \in Nat /\ z \in Nat
          BY <3>1
        <4>2. qa \in Int /\ dc \in Int /\ n = qa + dc
          BY <1>0
        <4>3. lo * sum = u + v /\ hi * sum = w + z
          BY <3>4
        <4>4. u <= qa /\ qa <= w
          BY <3>3
        <4>5. v <= dc /\ dc <= z
          <5> HIDE DEF lo, hi
          <5> QED  BY <3>2
        <4> HIDE DEF lo, hi, u, v, w, z, qa, dc, n, sum, q, a
        <4> QED  BY <4>1, <4>2, <4>3, <4>4, <4>5
      <3> HIDE DEF lo, hi, u, v, w, z, qa, dc, n, sum, q, a
      <3>6. n \in Nat /\ lo * sum <= n /\ n <= hi * sum
        BY <3>5
      <3>7. RoundHalfUp(n, sum) \in lo..hi
        BY <3>1, <3>6, RoundedBetween
      <3> QED  BY <2>1, <3>1, <3>7 DEF Valued, lo, hi
    <2> QED  BY <2>1, <2>2, <2>3
  <1> QED  BY <1>1, <1>2

\* One movement more adds its delta.
LEMMA OneMovementMore ==
    ASSUME StockSound, NEW row, row \notin movements, row.delta \in Int,
           movements' = movements \cup {row}
    PROVE  MovementSum' = MovementSum + row.delta
  <1> DEFINE F == [m \in movements |-> m.delta]
             G == [m \in movements \cup {row} |-> m.delta]
  <1>1. IsFiniteSet(movements) /\ \A m \in movements : F[m] \in Int /\ G[m] = F[m]
    BY DEF StockSound
  <1>2. G[row] = row.delta
    OBVIOUS
  <1>3. MovementSum = SumFunctionOnSet(F, movements)
    BY DEF MovementSum, SumFunction
  <1>4. MovementSum' = SumFunctionOnSet(G, movements \cup {row})
    <2>1. MovementSum' = SumFunction([m \in movements' |-> m.delta])
      BY DEF MovementSum
    <2> QED  BY <2>1 DEF SumFunction
  <1> HIDE DEF F, G
  <1>5. SumFunctionOnSet(G, movements \cup {row}) = G[row] + SumFunctionOnSet(F, movements)
    BY <1>1, <1>2, SumInsert
  <1>6. SumFunctionOnSet(F, movements) \in Int
    BY <1>1, SumType
  <1> QED  BY <1>2, <1>3, <1>4, <1>5, <1>6

\* A step that leaves the movements and the level, where a request starts, ends
\* or goes on.
LEMMA StockStays ==
    ASSUME StockIInv, UNCHANGED <<movements, level>>,
           ~backordered' => ~backordered,
           stockItem'.negative => backordered', backordered' => stockItem'.exists,
           DOMAIN stockPosting' = StockTxns,
           NEW x \in StockTxns, NEW what,
           stockPosting'[x] = what, PostingSound(what),
           what.op = "post" => \A y \in StockTxns : stockPosting[y].op = "post" =>
                                      stockPosting[y].row.id # what.row.id,
           \A y \in StockTxns \ {x} : stockPosting'[y] = stockPosting[y],
           levelDrifted' = levelDrifted,
           alerts' # {} => levelDrifted \/ falseAlarm',
           cogs' \ uncommitted' \subseteq cogs \ uncommitted
    PROVE  StockIInv'
  <1>1. StockSound'
    <2>1. \A y \in StockTxns : stockPosting'[y] = stockPosting[y] \/ stockPosting'[y] = what
      OBVIOUS
    <2>2. \A y \in StockTxns : PostingSound(stockPosting[y])'
      <3> SUFFICES ASSUME NEW y \in StockTxns
                   PROVE  PostingSound(stockPosting[y])'
        OBVIOUS
      <3>1. PICK w : w = stockPosting'[y] /\ PostingSound(w)
        BY <2>1 DEF StockIInv, StockSound
      <3> QED  BY <3>1 DEF PostingSound, Valued
    <2>3. ASSUME NEW y \in StockTxns, NEW z \in StockTxns, y # z,
                 stockPosting'[y].op = "post", stockPosting'[z].op = "post"
          PROVE  stockPosting'[y].row.id # stockPosting'[z].row.id
      <3>1. CASE y = x
        BY <2>3, <3>1
      <3>2. CASE z = x
        BY <2>3, <3>2
      <3>3. CASE y # x /\ z # x
        BY <2>3, <3>3 DEF StockIInv, StockSound
      <3> QED  BY <3>1, <3>2, <3>3
    <2> QED  BY <2>2, <2>3 DEF StockIInv, StockSound
  <1>2. LevelMatchesMovements' /\ StockIsValuedAtCost' /\ CogsHasMovement'
    BY DEF StockIInv, LevelMatchesMovements, MovementSum, StockIsValuedAtCost, CogsHasMovement
  <1> QED  BY <1>1, <1>2 DEF StockIInv

\* Every step of the stock keeps the invariant.
LEMMA StockStep ==
    ASSUME StockIInv, StockLedgerNext
    PROVE  StockIInv'
  \* A step of the catalogue: what was allowed to go negative stays recorded.
  <1>c. ASSUME UNCHANGED <<movements, level, cogs, alerts, stockPosting, levelDrifted, uncommitted,
                           falseAlarm>>,
               ~backordered' => ~backordered,
               stockItem'.negative => backordered', backordered' => stockItem'.exists
        PROVE  StockIInv'
    <2>1. StockSound'
      BY <1>c DEF StockIInv, StockSound, PostingSound, Valued
    <2>2. LevelMatchesMovements' /\ StockIsValuedAtCost' /\ CogsHasMovement'
      BY <1>c DEF StockIInv, LevelMatchesMovements, MovementSum, StockIsValuedAtCost,
         CogsHasMovement
    <2> QED  BY <2>1, <2>2 DEF StockIInv
  <1>1. CASE CreateWarehouse
    BY <1>c, <1>1 DEF CreateWarehouse, StockIInv, StockSound
  <1>2. ASSUME NEW negative \in BOOLEAN, CreateItem(negative)
        PROVE  StockIInv'
    <2>1. ~backordered
      BY <1>2 DEF CreateItem, StockIInv, StockSound
    <2>2. stockItem'.exists = TRUE /\ stockItem'.negative = negative /\ backordered' = negative
      BY <1>2 DEF CreateItem
    <2> QED  BY <1>c, <1>2, <2>1, <2>2 DEF CreateItem
  <1>3. ASSUME NEW on \in BOOLEAN, NEW negative \in BOOLEAN, UpdateItem(on, negative)
        PROVE  StockIInv'
    <2>1. /\ stockItem'.exists = TRUE /\ stockItem'.negative = negative
          /\ backordered' = (backordered \/ negative)
      BY <1>3 DEF UpdateItem
    <2> QED  BY <1>c, <1>3, <2>1 DEF UpdateItem
  <1>4. ASSUME NEW x \in StockTxns, NEW m \in Movements,
               NEW delta \in (-MaxDelta..MaxDelta) \ {0},
               NEW key \in MoveKeys \cup {Keyless},
               NEW cost \in IF delta > 0 THEN UnitCosts ELSE {0},
               PostMovementRead(x, m, delta, cost, key)
        PROVE  StockIInv'
    <2> DEFINE new == NewLevel(level, delta, cost)
               row == [id |-> m, delta |-> delta, key |-> key]
               what == [op |-> "post", read |-> level, new |-> new, row |-> row]
    <2>1. /\ stockPosting[x] = NotPosting
          /\ \A r \in movements : r.id # m
          /\ \A y \in StockTxns : stockPosting[y].op = "post" => stockPosting[y].row.id # m
          /\ new.qty < 0 => stockItem.negative
          /\ stockPosting' = [stockPosting EXCEPT ![x] = what]
          /\ UNCHANGED <<stockItem, backordered, movements, level, cogs, alerts, levelDrifted,
                         uncommitted, falseAlarm>>
      BY <1>4 DEF PostMovementRead, catalogue
    <2>2. delta \in Int \ {0} /\ cost \in Int /\ (delta > 0 => cost \in UnitCosts)
      BY StockLedgerAssumption
    <2>3. /\ new.qty = level.qty + delta /\ new.avg \in Int
          /\ Valued(level) /\ ~(new.qty < 0) => Valued(new)
      BY <2>2, NewLevelSound DEF StockIInv, StockSound
    <2>4. ~backordered => Valued(new)
      BY <2>1, <2>3 DEF StockIInv, StockSound, StockIsValuedAtCost, Valued
    <2> HIDE DEF new
    <2>5. /\ what.op = "post" /\ what.read = level /\ what.new = new /\ what.row = row
          /\ row.id = m /\ row.delta = delta
      OBVIOUS
    <2> HIDE DEF what, row
    <2>6. PostingSound(what)
      BY <2>1, <2>2, <2>3, <2>4, <2>5 DEF PostingSound, StockIInv, StockSound
    <2>7. /\ DOMAIN stockPosting' = StockTxns /\ stockPosting'[x] = what
          /\ \A y \in StockTxns \ {x} : stockPosting'[y] = stockPosting[y]
      BY <2>1 DEF StockIInv, StockSound
    <2>8. stockItem'.negative => backordered'
      BY <2>1 DEF StockIInv, StockSound
    <2>9. backordered' => stockItem'.exists
      BY <2>1 DEF StockIInv, StockSound
    <2>10. alerts' # {} => levelDrifted \/ falseAlarm'
      BY <2>1 DEF StockIInv, LevelMatchesMovements
    <2> QED  BY <2>1, <2>5, <2>6, <2>7, <2>8, <2>9, <2>10, StockStays
  <1>5. ASSUME NEW x \in StockTxns, NEW inJournal \in BOOLEAN, PostMovementWrite(x, inJournal)
        PROVE  StockIInv'
    <2>0. PICK w : w = stockPosting[x]
      OBVIOUS
    <2>1. /\ w.op = "post" /\ movements' = movements \cup {w.row} /\ level' = w.new
          /\ cogs' \subseteq cogs \cup {w.row.id} /\ uncommitted' = uncommitted
          /\ levelDrifted' = (levelDrifted \/ level.qty # w.read.qty)
          /\ UNCHANGED <<stockItem, backordered, alerts, falseAlarm>>
          /\ \A r \in movements : w.row.key = Keyless \/ r.key # w.row.key
      BY <1>5, <2>0 DEF PostMovementWrite, NothingPosted, catalogue
    <2>2. PostingSound(w)
      BY <2>0 DEF StockIInv, StockSound
    <2>3. /\ w.row.delta \in Int /\ w.read.qty \in Int /\ w.new.qty = w.read.qty + w.row.delta
          /\ w.new.avg \in Int /\ (~backordered => Valued(w.new))
          /\ \A m \in movements : m.id # w.row.id
      BY <2>1, <2>2 DEF PostingSound
    <2>4. ASSUME NEW y \in StockTxns
          PROVE  \/ stockPosting'[y] = NotPosting
                 \/ /\ y # x /\ stockPosting[y].op = "reconcile"
                    /\ stockPosting'[y] = [stockPosting[y] EXCEPT !.moved = TRUE]
                 \/ y # x /\ stockPosting[y].op # "reconcile"
                       /\ stockPosting'[y] = stockPosting[y]
      <3>1. stockPosting' = [z \in StockTxns |->
               CASE z = x -> NotPosting
                 [] stockPosting[z].op = "reconcile" -> [stockPosting[z] EXCEPT !.moved = TRUE]
                 [] OTHER -> stockPosting[z]]
        BY <1>5 DEF PostMovementWrite
      <3>2. stockPosting[x].op # "reconcile"
        BY <2>0, <2>1
      <3>3. CASE y = x
        BY <3>1, <3>2, <3>3
      <3>4. CASE y # x /\ stockPosting[y].op = "reconcile"
        BY <3>1, <3>4
      <3>5. CASE y # x /\ stockPosting[y].op # "reconcile"
        BY <3>1, <3>5
      <3> QED  BY <3>3, <3>4, <3>5
    <2>5. DOMAIN stockPosting' = StockTxns
      BY <1>5 DEF PostMovementWrite
    <2>6. ASSUME NEW y \in StockTxns, stockPosting'[y].op = "post"
          PROVE  y # x /\ stockPosting'[y] = stockPosting[y] /\ stockPosting[y].op = "post"
      <3>1. CASE stockPosting'[y] = NotPosting
        BY <2>6, <3>1 DEF NotPosting
      <3>2. CASE /\ y # x /\ stockPosting[y].op = "reconcile"
                 /\ stockPosting'[y] = [stockPosting[y] EXCEPT !.moved = TRUE]
        <4>1. DOMAIN stockPosting[y] = {"op", "cached", "moved"}
          BY <3>2 DEF StockIInv, StockSound, PostingSound
        <4>2. stockPosting'[y].op = "reconcile"
          BY <3>2, <4>1
        <4> QED  BY <2>6, <4>2
      <3> QED  BY <2>4, <2>6, <3>1, <3>2
    <2>7. ASSUME NEW y \in StockTxns
          PROVE  PostingSound(stockPosting[y])'
      <3>1. ASSUME stockPosting'[y].op = "post"
            PROVE  /\ stockPosting'[y].row.delta \in Int /\ stockPosting'[y].read.qty \in Int
                   /\ stockPosting'[y].new.qty = stockPosting'[y].read.qty + stockPosting'[y].row.delta
                   /\ stockPosting'[y].new.avg \in Int
                   /\ ~backordered' => Valued(stockPosting'[y].new)
                   /\ \A m \in movements' : m.id # stockPosting'[y].row.id
        <4>1. y # x /\ stockPosting'[y] = stockPosting[y] /\ stockPosting[y].op = "post"
          BY <2>6, <3>1
        <4>2. PICK v : v = stockPosting[y] /\ PostingSound(v)
          BY DEF StockIInv, StockSound
        <4>3. v.row.id # w.row.id
          BY <2>0, <2>1, <4>1, <4>2 DEF StockIInv, StockSound
        <4> QED  BY <2>1, <4>1, <4>2, <4>3 DEF PostingSound
      <3>2. ASSUME stockPosting'[y].op = "reconcile"
            PROVE  /\ DOMAIN stockPosting'[y] = {"op", "cached", "moved"}
                         /\ stockPosting'[y].moved = TRUE
        <4>1. stockPosting[y].op = "reconcile"
                 /\ stockPosting'[y] = [stockPosting[y] EXCEPT !.moved = TRUE]
          BY <2>4, <3>2 DEF NotPosting
        <4>2. DOMAIN stockPosting[y] = {"op", "cached", "moved"}
          BY <4>1 DEF StockIInv, StockSound, PostingSound
        <4> QED  BY <4>1, <4>2
      <3> QED  BY <3>1, <3>2 DEF PostingSound, Valued
    <2>8. StockSound'
      <3>1. IsFiniteSet(movements') /\ \A m \in movements' : m.delta \in Int
        BY <2>1, <2>3, FS_AddElement DEF StockIInv, StockSound
      <3>2. level'.qty \in Int /\ level'.avg \in Int
        BY <2>1, <2>3
      <3>3. \A y, z \in StockTxns :
               y # z /\ stockPosting'[y].op = "post" /\ stockPosting'[z].op = "post" =>
                  stockPosting'[y].row.id # stockPosting'[z].row.id
        BY <2>6 DEF StockIInv, StockSound
      <3>4. stockItem'.negative => backordered'
        BY <2>1 DEF StockIInv, StockSound
      <3>5. backordered' => stockItem'.exists
        BY <2>1 DEF StockIInv, StockSound
      <3> QED  BY <2>5, <2>7, <3>1, <3>2, <3>3, <3>4, <3>5 DEF StockSound
    <2>9. LevelMatchesMovements'
      <3>1. MovementSum' = MovementSum + w.row.delta
        BY <2>1, <2>3, OneMovementMore DEF StockIInv
      <3>2. ~levelDrifted' => level'.qty = MovementSum'
        BY <2>1, <2>3, <3>1 DEF StockIInv, LevelMatchesMovements
      <3>3. \A r, s \in movements' : r # s => r.key = Keyless \/ r.key # s.key
        BY <2>1 DEF StockIInv, LevelMatchesMovements
      <3>4. alerts' # {} => levelDrifted' \/ falseAlarm'
        BY <2>1 DEF StockIInv, LevelMatchesMovements
      <3> QED  BY <3>2, <3>3, <3>4 DEF LevelMatchesMovements
    <2>10. StockIsValuedAtCost'
      BY <2>1, <2>3 DEF StockIsValuedAtCost, Valued
    <2>11. CogsHasMovement'
      BY <2>1 DEF StockIInv, CogsHasMovement
    <2> QED  BY <2>8, <2>9, <2>10, <2>11 DEF StockIInv
  <1>6. ASSUME NEW x \in StockTxns, NEW inJournal \in BOOLEAN, PostMovementFails(x, inJournal)
        PROVE  StockIInv'
    <2>1. /\ stockPosting' = [stockPosting EXCEPT ![x] = NotPosting]
          /\ cogs' \ uncommitted' \subseteq cogs \ uncommitted
          /\ UNCHANGED <<stockItem, backordered, movements, level, alerts, levelDrifted, falseAlarm>>
      BY <1>6 DEF PostMovementFails, catalogue
    <2>2. /\ DOMAIN stockPosting' = StockTxns /\ stockPosting'[x] = NotPosting
          /\ \A y \in StockTxns \ {x} : stockPosting'[y] = stockPosting[y]
      BY <2>1 DEF StockIInv, StockSound
    <2>3. PostingSound(NotPosting) /\ NotPosting.op = "idle"
      BY DEF PostingSound, NotPosting
    <2>4. stockItem'.negative => backordered'
      BY <2>1 DEF StockIInv, StockSound
    <2>5. backordered' => stockItem'.exists
      BY <2>1 DEF StockIInv, StockSound
    <2>6. alerts' # {} => levelDrifted \/ falseAlarm'
      BY <2>1 DEF StockIInv, LevelMatchesMovements
    <2> QED  BY <2>1, <2>2, <2>3, <2>4, <2>5, <2>6, StockStays
  <1>7. ASSUME NEW x \in StockTxns, ReconcileRead(x)
        PROVE  StockIInv'
    <2> DEFINE what == [op |-> "reconcile", cached |-> level.qty, moved |-> FALSE]
    <2>1. /\ stockPosting' = [stockPosting EXCEPT ![x] = what]
          /\ UNCHANGED <<stockItem, backordered, movements, level, alerts, cogs, uncommitted,
                         levelDrifted, falseAlarm>>
      BY <1>7 DEF ReconcileRead, catalogue
    <2>2. PostingSound(what) /\ what.op = "reconcile"
      BY DEF PostingSound
    <2> HIDE DEF what
    <2>3. /\ DOMAIN stockPosting' = StockTxns /\ stockPosting'[x] = what
          /\ \A y \in StockTxns \ {x} : stockPosting'[y] = stockPosting[y]
      BY <2>1 DEF StockIInv, StockSound
    <2>4. stockItem'.negative => backordered'
      BY <2>1 DEF StockIInv, StockSound
    <2>5. backordered' => stockItem'.exists
      BY <2>1 DEF StockIInv, StockSound
    <2>6. alerts' # {} => levelDrifted \/ falseAlarm'
      BY <2>1 DEF StockIInv, LevelMatchesMovements
    <2> QED  BY <2>1, <2>2, <2>3, <2>4, <2>5, <2>6, StockStays
  <1>8. ASSUME NEW x \in StockTxns, ReconcileWrite(x)
        PROVE  StockIInv'
    <2> DEFINE drift == stockPosting[x].cached # MovementSum
    <2>1. /\ stockPosting[x].op = "reconcile"
                /\ stockPosting' = [stockPosting EXCEPT ![x] = NotPosting]
          /\ alerts' = IF drift THEN alerts \cup {<<stockPosting[x].cached, MovementSum>>} ELSE alerts
          /\ falseAlarm' = (falseAlarm \/ (drift /\ stockPosting[x].moved))
          /\ UNCHANGED <<stockItem, backordered, movements, level, cogs, uncommitted, levelDrifted>>
      BY <1>8 DEF ReconcileWrite, catalogue
    <2>2. /\ DOMAIN stockPosting' = StockTxns /\ stockPosting'[x] = NotPosting
          /\ \A y \in StockTxns \ {x} : stockPosting'[y] = stockPosting[y]
      BY <2>1 DEF StockIInv, StockSound
    <2>3. PostingSound(NotPosting) /\ NotPosting.op = "idle"
      BY DEF PostingSound, NotPosting
    <2>4. stockItem'.negative => backordered'
      BY <2>1 DEF StockIInv, StockSound
    <2>5. backordered' => stockItem'.exists
      BY <2>1 DEF StockIInv, StockSound
    <2>6. drift => levelDrifted \/ stockPosting[x].moved
      BY <2>1 DEF StockIInv, StockSound, PostingSound, LevelMatchesMovements
    <2>7. alerts' # {} => levelDrifted \/ falseAlarm'
      BY <2>1, <2>6 DEF StockIInv, LevelMatchesMovements
    <2> QED  BY <2>1, <2>2, <2>3, <2>4, <2>5, <2>7, StockStays
  <1> QED
    BY <1>1, <1>2, <1>3, <1>4, <1>5, <1>6, <1>7, <1>8 DEF StockLedgerNext

\* The initial states satisfy it.
LEMMA StockStarts == StockLedgerInit => StockIInv
  <1> SUFFICES ASSUME StockLedgerInit
               PROVE  StockIInv
    OBVIOUS
  <1>1. MovementSum = 0
    <2>1. movements = {} /\ DOMAIN [m \in {} |-> m.delta] = {}
      BY DEF StockLedgerInit
    <2> QED  BY <2>1, SumEmpty DEF MovementSum, SumFunction
  <1>2. /\ \A x \in StockTxns : stockPosting[x].op = "idle"
        /\ level.qty = 0 /\ level.avg = 0 /\ stockItem.negative = FALSE
        /\ movements = {} /\ backordered = FALSE /\ alerts = {} /\ cogs = {}
    BY DEF StockLedgerInit, NotPosting
  <1>3. StockSound
    BY <1>2, FS_EmptySet DEF StockLedgerInit, StockSound, PostingSound
  <1> QED
    BY <1>1, <1>2, <1>3
    DEF StockIInv, LevelMatchesMovements, StockIsValuedAtCost, CogsHasMovement

\* A step elsewhere leaves it.
LEMMA StockIdle == StockIInv /\ UNCHANGED stockLedgerVars => StockIInv'
  BY DEF stockLedgerVars, StockIInv, StockSound, PostingSound, Valued, LevelMatchesMovements,
     MovementSum, StockIsValuedAtCost, CogsHasMovement

-----------------------------------------------------------------------------
(* Procurement *)

RequestedOrders == {o \in Orders : order[o].requested}

\* What a request that is being handled has read: an order to create is new and
\* nobody else's, an order to change and a receipt to post are there.
BuyingSound(w) ==
    /\ w.op = "submit" => w.seen = "draft"
    /\ w.op = "decide" => w.seen \in {"draft", "pending_approval"}
    /\ w.op = "order" => /\ w.order \in Orders /\ order[w.order].status = "none"
                         /\ w.requested \in BOOLEAN /\ (w.requested => w.seen = "approved")
    /\ w.op \in {"issue", "receive"} => w.order \in Orders /\ order[w.order].status # "none"
    /\ w.op = "post" => w.receipt \in Receipts /\ receipt[w.receipt].status # "none"

ProcurementSound ==
    /\ DOMAIN order = Orders /\ DOMAIN receipt = Receipts /\ DOMAIN buying = BuyTxns
    /\ \A o \in Orders : /\ DOMAIN order[o] = {"status", "requested", "received"}
                         /\ order[o].requested \in BOOLEAN
                         /\ order[o].status = "none" => ~order[o].requested
    /\ \A g \in Receipts : receipt[g].status # "none" =>
           receipt[g].order \in Orders /\ order[receipt[g].order].status # "none"
    /\ \A g \in Receipts : DOMAIN receipt[g] = {"status", "order", "qty"}
    /\ \A x \in BuyTxns : BuyingSound(buying[x])

OrdersApart ==
    \A x, y \in BuyTxns :
        x # y /\ buying[x].op = "order" /\ buying[y].op = "order" =>
           buying[x].order # buying[y].order

\* The request is converted exactly when one order is from it.
ConvertedOnce ==
    IF purchaseRequest = "converted" THEN \E o \in Orders : RequestedOrders = {o}
    ELSE RequestedOrders = {}

ProcurementIInv == ProcurementSound /\ OrdersApart /\ (~reopened => ConvertedOnce)

\* A step that leaves the orders and the receipts, where one request starts, ends
\* or goes on, keeps what is said of them.
LEMMA BuyingStep ==
    ASSUME ProcurementIInv, NEW x \in BuyTxns, NEW what,
           \/ Buy(x, what) /\ BuyingSound(what)
                 /\ (what.op = "order" =>
                        \A y \in BuyTxns : buying[y].op = "order" =>
                           buying[y].order # what.order)
           \/ Bought(x),
           UNCHANGED <<order, receipt>>
    PROVE  ProcurementSound' /\ OrdersApart' /\ RequestedOrders' = RequestedOrders
  <1>1. /\ DOMAIN buying' = BuyTxns
        /\ \A y \in BuyTxns \ {x} : buying'[y] = buying[y]
        /\ \/ /\ buying'[x] = what /\ BuyingSound(what)
              /\ what.op = "order" =>
                    \A y \in BuyTxns : buying[y].op = "order" => buying[y].order # what.order
           \/ buying'[x].op = "idle"
    BY DEF Buy, Bought, NotBuying, ProcurementIInv, ProcurementSound
  <1> QED
    BY <1>1 DEF ProcurementIInv, ProcurementSound, BuyingSound, OrdersApart, RequestedOrders

\* Every step of procurement keeps the invariant.
LEMMA ProcurementStep ==
    ASSUME ProcurementIInv, ProcurementNext
    PROVE  ProcurementIInv'
  <1>n. ASSUME NEW x \in BuyTxns, Bought(x)
        PROVE  /\ DOMAIN buying' = BuyTxns /\ buying'[x].op = "idle"
               /\ \A y \in BuyTxns \ {x} : buying'[y] = buying[y]
    BY <1>n DEF Bought, NotBuying, ProcurementIInv, ProcurementSound
  <1>1. CASE CreatePurchaseRequest
    <2>1. /\ purchaseRequest = "none" /\ purchaseRequest' = "draft"
          /\ UNCHANGED <<order, receipt, buying, reopened>>
      BY <1>1 DEF CreatePurchaseRequest
    <2> QED  BY <2>1 DEF ProcurementIInv, ProcurementSound, BuyingSound, OrdersApart,
                ConvertedOnce, RequestedOrders
  <1>2. ASSUME NEW x \in BuyTxns, SubmitRequestRead(x) \/ DecideRequestRead(x)
        PROVE  ProcurementIInv'
    <2> DEFINE submit == [op |-> "submit", seen |-> purchaseRequest]
               decide == [op |-> "decide", seen |-> purchaseRequest]
    <2>1. PICK what \in {submit, decide} : Buy(x, what) /\ BuyingSound(what)
             /\ what.op # "order"
      BY <1>2 DEF SubmitRequestRead, DecideRequestRead, BuyingSound
    <2>2. UNCHANGED <<purchaseRequest, order, receipt, reopened>>
      BY <1>2 DEF SubmitRequestRead, DecideRequestRead
    <2>3. ProcurementSound' /\ OrdersApart' /\ RequestedOrders' = RequestedOrders
      BY <2>1, <2>2, BuyingStep
    <2> QED  BY <2>2, <2>3 DEF ProcurementIInv, ConvertedOnce
  <1>3. ASSUME NEW x \in BuyTxns, NEW approve \in BOOLEAN,
               SubmitRequestWrite(x) \/ DecideRequestWrite(x, approve)
        PROVE  ProcurementIInv'
    <2>1. /\ Bought(x) /\ purchaseRequest' # "converted" /\ UNCHANGED <<order, receipt>>
          /\ ~reopened' => ~reopened /\ purchaseRequest # "converted"
      BY <1>3 DEF SubmitRequestWrite, DecideRequestWrite, ProcurementIInv, ProcurementSound,
         BuyingSound
    <2>2. ProcurementSound' /\ OrdersApart' /\ RequestedOrders' = RequestedOrders
      BY <2>1, BuyingStep
    <2> QED  BY <2>1, <2>2 DEF ProcurementIInv, ConvertedOnce
  <1>4. ASSUME NEW x \in BuyTxns, NEW o \in Orders, NEW requested \in BOOLEAN,
               CreateOrderRead(x, o, requested)
        PROVE  ProcurementIInv'
    <2> DEFINE what == [op |-> "order", order |-> o, requested |-> requested, seen |-> purchaseRequest]
    <2>1. /\ Buy(x, what) /\ UNCHANGED <<purchaseRequest, order, receipt, reopened>>
          /\ order[o].status = "none" /\ (requested => purchaseRequest = "approved")
          /\ \A y \in BuyTxns : buying[y].op = "order" => buying[y].order # o
      BY <1>4 DEF CreateOrderRead
    <2>2. BuyingSound(what) /\ what.order = o
      BY <2>1 DEF BuyingSound
    <2> HIDE DEF what
    <2>3. ProcurementSound' /\ OrdersApart' /\ RequestedOrders' = RequestedOrders
      BY <2>1, <2>2, BuyingStep
    <2> QED  BY <2>1, <2>3 DEF ProcurementIInv, ConvertedOnce
  <1>5. ASSUME NEW x \in BuyTxns, CreateOrderWrite(x)
        PROVE  ProcurementIInv'
    <2> DEFINE o == buying[x].order
               requested == buying[x].requested
               row == [status |-> "draft", requested |-> requested, received |-> 0]
    <2>1. /\ o \in Orders /\ order[o].status = "none" /\ ~order[o].requested
          /\ requested \in BOOLEAN /\ (requested => buying[x].seen = "approved")
          /\ buying[x].op = "order"
      BY <1>5 DEF CreateOrderWrite, ProcurementIInv, ProcurementSound, BuyingSound
    <2>2. /\ Bought(x) /\ order' = [order EXCEPT ![o] = row] /\ UNCHANGED receipt
          /\ purchaseRequest' = IF requested THEN "converted" ELSE purchaseRequest
          /\ ~reopened' => ~reopened /\ (requested => purchaseRequest = buying[x].seen)
      BY <1>5 DEF CreateOrderWrite
    <2>3. /\ row.status = "draft" /\ row.requested = requested
          /\ DOMAIN row = {"status", "requested", "received"}
      OBVIOUS
    <2> HIDE DEF o, requested, row
    <2>4. ProcurementSound'
      <3>1. \A p \in Orders \ {o} : order'[p] = order[p]
        BY <2>2 DEF ProcurementIInv, ProcurementSound
      <3>2. order'[o] = row /\ DOMAIN order' = Orders
        BY <2>1, <2>2 DEF ProcurementIInv, ProcurementSound
      <3>3. ASSUME NEW y \in BuyTxns
            PROVE  BuyingSound(buying[y])'
        <4>1. CASE y = x
          BY <1>n, <2>2, <4>1 DEF BuyingSound
        <4>2. CASE y # x
          <5>1. buying'[y] = buying[y] /\ BuyingSound(buying[y])
            BY <1>n, <2>2, <4>2 DEF ProcurementIInv, ProcurementSound
          <5>2. buying[y].op = "order" => buying[y].order # o
            BY <2>1, <4>2 DEF ProcurementIInv, OrdersApart, o
          <5> QED  BY <2>2, <2>3, <3>1, <3>2, <5>1, <5>2 DEF BuyingSound
        <4> QED  BY <4>1, <4>2
      <3>4. ASSUME NEW g \in Receipts, receipt'[g].status # "none"
            PROVE  receipt'[g].order \in Orders /\ order'[receipt'[g].order].status # "none"
        BY <2>2, <2>3, <3>1, <3>2, <3>4 DEF ProcurementIInv, ProcurementSound
      <3> QED
        BY <1>n, <2>1, <2>2, <2>3, <3>1, <3>2, <3>3, <3>4 DEF ProcurementIInv, ProcurementSound
    <2>5. OrdersApart'
      BY <1>n, <2>2 DEF ProcurementIInv, OrdersApart
    <2>6. RequestedOrders' = IF requested THEN RequestedOrders \cup {o} ELSE RequestedOrders
      BY <2>1, <2>2, <2>3 DEF RequestedOrders, ProcurementIInv, ProcurementSound
    <2>7. ~reopened' => ConvertedOnce'
      BY <2>1, <2>2, <2>6 DEF ConvertedOnce, ProcurementIInv
    <2> QED  BY <2>4, <2>5, <2>7 DEF ProcurementIInv
  <1>6. ASSUME NEW x \in BuyTxns, NEW o \in Orders, IssueOrderRead(x, o)
        PROVE  ProcurementIInv'
    <2> DEFINE what == [op |-> "issue", order |-> o, seen |-> order[o].status]
    <2>1. /\ Buy(x, what) /\ BuyingSound(what) /\ what.op # "order"
          /\ UNCHANGED <<purchaseRequest, order, receipt, reopened>>
      BY <1>6 DEF IssueOrderRead, BuyingSound
    <2> HIDE DEF what
    <2>2. ProcurementSound' /\ OrdersApart' /\ RequestedOrders' = RequestedOrders
      BY <2>1, BuyingStep
    <2> QED  BY <2>1, <2>2 DEF ProcurementIInv, ConvertedOnce
  <1>7. ASSUME NEW x \in BuyTxns, NEW o \in Orders, NEW qty \in 1..QtyOrdered,
               CreateReceiptRead(x, o, qty)
        PROVE  ProcurementIInv'
    <2> DEFINE what == [op |-> "receive", order |-> o, qty |-> qty]
    <2>1. /\ Buy(x, what) /\ BuyingSound(what) /\ what.op # "order"
          /\ UNCHANGED <<purchaseRequest, order, receipt, reopened>>
      BY <1>7 DEF CreateReceiptRead, BuyingSound
    <2> HIDE DEF what
    <2>2. ProcurementSound' /\ OrdersApart' /\ RequestedOrders' = RequestedOrders
      BY <2>1, BuyingStep
    <2> QED  BY <2>1, <2>2 DEF ProcurementIInv, ConvertedOnce
  <1>8. ASSUME NEW x \in BuyTxns, NEW g \in Receipts, PostReceiptRead(x, g)
        PROVE  ProcurementIInv'
    <2> DEFINE what == [op |-> "post", receipt |-> g, seen |-> receipt[g].status]
    <2>1. /\ Buy(x, what) /\ BuyingSound(what) /\ what.op # "order"
          /\ UNCHANGED <<purchaseRequest, order, receipt, reopened>>
      BY <1>8 DEF PostReceiptRead, BuyingSound
    <2> HIDE DEF what
    <2>2. ProcurementSound' /\ OrdersApart' /\ RequestedOrders' = RequestedOrders
      BY <2>1, BuyingStep
    <2> QED  BY <2>1, <2>2 DEF ProcurementIInv, ConvertedOnce
  <1>9. ASSUME NEW x \in BuyTxns, NEW inJournal \in BOOLEAN, PostReceiptFails(x, inJournal)
        PROVE  ProcurementIInv'
    <2>1. Bought(x) /\ UNCHANGED <<purchaseRequest, order, receipt, reopened>>
      BY <1>9 DEF PostReceiptFails
    <2>2. ProcurementSound' /\ OrdersApart' /\ RequestedOrders' = RequestedOrders
      BY <2>1, BuyingStep
    <2> QED  BY <2>1, <2>2 DEF ProcurementIInv, ConvertedOnce
  \* An order that is there gets another status; a receipt is written for it.
  <1>10. ASSUME NEW x \in BuyTxns, NEW o \in Orders, Bought(x), order[o].status # "none",
                DOMAIN order' = Orders, \A p \in Orders \ {o} : order'[p] = order[p],
                order'[o].status # "none", order'[o].requested = order[o].requested,
                DOMAIN order'[o] = DOMAIN order[o],
                DOMAIN receipt' = Receipts,
                \A g \in Receipts :
                    /\ DOMAIN receipt'[g] = DOMAIN receipt[g]
                    /\ receipt[g].status # "none" => receipt'[g].status # "none"
                    /\ receipt'[g].status # "none" =>
                           receipt'[g].order \in Orders
                              /\ order[receipt'[g].order].status # "none",
                UNCHANGED purchaseRequest, reopened => reopened'
         PROVE  ProcurementIInv'
    <2>1. ASSUME NEW y \in BuyTxns
          PROVE  BuyingSound(buying[y])'
      <3>1. CASE y = x
        BY <1>n, <1>10, <3>1 DEF BuyingSound
      <3>2. CASE y # x
        <4>1. buying'[y] = buying[y] /\ BuyingSound(buying[y])
          BY <1>n, <1>10, <3>2 DEF ProcurementIInv, ProcurementSound
        <4> QED  BY <1>10, <4>1 DEF BuyingSound
      <3> QED  BY <3>1, <3>2
    <2>2. ASSUME NEW p \in Orders
          PROVE  /\ DOMAIN order'[p] = DOMAIN order[p]
                       /\ order'[p].requested = order[p].requested
                 /\ order'[p].status = "none" <=> order[p].status = "none"
      BY <1>10
    <2>3. ProcurementSound'
      BY <1>n, <1>10, <2>1, <2>2 DEF ProcurementIInv, ProcurementSound
    <2>4. OrdersApart'
      BY <1>n, <1>10 DEF ProcurementIInv, OrdersApart
    <2>5. RequestedOrders' = RequestedOrders
      BY <2>2 DEF RequestedOrders
    <2> QED  BY <1>10, <2>3, <2>4, <2>5 DEF ProcurementIInv, ConvertedOnce
  <1>11. ASSUME NEW x \in BuyTxns, IssueOrderWrite(x)
         PROVE  ProcurementIInv'
    <2> DEFINE o == buying[x].order
    <2>1. o \in Orders /\ order[o].status # "none"
      BY <1>11 DEF IssueOrderWrite, ProcurementIInv, ProcurementSound, BuyingSound
    <2>2. /\ Bought(x) /\ order' = [order EXCEPT ![o].status = "issued"]
          /\ UNCHANGED <<purchaseRequest, receipt>> /\ (reopened => reopened')
      BY <1>11 DEF IssueOrderWrite
    <2> HIDE DEF o
    <2>3. /\ DOMAIN order' = Orders /\ (\A p \in Orders \ {o} : order'[p] = order[p])
          /\ order'[o].status # "none" /\ order'[o].requested = order[o].requested
          /\ DOMAIN order'[o] = DOMAIN order[o]
      BY <2>1, <2>2 DEF ProcurementIInv, ProcurementSound
    <2>4. /\ DOMAIN receipt' = Receipts
          /\ \A g \in Receipts :
                /\ DOMAIN receipt'[g] = DOMAIN receipt[g]
                /\ receipt[g].status # "none" => receipt'[g].status # "none"
                /\ receipt'[g].status # "none" =>
                       receipt'[g].order \in Orders /\ order[receipt'[g].order].status # "none"
      BY <2>2 DEF ProcurementIInv, ProcurementSound
    <2> QED  BY <1>10, <2>1, <2>2, <2>3, <2>4
  <1>12. ASSUME NEW x \in BuyTxns, NEW g \in Receipts, CreateReceiptWrite(x, g)
         PROVE  ProcurementIInv'
    <2> DEFINE o == buying[x].order
               row == [status |-> "draft", order |-> o, qty |-> buying[x].qty]
    <2>1. o \in Orders /\ order[o].status # "none"
      BY <1>12 DEF CreateReceiptWrite, ProcurementIInv, ProcurementSound, BuyingSound
    <2>2. /\ Bought(x) /\ receipt[g].status = "none" /\ receipt' = [receipt EXCEPT ![g] = row]
          /\ UNCHANGED <<purchaseRequest, order, reopened>>
      BY <1>12 DEF CreateReceiptWrite
    <2>3. row.status = "draft" /\ row.order = o /\ DOMAIN row = {"status", "order", "qty"}
      OBVIOUS
    <2> HIDE DEF o, row
    <2>4. /\ DOMAIN receipt' = Receipts
          /\ \A h \in Receipts :
                /\ DOMAIN receipt'[h] = DOMAIN receipt[h]
                /\ receipt[h].status # "none" => receipt'[h].status # "none"
                /\ receipt'[h].status # "none" =>
                       receipt'[h].order \in Orders /\ order[receipt'[h].order].status # "none"
      BY <2>1, <2>2, <2>3 DEF ProcurementIInv, ProcurementSound
    <2>5. ProcurementSound'
      <3>1. ASSUME NEW y \in BuyTxns
            PROVE  BuyingSound(buying[y])'
        <4>1. CASE y = x
          BY <1>n, <2>2, <4>1 DEF BuyingSound
        <4>2. CASE y # x
          <5>1. buying'[y] = buying[y] /\ BuyingSound(buying[y])
            BY <1>n, <2>2, <4>2 DEF ProcurementIInv, ProcurementSound
          <5> QED  BY <2>2, <2>4, <5>1 DEF BuyingSound
        <4> QED  BY <4>1, <4>2
      <3> QED  BY <1>n, <2>2, <2>4, <3>1 DEF ProcurementIInv, ProcurementSound
    <2>6. OrdersApart' /\ (~reopened' => ConvertedOnce')
      BY <1>n, <2>2 DEF ProcurementIInv, OrdersApart, ConvertedOnce, RequestedOrders
    <2> QED  BY <2>5, <2>6 DEF ProcurementIInv
  <1>13. ASSUME NEW x \in BuyTxns, PostReceiptWrite(x)
         PROVE  ProcurementIInv'
    <2> DEFINE g == buying[x].receipt
               o == receipt[g].order
               arrived == order[o].received + receipt[g].qty
               status == IF arrived >= QtyOrdered THEN "received" ELSE "partially_received"
    <2>1. /\ g \in Receipts /\ receipt[g].status # "none" /\ o \in Orders
                /\ order[o].status # "none"
      BY <1>13 DEF PostReceiptWrite, ProcurementIInv, ProcurementSound, BuyingSound
    <2>2. /\ Bought(x)
          /\ order' = [order EXCEPT ![o].received = arrived, ![o].status = status]
          /\ receipt' = [receipt EXCEPT ![g].status = "posted"]
          /\ UNCHANGED <<purchaseRequest, reopened>>
      BY <1>13 DEF PostReceiptWrite
    <2>3. status # "none"
      OBVIOUS
    <2> HIDE DEF g, o, arrived, status
    <2>4. /\ DOMAIN order' = Orders /\ (\A p \in Orders \ {o} : order'[p] = order[p])
          /\ order'[o].status # "none" /\ order'[o].requested = order[o].requested
          /\ DOMAIN order'[o] = DOMAIN order[o]
      BY <2>1, <2>2, <2>3 DEF ProcurementIInv, ProcurementSound
    <2>5. /\ DOMAIN receipt' = Receipts
          /\ \A h \in Receipts :
                /\ DOMAIN receipt'[h] = DOMAIN receipt[h]
                /\ receipt[h].status # "none" => receipt'[h].status # "none"
                /\ receipt'[h].status # "none" =>
                       receipt'[h].order \in Orders /\ order[receipt'[h].order].status # "none"
      BY <2>1, <2>2 DEF ProcurementIInv, ProcurementSound
    <2> QED  BY <1>10, <2>1, <2>2, <2>4, <2>5
  <1> QED
    BY <1>1, <1>2, <1>3, <1>4, <1>5, <1>6, <1>7, <1>8, <1>9, <1>11, <1>12, <1>13
    DEF ProcurementNext

\* Before the first request the invariant holds, and a step elsewhere leaves it.
LEMMA ProcurementStarts == ProcurementInit => ProcurementIInv
  <1> SUFFICES ASSUME ProcurementInit
               PROVE  ProcurementIInv
    OBVIOUS
  <1>1. \A x \in BuyTxns : buying[x].op = "idle"
    BY DEF ProcurementInit, NotBuying
  <1>2. /\ \A o \in Orders : /\ DOMAIN order[o] = {"status", "requested", "received"}
                            /\ order[o].requested = FALSE
        /\ \A g \in Receipts : /\ DOMAIN receipt[g] = {"status", "order", "qty"}
                              /\ receipt[g].status = "none"
    BY DEF ProcurementInit
  <1>3. ProcurementSound
    BY <1>1, <1>2 DEF ProcurementInit, ProcurementSound, BuyingSound
  <1>4. OrdersApart /\ ConvertedOnce
    BY <1>1, <1>2 DEF ProcurementInit, OrdersApart, ConvertedOnce, RequestedOrders
  <1> QED  BY <1>3, <1>4 DEF ProcurementIInv

\* A step elsewhere leaves it.
LEMMA ProcurementIdle == ProcurementIInv /\ UNCHANGED procurementVars => ProcurementIInv'
  BY DEF procurementVars, ProcurementIInv, ProcurementSound, BuyingSound, OrdersApart,
     ConvertedOnce, RequestedOrders

\* The invariant counts the orders of a request.
LEMMA RequestConverted == ProcurementIInv => RequestConvertedOnce
  BY FS_EmptySet, FS_Singleton DEF ProcurementIInv, ConvertedOnce, RequestedOrders,
     RequestConvertedOnce

\* An order that has been issued has left the statuses it starts with for good.
Issued(o) == o \in Orders /\ order[o].status \notin {"none", "draft"}

\* What a request that is being handled has read of the order it receives goods
\* for, of the order it issues and of the receipt it posts.
ReceivingSound(w) ==
    /\ w.op = "issue" => w.seen = "draft"
    /\ w.op = "receive" => Issued(w.order) /\ w.qty \in Nat
    /\ w.op = "post" => w.seen = "draft"

ReceiptsSound ==
    /\ \A o \in Orders : order[o].received \in Nat
    /\ \A g \in Receipts : /\ receipt[g].qty \in Nat
                           /\ receipt[g].status # "none" => Issued(receipt[g].order)
    /\ \A x \in BuyTxns : ReceivingSound(buying[x])

ReceivedIInv == ReceiptsSound /\ ReceivedMatchesReceipts

\* The quantity of receipts that stay posted stays; no receipts bring nothing,
\* and one more brings its quantity.
LEMMA PostedStays ==
    ASSUME NEW o \in Orders, PostedFor(o)' = PostedFor(o),
           \A g \in PostedFor(o) : receipt'[g].qty = receipt[g].qty
    PROVE  PostedQty(o)' = PostedQty(o)
  <1> DEFINE F == [g \in PostedFor(o) |-> receipt[g].qty]
  <1>1. [g \in PostedFor(o)' |-> receipt'[g].qty] = F
    OBVIOUS
  <1>2. PostedQty(o)' = SumFunction([g \in PostedFor(o)' |-> receipt'[g].qty])
    BY DEF PostedQty
  <1> QED  BY <1>1, <1>2 DEF PostedQty

\* An order without posted receipts has received nothing.
LEMMA PostedNothing == ASSUME NEW o \in Orders, PostedFor(o) = {} PROVE PostedQty(o) = 0
  <1>1. DOMAIN [g \in PostedFor(o) |-> receipt[g].qty] = {}
    OBVIOUS
  <1> QED  BY <1>1, SumEmpty DEF PostedQty, SumFunction

\* A receipt that is posted adds its quantity.
LEMMA PostedOneMore ==
    ASSUME ReceiptsSound, NEW o \in Orders, NEW g \in Receipts \ PostedFor(o),
           PostedFor(o)' = PostedFor(o) \cup {g},
           \A h \in Receipts : receipt'[h].qty = receipt[h].qty
    PROVE  PostedQty(o)' = PostedQty(o) + receipt[g].qty
  <1> DEFINE S == PostedFor(o)
             F == [h \in S |-> receipt[h].qty]
             G == [h \in S \cup {g} |-> receipt[h].qty]
  <1>1. S \subseteq Receipts /\ IsFiniteSet(S) /\ g \notin S
    BY ProcurementAssumption, FS_Subset DEF PostedFor
  <1>2. \A h \in Receipts : receipt[h].qty \in Nat
    BY DEF ReceiptsSound
  <1>3. PostedQty(o) = SumFunctionOnSet(F, S)
    BY DEF PostedQty, SumFunction
  <1>4. PostedQty(o)' = SumFunctionOnSet(G, S \cup {g})
    <2>1. [h \in PostedFor(o)' |-> receipt'[h].qty] = G
      BY <1>1
    <2>2. PostedQty(o)' = SumFunction([h \in PostedFor(o)' |-> receipt'[h].qty])
      BY DEF PostedQty
    <2> QED  BY <2>1, <2>2 DEF SumFunction
  <1>5. /\ G[g] = receipt[g].qty /\ G[g] \in Int
        /\ \A h \in S : F[h] \in Int /\ G[h] = F[h]
    BY <1>1, <1>2
  <1> HIDE DEF S, F, G
  <1>6. SumFunctionOnSet(G, S \cup {g}) = G[g] + SumFunctionOnSet(F, S)
    BY <1>1, <1>5, SumInsert
  <1>7. SumFunctionOnSet(F, S) \in Int
    BY <1>1, <1>5, SumType
  <1> QED  BY <1>2, <1>3, <1>4, <1>5, <1>6, <1>7

\* A step that leaves the orders, the receipts and their movements, where a
\* request starts, ends or goes on.
LEMMA ReceivedStays ==
    ASSUME ProcurementIInv, ReceivedIInv, NEW x \in BuyTxns, NEW what,
           (Buy(x, what) /\ ReceivingSound(what)) \/ Bought(x),
           UNCHANGED <<order, receipt, movedFor, twicePosted>>,
           receiptJournal \subseteq receiptJournal', reopened => reopened'
    PROVE  ReceivedIInv'
  <1>1. \A y \in BuyTxns : \/ buying'[y] = buying[y]
                           \/ buying'[y] = what /\ ReceivingSound(what)
                           \/ buying'[y].op = "idle"
    BY DEF Buy, Bought, NotBuying, ProcurementIInv, ProcurementSound
  <1>2. ReceiptsSound'
    BY <1>1 DEF ReceivedIInv, ReceiptsSound, ReceivingSound, Issued
  <1>3. \A o \in Orders : PostedQty(o)' = PostedQty(o)
    BY PostedStays DEF PostedFor
  <1>4. ReceivedMatchesReceipts'
    BY <1>3 DEF ReceivedIInv, ReceivedMatchesReceipts
  <1> QED  BY <1>2, <1>4 DEF ReceivedIInv

\* Every step of procurement keeps what was received in line with the receipts.
LEMMA ReceivedStep ==
    ASSUME ProcurementIInv, ReceivedIInv, ProcurementNext
    PROVE  ReceivedIInv'
  <1>n. ASSUME NEW x \in BuyTxns, Bought(x)
        PROVE  /\ DOMAIN buying' = BuyTxns /\ buying'[x].op = "idle"
               /\ \A y \in BuyTxns \ {x} : buying'[y] = buying[y]
    BY <1>n DEF Bought, NotBuying, ProcurementIInv, ProcurementSound
  <1>1. CASE CreatePurchaseRequest
    <2>1. UNCHANGED <<order, receipt, buying, movedFor, receiptJournal, twicePosted, reopened>>
      BY <1>1 DEF CreatePurchaseRequest, stockAndLedger
    <2>2. \A o \in Orders : PostedQty(o)' = PostedQty(o)
      BY <2>1, PostedStays DEF PostedFor
    <2> QED
      BY <2>1, <2>2 DEF ReceivedIInv, ReceiptsSound, ReceivingSound, Issued,
         ReceivedMatchesReceipts
  <1>2. ASSUME NEW x \in BuyTxns, NEW b \in BOOLEAN,
               \/ SubmitRequestWrite(x) \/ DecideRequestWrite(x, b) \/ PostReceiptFails(x, b)
        PROVE  ReceivedIInv'
    <2>1. Bought(x) /\ UNCHANGED <<order, receipt, movedFor, twicePosted>>
      BY <1>2 DEF SubmitRequestWrite, DecideRequestWrite, PostReceiptFails, stockAndLedger
    <2>2. receiptJournal \subseteq receiptJournal'
      BY <1>2 DEF SubmitRequestWrite, DecideRequestWrite, PostReceiptFails, stockAndLedger
    <2>3. reopened => reopened'
      BY <1>2 DEF SubmitRequestWrite, DecideRequestWrite, PostReceiptFails
    <2> QED  BY <2>1, <2>2, <2>3, ReceivedStays
  <1>3. ASSUME NEW x \in BuyTxns, SubmitRequestRead(x) \/ DecideRequestRead(x)
        PROVE  ReceivedIInv'
    <2>1. PICK what \in {[op |-> "submit", seen |-> purchaseRequest], [op |-> "decide", seen |-> purchaseRequest]} :
             Buy(x, what)
      BY <1>3 DEF SubmitRequestRead, DecideRequestRead
    <2>2. ReceivingSound(what)
      BY DEF ReceivingSound
    <2>3. UNCHANGED <<order, receipt, movedFor, receiptJournal, twicePosted, reopened>>
      BY <1>3 DEF SubmitRequestRead, DecideRequestRead, stockAndLedger
    <2> QED  BY <2>1, <2>2, <2>3, ReceivedStays
  <1>4. ASSUME NEW x \in BuyTxns, NEW o \in Orders, NEW requested \in BOOLEAN,
               CreateOrderRead(x, o, requested)
        PROVE  ReceivedIInv'
    <2> DEFINE what == [op |-> "order", order |-> o, requested |-> requested, seen |-> purchaseRequest]
    <2>1. /\ Buy(x, what) /\ ReceivingSound(what)
          /\ UNCHANGED <<order, receipt, movedFor, receiptJournal, twicePosted, reopened>>
      BY <1>4 DEF CreateOrderRead, ReceivingSound, stockAndLedger
    <2> HIDE DEF what
    <2> QED  BY <2>1, ReceivedStays
  <1>5. ASSUME NEW x \in BuyTxns, NEW o \in Orders, IssueOrderRead(x, o)
        PROVE  ReceivedIInv'
    <2> DEFINE what == [op |-> "issue", order |-> o, seen |-> order[o].status]
    <2>1. /\ Buy(x, what) /\ ReceivingSound(what)
          /\ UNCHANGED <<order, receipt, movedFor, receiptJournal, twicePosted, reopened>>
      BY <1>5 DEF IssueOrderRead, ReceivingSound, stockAndLedger
    <2> HIDE DEF what
    <2> QED  BY <2>1, ReceivedStays
  <1>6. ASSUME NEW x \in BuyTxns, NEW o \in Orders, NEW qty \in 1..QtyOrdered,
               CreateReceiptRead(x, o, qty)
        PROVE  ReceivedIInv'
    <2> DEFINE what == [op |-> "receive", order |-> o, qty |-> qty]
    <2>1. /\ Buy(x, what)
          /\ UNCHANGED <<order, receipt, movedFor, receiptJournal, twicePosted, reopened>>
      BY <1>6 DEF CreateReceiptRead, stockAndLedger
    <2>2. qty \in Nat
      BY ProcurementAssumption
    <2>3. ReceivingSound(what)
      BY <1>6, <2>2 DEF CreateReceiptRead, ReceivingSound, Issued
    <2> HIDE DEF what
    <2> QED  BY <2>1, <2>3, ReceivedStays
  <1>7. ASSUME NEW x \in BuyTxns, NEW g \in Receipts, PostReceiptRead(x, g)
        PROVE  ReceivedIInv'
    <2> DEFINE what == [op |-> "post", receipt |-> g, seen |-> receipt[g].status]
    <2>1. /\ Buy(x, what) /\ ReceivingSound(what)
          /\ UNCHANGED <<order, receipt, movedFor, receiptJournal, twicePosted, reopened>>
      BY <1>7 DEF PostReceiptRead, ReceivingSound, stockAndLedger
    <2> HIDE DEF what
    <2> QED  BY <2>1, ReceivedStays
  \* An order's row is written while the receipts and the stock stay.
  <1>8. ASSUME NEW x \in BuyTxns, NEW o \in Orders, Bought(x),
               UNCHANGED <<receipt, movedFor, receiptJournal, twicePosted>>, reopened =>
                  reopened',
               \A p \in Orders \ {o} : order'[p] = order[p],
               order'[o].received \in Nat, Issued(o) =>
                  order'[o].status \notin {"none", "draft"},
               twicePosted = {} =>
                   /\ order'[o].received = PostedQty(o)
                   /\ ~reopened' =>
                         (order'[o].status = "received" <=> order'[o].received >= QtyOrdered)
        PROVE  ReceivedIInv'
    <2>1. \A p : Issued(p) => Issued(p)'
      BY <1>8 DEF Issued
    <2>2. \A y \in BuyTxns : buying'[y] = buying[y] \/ buying'[y].op = "idle"
      BY <1>8, <1>n
    <2>3. \A y \in BuyTxns : ReceivingSound(buying[y])'
      BY <2>1, <2>2 DEF ReceivedIInv, ReceiptsSound, ReceivingSound
    <2>4. ReceiptsSound'
      BY <1>8, <2>1, <2>3 DEF ReceivedIInv, ReceiptsSound
    <2>5. \A p \in Orders : PostedQty(p)' = PostedQty(p)
      BY <1>8, PostedStays DEF PostedFor
    <2>6. ReceivedMatchesReceipts'
      BY <1>8, <2>5 DEF ReceivedIInv, ReceivedMatchesReceipts
    <2> QED  BY <2>4, <2>6 DEF ReceivedIInv
  <1>9. ASSUME NEW o \in Orders, ~Issued(o)
        PROVE  PostedQty(o) = 0
    <2>1. PostedFor(o) = {}
      BY <1>9 DEF PostedFor, ReceivedIInv, ReceiptsSound
    <2> QED  BY <2>1, PostedNothing
  <1>10. ASSUME NEW x \in BuyTxns, CreateOrderWrite(x)
         PROVE  ReceivedIInv'
    <2>1. PICK o \in Orders : o = buying[x].order /\ order[o].status = "none"
      BY <1>10 DEF CreateOrderWrite, ProcurementIInv, ProcurementSound, BuyingSound
    <2> DEFINE row == [status |-> "draft", requested |-> buying[x].requested, received |-> 0]
    <2>2. /\ order' = [order EXCEPT ![o] = row] /\ Bought(x) /\ (reopened => reopened')
          /\ UNCHANGED <<receipt, movedFor, receiptJournal, twicePosted>>
      BY <1>10, <2>1 DEF CreateOrderWrite, stockAndLedger
    <2>3. row.status = "draft" /\ row.received = 0
      OBVIOUS
    <2> HIDE DEF row
    <2>4. (\A p \in Orders \ {o} : order'[p] = order[p]) /\ order'[o] = row
      BY <2>2 DEF ProcurementIInv, ProcurementSound
    <2>5. ~Issued(o) /\ PostedQty(o) = 0
      BY <1>9, <2>1 DEF Issued
    <2>6. ~(0 >= QtyOrdered)
      BY ProcurementAssumption
    <2> QED  BY <2>2, <2>3, <2>4, <2>5, <2>6, <1>8
  <1>11. ASSUME NEW x \in BuyTxns, IssueOrderWrite(x)
         PROVE  ReceivedIInv'
    <2>1. PICK o \in Orders : o = buying[x].order /\ buying[x].seen = "draft"
      BY <1>11 DEF IssueOrderWrite, ProcurementIInv, ProcurementSound, BuyingSound,
         ReceivedIInv, ReceiptsSound, ReceivingSound
    <2>2. /\ order' = [order EXCEPT ![o].status = "issued"] /\ Bought(x)
          /\ (reopened => reopened') /\ (~reopened' => order[o].status = "draft")
          /\ UNCHANGED <<receipt, movedFor, receiptJournal, twicePosted>>
      BY <1>11, <2>1 DEF IssueOrderWrite, stockAndLedger
    <2>3. /\ \A p \in Orders \ {o} : order'[p] = order[p]
          /\ order'[o].status = "issued" /\ order'[o].received = order[o].received
      BY <2>2 DEF ProcurementIInv, ProcurementSound
    <2>4. /\ order[o].received \in Nat
          /\ twicePosted = {} => order[o].received = PostedQty(o)
      BY DEF ReceivedIInv, ReceiptsSound, ReceivedMatchesReceipts
    <2>5. ~reopened' => PostedQty(o) = 0
      BY <1>9, <2>2 DEF Issued
    <2>6. ~(0 >= QtyOrdered)
      BY ProcurementAssumption
    <2> QED  BY <2>2, <2>3, <2>4, <2>5, <2>6, <1>8
  <1>12. ASSUME NEW x \in BuyTxns, NEW g \in Receipts, CreateReceiptWrite(x, g)
         PROVE  ReceivedIInv'
    <2>1. PICK o \in Orders : o = buying[x].order /\ Issued(o) /\ buying[x].qty \in Nat
      BY <1>12 DEF CreateReceiptWrite, ReceivedIInv, ReceiptsSound, ReceivingSound, Issued
    <2> DEFINE row == [status |-> "draft", order |-> o, qty |-> buying[x].qty]
    <2>2. /\ Bought(x) /\ receipt[g].status = "none" /\ receipt' = [receipt EXCEPT ![g] = row]
          /\ UNCHANGED <<order, movedFor, receiptJournal, twicePosted, reopened>>
      BY <1>12, <2>1 DEF CreateReceiptWrite, stockAndLedger
    <2>3. row.status = "draft" /\ row.order = o /\ row.qty \in Nat
      BY <2>1
    <2> HIDE DEF row
    <2>4. receipt'[g] = row /\ \A h \in Receipts \ {g} : receipt'[h] = receipt[h]
      BY <2>2 DEF ProcurementIInv, ProcurementSound
    <2>5. ReceiptsSound'
      <3>1. \A y \in BuyTxns : buying'[y] = buying[y] \/ buying'[y].op = "idle"
        BY <1>n, <2>2
      <3>2. \A p : Issued(p)' = Issued(p)
        BY <2>2 DEF Issued
      <3>3. \A y \in BuyTxns : ReceivingSound(buying[y])'
        BY <3>1, <3>2 DEF ReceivedIInv, ReceiptsSound, ReceivingSound
      <3> QED  BY <2>1, <2>2, <2>3, <2>4, <3>2, <3>3 DEF ReceivedIInv, ReceiptsSound
    <2>6. \A p \in Orders : PostedFor(p)' = PostedFor(p) /\ g \notin PostedFor(p)
      BY <2>2, <2>3, <2>4 DEF PostedFor
    <2>7. \A p \in Orders : PostedQty(p)' = PostedQty(p)
      <3>1. \A p \in Orders : \A h \in PostedFor(p) : receipt'[h].qty = receipt[h].qty
        BY <2>4, <2>6 DEF PostedFor
      <3> QED  BY <2>6, <3>1, PostedStays
    <2>8. ReceivedMatchesReceipts'
      BY <2>2, <2>3, <2>4, <2>7 DEF ReceivedIInv, ReceivedMatchesReceipts
    <2> QED  BY <2>5, <2>8 DEF ReceivedIInv
  <1>13. ASSUME NEW x \in BuyTxns, PostReceiptWrite(x)
         PROVE  ReceivedIInv'
    <2>1. PICK g \in Receipts : /\ g = buying[x].receipt /\ receipt[g].status # "none"
                                /\ buying[x].seen = "draft" /\ Issued(receipt[g].order)
      BY <1>13 DEF PostReceiptWrite, ProcurementIInv, ProcurementSound, BuyingSound,
         ReceivedIInv, ReceiptsSound, ReceivingSound
    <2>2. PICK o \in Orders : o = receipt[g].order
      BY <2>1 DEF Issued
    <2> DEFINE arrived == order[o].received + receipt[g].qty
               status == IF arrived >= QtyOrdered THEN "received" ELSE "partially_received"
    <2>3. /\ Bought(x)
          /\ order' = [order EXCEPT ![o].received = arrived, ![o].status = status]
          /\ receipt' = [receipt EXCEPT ![g].status = "posted"]
          /\ movedFor' = movedFor \cup {g} /\ receiptJournal' = receiptJournal \cup {g}
          /\ twicePosted' = (IF receipt[g].status # "draft" THEN twicePosted \cup {g} ELSE twicePosted)
          /\ UNCHANGED reopened
      BY <1>13, <2>1, <2>2 DEF PostReceiptWrite
    <2>4. /\ order[o].received \in Nat /\ receipt[g].qty \in Nat
          /\ twicePosted = {} => \A p \in Orders :
               /\ order[p].received = PostedQty(p)
               /\ ~reopened =>
                     (order[p].status = "received" <=> order[p].received >= QtyOrdered)
      BY DEF ReceivedIInv, ReceiptsSound, ReceivedMatchesReceipts
    <2>5. /\ arrived \in Nat /\ status \notin {"none", "draft"}
          /\ status = "received" <=> arrived >= QtyOrdered
          /\ arrived = order[o].received + receipt[g].qty
      BY <2>4
    <2> HIDE DEF arrived, status
    <2>6. /\ \A p \in Orders \ {o} : order'[p] = order[p]
          /\ order'[o].received = arrived /\ order'[o].status = status
      BY <2>3 DEF ProcurementIInv, ProcurementSound
    <2>7. /\ \A h \in Receipts : receipt'[h].qty = receipt[h].qty
                /\ receipt'[h].order = receipt[h].order
          /\ \A h \in Receipts \ {g} : receipt'[h] = receipt[h]
          /\ receipt'[g].status = "posted"
      BY <2>3 DEF ProcurementIInv, ProcurementSound
    <2>8. ReceiptsSound'
      <3>1. \A p : Issued(p) => Issued(p)'
        BY <2>5, <2>6 DEF Issued
      <3>2. \A y \in BuyTxns : buying'[y] = buying[y] \/ buying'[y].op = "idle"
        BY <1>n, <2>3
      <3>3. \A y \in BuyTxns : ReceivingSound(buying[y])'
        BY <3>1, <3>2 DEF ReceivedIInv, ReceiptsSound, ReceivingSound
      <3>4. \A p \in Orders : order'[p].received \in Nat
        BY <2>5, <2>6 DEF ReceivedIInv, ReceiptsSound
      <3>5. \A h \in Receipts : /\ receipt'[h].qty \in Nat
                                /\ receipt'[h].status # "none" => Issued(receipt[h].order)'
        BY <2>1, <2>7, <3>1 DEF ReceivedIInv, ReceiptsSound
      <3> QED  BY <3>3, <3>4, <3>5 DEF ReceiptsSound
    <2>9. ASSUME twicePosted' = {}, NEW p \in Orders
          PROVE  order'[p].received = PostedQty(p)'
      <3>1. twicePosted = {} /\ receipt[g].status = "draft"
        BY <2>3, <2>9
      <3>2. CASE p = o
        <4>1. PostedFor(o)' = PostedFor(o) \cup {g} /\ g \notin PostedFor(o)
          BY <2>2, <2>7, <3>1 DEF PostedFor
        <4>2. PostedQty(o)' = PostedQty(o) + receipt[g].qty
          BY <2>7, <4>1, PostedOneMore DEF ReceivedIInv
        <4> QED  BY <2>4, <2>5, <2>6, <3>1, <3>2, <4>2
      <3>3. CASE p # o
        <4>1. PostedFor(p)' = PostedFor(p)
          BY <2>2, <2>7, <3>1, <3>3 DEF PostedFor
        <4>2. \A h \in PostedFor(p) : receipt'[h].qty = receipt[h].qty
          BY <2>7 DEF PostedFor
        <4>3. PostedQty(p)' = PostedQty(p)
          BY <4>1, <4>2, PostedStays
        <4> QED  BY <2>4, <2>6, <3>1, <3>3, <4>3
      <3> QED  BY <3>2, <3>3
    <2>10. ASSUME twicePosted' = {}, NEW p \in Orders, ~reopened'
           PROVE  order'[p].status = "received" <=> order'[p].received >= QtyOrdered
      <3>1. twicePosted = {}
        BY <2>3, <2>10
      <3>2. CASE p = o
        BY <2>5, <2>6, <3>2
      <3>3. CASE p # o
        BY <2>3, <2>4, <2>6, <2>10, <3>1, <3>3
      <3> QED  BY <3>2, <3>3
    <2>11. /\ \A h \in Receipts : receipt'[h].status = "posted" <=> h \in movedFor'
           /\ movedFor' \subseteq receiptJournal'
      BY <2>3, <2>7 DEF ReceivedIInv, ReceivedMatchesReceipts
    <2>12. ReceivedMatchesReceipts'
      BY <2>9, <2>10, <2>11 DEF ReceivedMatchesReceipts
    <2> QED  BY <2>8, <2>12 DEF ReceivedIInv
  <1> QED
    BY <1>1, <1>2, <1>3, <1>4, <1>5, <1>6, <1>7, <1>10, <1>11, <1>12, <1>13 DEF ProcurementNext

\* The initial states satisfy it.
LEMMA ReceivedStarts == ProcurementInit => ReceivedIInv
  <1> SUFFICES ASSUME ProcurementInit
               PROVE  ReceivedIInv
    OBVIOUS
  <1>1. /\ \A o \in Orders : order[o].received = 0 /\ order[o].status = "none"
        /\ \A g \in Receipts : receipt[g].status = "none" /\ receipt[g].qty = 0
        /\ \A x \in BuyTxns : buying[x].op = "idle"
        /\ movedFor = {} /\ receiptJournal = {}
    BY DEF ProcurementInit, NotBuying
  <1>2. \A o \in Orders : PostedQty(o) = 0
    BY <1>1, PostedNothing DEF PostedFor
  <1>3. ReceiptsSound
    BY <1>1 DEF ReceiptsSound, ReceivingSound
  <1>4. ReceivedMatchesReceipts
    BY <1>1, <1>2, ProcurementAssumption DEF ReceivedMatchesReceipts
  <1> QED  BY <1>3, <1>4 DEF ReceivedIInv

\* A step elsewhere leaves it.
LEMMA ReceivedIdle == ReceivedIInv /\ UNCHANGED procurementVars => ReceivedIInv'
  <1> SUFFICES ASSUME ReceivedIInv, UNCHANGED procurementVars
               PROVE  ReceivedIInv'
    OBVIOUS
  <1> USE DEF procurementVars
  <1>1. \A o \in Orders : PostedQty(o)' = PostedQty(o)
    BY PostedStays DEF PostedFor
  <1> QED
    BY <1>1 DEF ReceivedIInv, ReceiptsSound, ReceivingSound, Issued, ReceivedMatchesReceipts

-----------------------------------------------------------------------------
(* Fixed assets *)

\* What a request has read says what it will write: an assignment read the asset
\* in stock, a return read it assigned by an open assignment, and a
\* depreciation stays within what the asset cost.
AssetReadsSound ==
    \A x \in AssetTxns :
        LET w == assetWork[x]
        IN  /\ w.op = "assign" => w.seen = "in_stock"
            /\ w.op = "return" =>
                  w.assignment \in Assignments /\ w.seen = <<"assigned", "open">>
            /\ w.op = "depreciate" => /\ w.amount \in Nat /\ w.seen \in Nat /\ w.amount > 0
                                      /\ w.seen + w.amount <= AcquisitionCost /\ w.asOf \in Nat

\* Exactly one assignment is open while the asset is assigned, none otherwise.
OneHolder == IF asset.status = "assigned" THEN \E a \in Assignments : Open = {a} ELSE Open = {}

AssetsSound ==
    /\ DOMAIN asset = {"status", "salvage", "life", "accumulated", "last"}
    /\ asset.salvage \in Nat /\ asset.life \in Nat \ {0}
    /\ asset.accumulated \in Nat /\ asset.last \in Nat
    /\ asset.accumulated <= AcquisitionCost
    /\ DOMAIN assignment = Assignments /\ DOMAIN assetWork = AssetTxns
    /\ depreciation \in Nat
    /\ asset.accumulated > 0 => depreciation > 0

AssetsIInv == AssetsSound /\ AssetReadsSound /\ (~raced => OneHolder)

\* A depreciation takes at most what is left of the cost.
LEMMA DepreciationBound ==
    ASSUME NEW row, row.accumulated \in Nat, row.salvage \in Nat, row.life \in Nat,
           NEW months \in Int,
           StraightLine(row, months) > 0, row.life > 0
    PROVE  /\ StraightLine(row, months) \in Nat
           /\ row.accumulated + StraightLine(row, months) <= AcquisitionCost
  <1> DEFINE base == AtLeastZero(AcquisitionCost - row.salvage)
             share == RoundedShare(base, row.life)
             raw == months * share
             remaining == AtLeastZero(base - row.accumulated)
  <1>1. base \in Nat /\ base <= AcquisitionCost
    BY FixedAssetsAssumption DEF AtLeastZero
  <1>2. share \in Int
    <2> HIDE DEF base
    <2> QED  BY <1>1 DEF RoundedShare
  <1>3. raw \in Int
    <2> HIDE DEF share
    <2> QED  BY <1>2
  <1>4. remaining \in Nat /\ (remaining > 0 => row.accumulated + remaining <= AcquisitionCost)
    <2> HIDE DEF base
    <2> QED  BY <1>1, FixedAssetsAssumption DEF AtLeastZero
  <1>5. StraightLine(row, months) = IF months <= 0 THEN 0 ELSE IF raw < remaining THEN raw ELSE remaining
    BY DEF StraightLine
  <1> HIDE DEF raw, remaining
  <1> QED  BY <1>3, <1>4, <1>5, FixedAssetsAssumption

\* Every step of the assets keeps the invariant.
LEMMA AssetsStep ==
    ASSUME AssetsIInv, FixedAssetsNext
    PROVE  AssetsIInv'
  <1>n. ASSUME NEW x \in AssetTxns, NEW what, Work(x, what) \/ Worked(x)
        PROVE  /\ DOMAIN assetWork' = AssetTxns
               /\ \A y \in AssetTxns \ {x} : assetWork'[y] = assetWork[y]
               /\ Work(x, what) => assetWork'[x] = what
               /\ Worked(x) => assetWork'[x].op = "idle"
    BY <1>n DEF Work, Worked, NotWorking, AssetsIInv, AssetsSound
  <1>1. ASSUME NEW salvage \in Salvages, NEW life \in UsefulLives,
               CreateAsset(salvage, life) \/ UpdateAsset(salvage, life)
        PROVE  AssetsIInv'
    <2>1. /\ asset'.salvage = salvage /\ asset'.life = life
          /\ asset'.accumulated = asset.accumulated /\ asset'.last = asset.last
                /\ DOMAIN asset' = DOMAIN asset
          /\ asset'.status = asset.status
                \/ (asset.status = "none" /\ asset'.status = "in_stock")
          /\ UNCHANGED <<assignment, depreciation, assetWork, raced>>
      BY <1>1 DEF CreateAsset, UpdateAsset, AssetsIInv, AssetsSound
    <2>2. AssetsSound'
      BY <2>1, FixedAssetsAssumption DEF AssetsIInv, AssetsSound
    <2>3. AssetReadsSound' /\ (~raced' => OneHolder')
      BY <2>1 DEF AssetsIInv, AssetReadsSound, OneHolder, Open
    <2> QED  BY <2>2, <2>3 DEF AssetsIInv
  <1>2. ASSUME NEW x \in AssetTxns, AssignAssetRead(x)
        PROVE  AssetsIInv'
    <2> DEFINE what == [op |-> "assign", seen |-> asset.status]
    <2>1. /\ Work(x, what) /\ what.op = "assign" /\ what.seen = "in_stock"
          /\ UNCHANGED <<asset, assignment, depreciation, raced>>
      BY <1>2 DEF AssignAssetRead
    <2> HIDE DEF what
    <2>2. AssetsSound' /\ AssetReadsSound' /\ (~raced' => OneHolder')
      BY <1>n, <2>1 DEF AssetsIInv, AssetsSound, AssetReadsSound, OneHolder, Open
    <2> QED  BY <2>2 DEF AssetsIInv
  <1>3. ASSUME NEW x \in AssetTxns, NEW a \in Assignments, AssignAssetWrite(x, a)
        PROVE  AssetsIInv'
    <2>1. /\ Worked(x) /\ assignment[a] = "none"
                /\ assignment' = [assignment EXCEPT ![a] = "open"]
          /\ asset'.status = "assigned" /\ asset'.salvage = asset.salvage
                /\ asset'.life = asset.life
          /\ asset'.accumulated = asset.accumulated /\ asset'.last = asset.last
                /\ DOMAIN asset' = DOMAIN asset
          /\ ~raced' => ~raced /\ asset.status = "in_stock"
          /\ UNCHANGED depreciation
      BY <1>3 DEF AssignAssetWrite, AssetsIInv, AssetsSound, AssetReadsSound
    <2>2. AssetsSound' /\ AssetReadsSound'
      BY <1>n, <2>1 DEF AssetsIInv, AssetsSound, AssetReadsSound
    <2>3. Open' = Open \cup {a}
      BY <2>1 DEF Open, AssetsIInv, AssetsSound
    <2>4. ~raced' => OneHolder'
      BY <2>1, <2>3 DEF AssetsIInv, OneHolder
    <2> QED  BY <2>2, <2>4 DEF AssetsIInv
  <1>4. ASSUME NEW x \in AssetTxns, NEW a \in Assignments, ReturnAssetRead(x, a)
        PROVE  AssetsIInv'
    <2> DEFINE what == [op |-> "return", assignment |-> a, seen |-> <<asset.status, assignment[a]>>]
    <2>1. /\ Work(x, what) /\ what.op = "return" /\ what.seen = <<"assigned", "open">>
          /\ what.assignment = a
          /\ UNCHANGED <<asset, assignment, depreciation, raced>>
      BY <1>4 DEF ReturnAssetRead, Open
    <2> HIDE DEF what
    <2>2. AssetsSound' /\ AssetReadsSound' /\ (~raced' => OneHolder')
      BY <1>n, <2>1 DEF AssetsIInv, AssetsSound, AssetReadsSound, OneHolder, Open
    <2> QED  BY <2>2 DEF AssetsIInv
  <1>5. ASSUME NEW x \in AssetTxns, ReturnAssetWrite(x)
        PROVE  AssetsIInv'
    <2> DEFINE a == assetWork[x].assignment
    <2>0. a \in Assignments /\ assetWork[x].seen = <<"assigned", "open">>
      BY <1>5 DEF ReturnAssetWrite, AssetsIInv, AssetReadsSound
    <2>1. /\ Worked(x) /\ assignment' = [assignment EXCEPT ![a] = "returned"]
          /\ asset'.status = "in_stock" /\ asset'.salvage = asset.salvage
                /\ asset'.life = asset.life
          /\ asset'.accumulated = asset.accumulated /\ asset'.last = asset.last
                /\ DOMAIN asset' = DOMAIN asset
          /\ ~raced' => ~raced /\ asset.status = "assigned" /\ assignment[a] = "open"
          /\ UNCHANGED depreciation
      <3>1. ~raced' => ~raced /\ <<asset.status, assignment[a]>> = <<"assigned", "open">>
        BY <1>5, <2>0 DEF ReturnAssetWrite
      <3>2. ~raced' => ~raced /\ asset.status = "assigned" /\ assignment[a] = "open"
        BY <3>1
      <3> HIDE DEF a
      <3>3. /\ Worked(x) /\ UNCHANGED depreciation
            /\ assignment' = [assignment EXCEPT ![a] = "returned"]
            /\ asset' = [asset EXCEPT !.status = "in_stock"]
        BY <1>5 DEF ReturnAssetWrite, a
      <3> QED  BY <3>2, <3>3 DEF AssetsIInv, AssetsSound
    <2> HIDE DEF a
    <2>2. AssetsSound' /\ AssetReadsSound'
      BY <1>n, <2>0, <2>1 DEF AssetsIInv, AssetsSound, AssetReadsSound
    <2>3. Open' = Open \ {a}
      BY <2>0, <2>1 DEF Open, AssetsIInv, AssetsSound
    <2>4. ~raced' => a \in Open
      BY <2>0, <2>1 DEF Open
    <2>5. ~raced' => OneHolder'
      BY <2>1, <2>3, <2>4 DEF AssetsIInv, OneHolder
    <2> QED  BY <2>2, <2>5 DEF AssetsIInv
  <1>6. ASSUME NEW x \in AssetTxns, NEW asOf \in 0..LastMonthDay, DepreciateRead(x, asOf)
        PROVE  AssetsIInv'
    <2> DEFINE amount == StraightLine(asset, asOf - asset.last)
               what == [op |-> "depreciate", amount |-> amount, asOf |-> asOf, seen |-> asset.accumulated]
    <2>1. /\ amount > 0 /\ Work(x, what)
          /\ UNCHANGED <<asset, assignment, depreciation, raced>>
      BY <1>6 DEF DepreciateRead
    <2>2. /\ what.op = "depreciate" /\ what.amount = amount /\ what.seen = asset.accumulated
                /\ what.asOf \in Nat
      OBVIOUS
    <2> HIDE DEF amount, what
    <2>3. amount \in Nat /\ asset.accumulated + amount <= AcquisitionCost
      <3> DEFINE months == asOf - asset.last
      <3>1. months \in Int
        BY DEF AssetsIInv, AssetsSound
      <3> HIDE DEF months
      <3> QED  BY <2>1, <3>1, DepreciationBound DEF amount, AssetsIInv, AssetsSound
    <2>4. AssetReadsSound'
      BY <1>n, <2>1, <2>2, <2>3 DEF AssetsIInv, AssetReadsSound, AssetsSound
    <2>5. AssetsSound' /\ (~raced' => OneHolder')
      BY <1>n, <2>1 DEF AssetsIInv, AssetsSound, OneHolder, Open
    <2> QED  BY <2>4, <2>5 DEF AssetsIInv
  <1>7. ASSUME NEW x \in AssetTxns, DepreciateWrite(x)
        PROVE  AssetsIInv'
    <2> DEFINE w == assetWork[x]
    <2>1. /\ w.amount \in Nat /\ w.seen \in Nat /\ w.amount > 0
                /\ w.seen + w.amount <= AcquisitionCost /\ w.asOf \in Nat
      BY <1>7 DEF DepreciateWrite, AssetsIInv, AssetReadsSound
    <2>2. /\ Worked(x)
          /\ asset'.status = asset.status /\ asset'.salvage = asset.salvage
                /\ asset'.life = asset.life
          /\ asset'.accumulated = w.seen + w.amount /\ asset'.last \in Nat
                /\ DOMAIN asset' = DOMAIN asset
          /\ depreciation' = IF depreciation > 0 THEN depreciation ELSE w.amount
          /\ ~raced' => ~raced
          /\ UNCHANGED assignment
      BY <1>7 DEF DepreciateWrite, AssetsIInv, AssetsSound, AssetReadsSound
    <2> HIDE DEF w
    <2>3. AssetsSound'
      BY <1>n, <2>1, <2>2 DEF AssetsIInv, AssetsSound
    <2>4. AssetReadsSound' /\ (~raced' => OneHolder')
      BY <1>n, <2>2 DEF AssetsIInv, AssetReadsSound, OneHolder, Open
    <2> QED  BY <2>3, <2>4 DEF AssetsIInv
  <1>8. ASSUME NEW x \in AssetTxns, NEW inJournal \in BOOLEAN, DepreciateFails(x, inJournal)
        PROVE  AssetsIInv'
    <2>1. /\ assetWork[x].amount \in Nat /\ assetWork[x].amount > 0
      BY <1>8 DEF DepreciateFails, AssetsIInv, AssetReadsSound
    <2>2. /\ Worked(x) /\ UNCHANGED <<asset, assignment, raced>>
          /\ depreciation' = depreciation
                \/ (depreciation = 0 /\ depreciation' = assetWork[x].amount)
      BY <1>8 DEF DepreciateFails
    <2>3. AssetsSound'
      BY <1>n, <2>1, <2>2 DEF AssetsIInv, AssetsSound
    <2>4. AssetReadsSound' /\ (~raced' => OneHolder')
      BY <1>n, <2>2 DEF AssetsIInv, AssetReadsSound, OneHolder, Open
    <2> QED  BY <2>3, <2>4 DEF AssetsIInv
  <1> QED  BY <1>1, <1>2, <1>3, <1>4, <1>5, <1>6, <1>7, <1>8 DEF FixedAssetsNext

\* Without an asset the invariant holds, and a step elsewhere leaves it.
LEMMA AssetsStarts == FixedAssetsInit => AssetsIInv
  BY FixedAssetsAssumption
  DEF FixedAssetsInit, AssetsIInv, AssetsSound, AssetReadsSound, OneHolder, Open, NotWorking

\* A step elsewhere leaves it.
LEMMA AssetsIdle == AssetsIInv /\ UNCHANGED fixedAssetsVars => AssetsIInv'
  BY DEF fixedAssetsVars, AssetsIInv, AssetsSound, AssetReadsSound, OneHolder, Open

\* The invariant says what is asked of an asset.
LEMMA AssetHeld == AssetsIInv => AssetHasOneHolder
  BY FS_EmptySet, FS_Singleton DEF AssetsIInv, AssetsSound, OneHolder, AssetHasOneHolder

-----------------------------------------------------------------------------
(* Types: with the invariant of a component goes what its type invariant  *)
(* says beyond it.                                                        *)

(* The types: receivables *)

ReceivablesTyped ==
    /\ allocated \in [Payments \X Invoices -> Nat]
    /\ credit \in [Payments -> Nat]
    /\ idemKeys \subseteq Sources
    /\ voided \subseteq Invoices

\* Every step of the receivables keeps the types.
LEMMA ReceivablesKeepTypes ==
    ASSUME ReceivablesIInv, ReceivablesTyped, ReceivablesNext
    PROVE  ReceivablesTyped'
  <1> USE DEF journal, payments
  <1>0. ASSUME UNCHANGED <<allocated, credit, idemKeys>>, voided' \subseteq Invoices
        PROVE  ReceivablesTyped'
    BY <1>0 DEF ReceivablesTyped
  <1>a. ASSUME NEW p \in Payments, NEW i \in Invoices, NEW a \in Nat, ApplyAllocation(p, i, a)
        PROVE  allocated' \in [Payments \X Invoices -> Nat]
    <2> DEFINE pair == <<p, i>>
    <2>1. pair \in Payments \X Invoices /\ allocated' = [allocated EXCEPT ![pair] = @ + a]
      BY <1>a DEF ApplyAllocation
    <2> HIDE DEF pair
    <2> QED  BY <2>1 DEF ReceivablesTyped
  <1>1. ASSUME NEW i \in Invoices, NEW a \in Amounts,
               CreateInvoice(i, a) \/ CreateCreditNote(i, a)
        PROVE  ReceivablesTyped'
    BY <1>1, <1>0 DEF CreateInvoice, CreateCreditNote, ReceivablesTyped
  <1>2. ASSUME NEW x \in InvoiceTxns, NEW a \in Amounts, UpdateInvoiceWrite(x, a)
        PROVE  ReceivablesTyped'
    BY <1>2, <1>0 DEF UpdateInvoiceWrite, ReceivablesTyped
  <1>3. ASSUME NEW x \in InvoiceTxns, IssueInvoiceWrite(x) \/ SendInvoiceWrite(x)
        PROVE  ReceivablesTyped'
    BY <1>3, <1>0 DEF IssueInvoiceWrite, SendInvoiceWrite, ReceivablesTyped
  <1>4. ASSUME NEW x \in InvoiceTxns, VoidInvoiceWrite(x)
        PROVE  ReceivablesTyped'
    <2>1. request[x].inv \in Invoices
      BY <1>4 DEF VoidInvoiceWrite, ReceivablesIInv, RequestsSound, HoldsInvoice
    <2> QED  BY <1>4, <1>0, <2>1 DEF VoidInvoiceWrite, ReceivablesTyped
  <1>5. ASSUME NEW x \in InvoiceTxns, NEW p \in Payments, PaymentWrite(x, p)
        PROVE  ReceivablesTyped'
    <2> DEFINE r == request[x]
               unapplied == r.amount - r.allocate
    <2>1. /\ r.op = "pay" /\ r.amount \in Nat /\ r.allocate \in Nat /\ r.allocate <= r.amount
          /\ r.allocate > 0 => r.inv \in Invoices
          /\ r.source \in Sources \cup {NoKey}
      BY <1>5 DEF PaymentWrite, ReceivablesIInv, RequestsSound, HoldsPayment
    <2>2. unapplied \in Nat
      BY <2>1
    <2>3. /\ credit' = [credit EXCEPT ![p] = unapplied]
          /\ IF r.allocate > 0 THEN ApplyAllocation(p, r.inv, r.allocate)
             ELSE UNCHANGED <<invoice, allocated, receivable>>
          /\ idemKeys' = IF r.source = NoKey THEN idemKeys ELSE idemKeys \cup {r.source}
          /\ UNCHANGED voided
      BY <1>5 DEF PaymentWrite
    <2> HIDE DEF r, unapplied
    <2>4. allocated' \in [Payments \X Invoices -> Nat]
      BY <1>a, <2>1, <2>3 DEF ReceivablesTyped
    <2>5. credit' \in [Payments -> Nat]
      BY <2>2, <2>3 DEF ReceivablesTyped
    <2>6. idemKeys' \subseteq Sources
      BY <2>1, <2>3 DEF ReceivablesTyped
    <2> QED  BY <2>3, <2>4, <2>5, <2>6 DEF ReceivablesTyped
  <1>6. ASSUME NEW p \in Payments, NEW i \in Invoices, NEW a \in Amounts,
               AllocatePayment(p, i, a)
        PROVE  ReceivablesTyped'
    <2>1. a \in Nat /\ credit[p] \in Nat /\ credit[p] = payment[p].unapplied
      BY ReceivablesAssumption DEF ReceivablesTyped, ReceivablesIInv, PaymentsSound
    <2>2. /\ a <= payment[p].unapplied /\ ApplyAllocation(p, i, a)
          /\ credit' = [credit EXCEPT ![p] = @ - a] /\ UNCHANGED <<idemKeys, voided>>
      BY <1>6 DEF AllocatePayment
    <2>3. allocated' \in [Payments \X Invoices -> Nat]
      BY <1>a, <2>1, <2>2
    <2>4. credit[p] - a \in Nat
      BY <2>1, <2>2
    <2>5. credit' \in [Payments -> Nat]
      BY <2>2, <2>4 DEF ReceivablesTyped
    <2> QED  BY <2>2, <2>3, <2>5 DEF ReceivablesTyped
  <1>7. ASSUME NEW x \in InvoiceTxns, NEW i \in Invoices,
                UpdateInvoiceRead(x, i) \/ IssueInvoiceRead(x, i) \/ SendInvoiceRead(x, i)
                   \/ VoidInvoiceRead(x, i)
        PROVE  ReceivablesTyped'
    BY <1>0, <1>7 DEF UpdateInvoiceRead, IssueInvoiceRead, SendInvoiceRead, VoidInvoiceRead,
       ReceivablesTyped
  <1>8. ASSUME NEW x \in InvoiceTxns, NEW i \in Invoices \cup {NoInvoice}, NEW a \in Amounts,
               NEW k \in PaymentKeys \cup {NoKey},
               RecordPaymentRead(x, i, a, k) \/ StripeWebhookRead(x, i, a, k)
        PROVE  ReceivablesTyped'
    BY <1>0, <1>8 DEF RecordPaymentRead, StripeWebhookRead, ReceivablesTyped
  <1> QED
    BY <1>1, <1>2, <1>3, <1>4, <1>5, <1>6, <1>7, <1>8 DEF ReceivablesNext

\* The initial states have the types.
LEMMA ReceivablesTypesStart == ReceivablesInit => ReceivablesTyped
  BY DEF ReceivablesInit, ReceivablesTyped

\* A step elsewhere leaves them.
LEMMA ReceivablesTypesIdle == ReceivablesTyped /\ UNCHANGED receivablesVars => ReceivablesTyped'
  BY DEF ReceivablesTyped, receivablesVars

\* The invariant and the types together are the type invariant of the module.
LEMMA ReceivablesAreTyped == ReceivablesIInv /\ ReceivablesTyped => ReceivablesTypeOK
  <1> SUFFICES ASSUME ReceivablesIInv, ReceivablesTyped
               PROVE  ReceivablesTypeOK
    OBVIOUS
  <1>1. DOMAIN NoInvoiceRow = {"status", "lines", "total", "paid", "credited", "balance", "number"}
    BY DEF NoInvoiceRow
  <1>2. ASSUME NEW i \in Invoices
        PROVE  /\ DOMAIN invoice[i] = DOMAIN NoInvoiceRow
               /\ invoice[i].status \in InvoiceStatus
               /\ \A f \in DOMAIN NoInvoiceRow \ {"status"} : invoice[i][f] \in Nat
    BY <1>1 DEF ReceivablesIInv, InvoicesSound, InvoiceRecord
  <1> QED
    BY <1>2 DEF ReceivablesIInv, InvoicesSound, RequestsSound, PaymentsSound, PaymentRecord,
       ReceivablesTyped, ReceivablesTypeOK

(* The types: general ledger *)

\* What a posting has read.
PostingReads == [at : {"post"}, period : AllPeriods, creates : Dates \cup {NoEntry},
                 account : LedgerAccounts, source : LedgerSources, reverses : Entries \cup {NoEntry}]

LedgerTyped ==
    /\ GeneralLedgerTypeOK
    /\ \A x \in LedgerTxns : posting[x] = NoPosting \/ posting[x] \in PostingReads

\* Every step of the ledger keeps the types.
LEMMA LedgerKeepsTypes ==
    ASSUME LedgerTyped, GeneralLedgerNext
    PROVE  LedgerTyped'
  <1>0. NoPosting.at = "idle" /\ Dates \subseteq AllPeriods
    BY DEF NoPosting, AllPeriods
  <1>1. ASSUME NEW q \in AllPeriods, NEW dates \in SUBSET Dates, CreatePeriod(q, dates)
        PROVE  LedgerTyped'
    BY <1>1 DEF CreatePeriod, LedgerTyped, GeneralLedgerTypeOK
  <1>2. ASSUME NEW q \in AllPeriods, ClosePeriod(q) \/ ReopenPeriod(q)
        PROVE  LedgerTyped'
    BY <1>2 DEF ClosePeriod, ReopenPeriod, LedgerTyped, GeneralLedgerTypeOK
  <1>3. ASSUME NEW a \in LedgerAccounts, CreateAccount(a)
        PROVE  LedgerTyped'
    BY <1>3 DEF CreateAccount, LedgerTyped, GeneralLedgerTypeOK
  <1>4. ASSUME NEW a \in LedgerAccounts, NEW on \in BOOLEAN, UpdateAccount(a, on)
        PROVE  LedgerTyped'
    BY <1>4 DEF UpdateAccount, LedgerTyped, GeneralLedgerTypeOK
  <1>5. ASSUME NEW x \in LedgerTxns, NEW d \in Dates, NEW a \in LedgerAccounts,
               NEW s \in LedgerSources, NEW r \in Entries \cup {NoEntry},
               PostJournalRead(x, d, a, s, r)
        PROVE  LedgerTyped'
    <2>1. UNCHANGED <<period, entry, active>>
      BY <1>5 DEF PostJournalRead
    <2>2. PICK p \in PostingReads : posting' = [posting EXCEPT ![x] = p]
      <3>1. ASSUME NEW q \in Covering(d),
                   posting' = [posting EXCEPT ![x] = [at |-> "post", period |-> q, creates |-> NoEntry,
                                        account |-> a, source |-> s, reverses |-> r]]
            PROVE  \E p \in PostingReads : posting' = [posting EXCEPT ![x] = p]
        <4>1. q \in AllPeriods
          BY <3>1 DEF Covering
        <4> QED  BY <3>1, <4>1 DEF PostingReads
      <3>2. ASSUME posting' = [posting EXCEPT ![x] = [at |-> "post", period |-> d, creates |-> d,
                                        account |-> a, source |-> s, reverses |-> r]]
            PROVE  \E p \in PostingReads : posting' = [posting EXCEPT ![x] = p]
        BY <1>0, <3>2 DEF PostingReads
      <3> QED  BY <1>5, <3>1, <3>2 DEF PostJournalRead
    <2> QED  BY <2>1, <2>2 DEF LedgerTyped, GeneralLedgerTypeOK
  <1>6. ASSUME NEW x \in LedgerTxns, NEW e \in Entries, PostJournalWrite(x, e)
        PROVE  LedgerTyped'
    <2> DEFINE p == posting[x]
    <2>1. p \in PostingReads
      BY <1>0, <1>6 DEF PostJournalWrite, LedgerTyped
    <2>2. /\ entry' = [entry EXCEPT ![e] = [period |-> p.period, account |-> p.account,
                                            source |-> p.source, reverses |-> p.reverses]]
          /\ period' = IF p.creates = NoEntry THEN period
                       ELSE [period EXCEPT ![p.creates] = [status |-> "open", dates |-> {p.creates}]]
          /\ posting' = [posting EXCEPT ![x] = NoPosting] /\ active' = active
      BY <1>6 DEF PostJournalWrite
    <2> HIDE DEF p
    <2>3. entry' \in [Entries -> [period : AllPeriods \cup {NoEntry}, account : LedgerAccounts \cup {NoEntry},
                              source : LedgerSources, reverses : Entries \cup {NoEntry}]]
      BY <2>1, <2>2 DEF PostingReads, LedgerTyped, GeneralLedgerTypeOK
    <2>4. period' \in [AllPeriods -> [status : {"none", "open", "closed"}, dates : SUBSET Dates]]
      BY <1>0, <2>1, <2>2 DEF PostingReads, LedgerTyped, GeneralLedgerTypeOK
    <2> QED  BY <2>2, <2>3, <2>4 DEF LedgerTyped, GeneralLedgerTypeOK
  <1>7. ASSUME NEW x \in LedgerTxns, PostJournalFails(x)
        PROVE  LedgerTyped'
    BY <1>7 DEF PostJournalFails, LedgerTyped, GeneralLedgerTypeOK
  <1> QED  BY <1>1, <1>2, <1>3, <1>4, <1>5, <1>6, <1>7 DEF GeneralLedgerNext

\* The initial states have the types.
LEMMA LedgerTypesStart == GeneralLedgerInit => LedgerTyped
  <1>1. Unposted \in [period : AllPeriods \cup {NoEntry}, account : LedgerAccounts \cup {NoEntry},
                              source : LedgerSources, reverses : Entries \cup {NoEntry}]
    BY DEF Unposted, LedgerSources
  <1> QED  BY <1>1 DEF GeneralLedgerInit, LedgerTyped, GeneralLedgerTypeOK

\* A step elsewhere leaves them.
LEMMA LedgerTypesIdle == LedgerTyped /\ UNCHANGED generalLedgerVars => LedgerTyped'
  BY DEF LedgerTyped, GeneralLedgerTypeOK, generalLedgerVars

(* The types: vendor bills *)

\* What a bill may be beyond what its payment fits into.
BillsTyped ==
    bill \in [Bills -> [status : {"none", "open", "partially_paid", "paid"}, paid : 0..BillAmount]]

\* Every step of a bill keeps the types.
LEMMA BillsKeepTypes ==
    ASSUME BillsIInv, BillsTyped, VendorBillsNext
    PROVE  BillsTyped'
  <1>1. ASSUME NEW b \in Bills, CreateVendorBill(b)
        PROVE  BillsTyped'
    BY <1>1 DEF CreateVendorBill, BillsTyped
  <1>2. ASSUME UNCHANGED <<bill, settled>>
        PROVE  BillsTyped'
    BY <1>2 DEF BillsTyped
  <1>3. ASSUME NEW x \in BillTxns, PayVendorBillWrite(x)
        PROVE  BillsTyped'
    <2> DEFINE b == paying[x].bill
               paid == paying[x].seen.paid + paying[x].amount
               status == IF paid >= BillAmount THEN "paid" ELSE "partially_paid"
    <2>1. b \in Bills /\ paid \in 0 .. BillAmount
      BY <1>3, VendorBillsAssumption DEF PayVendorBillWrite, BillsIInv, PaymentsFit
    <2>2. bill' = [bill EXCEPT ![b] = [status |-> status, paid |-> paid]]
      BY <1>3 DEF PayVendorBillWrite
    <2>3. status \in {"paid", "partially_paid"}
      OBVIOUS
    <2> HIDE DEF b, paid, status
    <2> QED  BY <2>1, <2>2, <2>3 DEF BillsTyped
  <1> QED  BY <1>1, <1>2, <1>3 DEF VendorBillsNext, PayVendorBillRead

\* The initial states have the types.
LEMMA BillsTypesStart == VendorBillsInit => BillsTyped
  <1>1. 0 \in 0 .. BillAmount
    BY VendorBillsAssumption
  <1> QED  BY <1>1 DEF VendorBillsInit, BillsTyped

\* A step elsewhere leaves them.
LEMMA BillsTypesIdle == BillsTyped /\ UNCHANGED vendorBillsVars => BillsTyped'
  BY DEF BillsTyped, vendorBillsVars

(* The types: expenses *)

BatchesTyped ==
    /\ batch \in [Batches -> [status : {"none", "pending_approval", "approved", "rejected"}, total : Nat]]
    /\ policy \in {"none", "require_approval", "reject"}
    /\ repeated \subseteq Batches

\* Every step of the reimbursements keeps the types.
LEMMA BatchesKeepTypes ==
    ASSUME BatchesIInv, BatchesTyped, ReimbursementsNext
    PROVE  BatchesTyped'
  <1>1. ASSUME NEW action \in {"require_approval", "reject"}, UpsertExpensePolicy(action)
        PROVE  BatchesTyped'
    BY <1>1 DEF UpsertExpensePolicy, BatchesTyped
  <1>2. ASSUME UNCHANGED <<batch, policy, repeated>>
        PROVE  BatchesTyped'
    BY <1>2 DEF BatchesTyped
  <1>3. ASSUME NEW x \in ExpenseTxns, NEW r \in Batches, CreateBatchWrite(x, r)
        PROVE  BatchesTyped'
    <2> DEFINE total == SumFunction(handling[x].row)
    <2>1. handling[x].row \in [Expenses -> Nat]
      BY <1>3 DEF CreateBatchWrite, BatchesIInv, BatchesSound
    <2>2. total \in Nat
      <3>1. /\ DOMAIN handling[x].row = Expenses
            /\ \A e \in Expenses : handling[x].row[e] \in Int /\ handling[x].row[e] \in Nat
        BY <2>1
      <3>2. total = SumFunctionOnSet(handling[x].row, Expenses)
        BY <3>1 DEF SumFunction
      <3> QED  BY <3>1, <3>2, ReimbursementsAssumption, SumType
    <2>3. /\ batch' = [batch EXCEPT ![r] = [status |-> "pending_approval", total |-> total]]
          /\ repeated' \subseteq repeated \cup {r} /\ policy' = policy
      BY <1>3 DEF CreateBatchWrite
    <2> HIDE DEF total
    <2> QED  BY <2>2, <2>3 DEF BatchesTyped
  <1>4. ASSUME NEW x \in ExpenseTxns, NEW approve \in BOOLEAN,
               DecideReimbursementWrite(x, approve)
        PROVE  BatchesTyped'
    BY <1>4 DEF DecideReimbursementWrite, BatchesIInv, BatchesSound, BatchesTyped
  <1> QED
    BY <1>1, <1>2, <1>3, <1>4 DEF ReimbursementsNext, SubmitExpense, DecideExpenseRead,
       CreateBatchRead, DecideReimbursementRead, DecideExpenseWrite

\* The initial states have the types.
LEMMA BatchesTypesStart == ReimbursementsInit => BatchesTyped
  BY DEF ReimbursementsInit, BatchesTyped

\* A step elsewhere leaves them.
LEMMA BatchesTypesIdle == BatchesTyped /\ UNCHANGED reimbursementsVars => BatchesTyped'
  BY DEF BatchesTyped, reimbursementsVars

(* The types: entities *)

\* Every step of the entities keeps the types.
LEMMA EntitiesKeepTypes ==
    ASSUME EntitiesTypeOK, EntitiesNext
    PROVE  EntitiesTypeOK'
  <1>1. CASE EnsureDefaultEntity
    BY <1>1, EntitiesAssumption DEF EnsureDefaultEntity, EntitiesTypeOK
  <1>2. ASSUME NEW n \in Entities, NEW isDefault \in BOOLEAN,
               CreateEntity(n, isDefault) \/ UpdateEntity(n, isDefault)
        PROVE  EntitiesTypeOK'
    <2>1. /\ entity' = IF isDefault THEN MakeDefault(n) ELSE [entity EXCEPT ![n] = "plain"]
          /\ undefaulted' \in BOOLEAN /\ UNCHANGED <<intercompany, entityAccess>>
      BY <1>2 DEF CreateEntity, UpdateEntity
    <2> QED  BY <2>1 DEF MakeDefault, EntitiesTypeOK
  <1>3. ASSUME NEW m \in Entities, NEW n \in Entities, NEW a \in 1..MaxIntercompany,
               CreateIntercompany(m, n, a)
        PROVE  EntitiesTypeOK'
    <2> DEFINE p == <<m, n>>
    <2>1. /\ p \in Entities \X Entities /\ intercompany' = [intercompany EXCEPT ![p] = @ + a]
          /\ intercompany[p] + a <= MaxIntercompany
                /\ UNCHANGED <<entity, entityAccess, undefaulted>>
      BY <1>3 DEF CreateIntercompany
    <2>2. a \in Nat /\ MaxIntercompany \in Nat
      BY EntitiesAssumption
    <2> HIDE DEF p
    <2>3. intercompany' \in [Entities \X Entities -> 0 .. MaxIntercompany]
      BY <2>1, <2>2 DEF EntitiesTypeOK
    <2> QED  BY <2>1, <2>3 DEF EntitiesTypeOK
  <1>4. ASSUME NEW n \in Entities, GrantEntityAccess(n)
        PROVE  EntitiesTypeOK'
    BY <1>4 DEF GrantEntityAccess, EntitiesTypeOK
  <1> QED  BY <1>1, <1>2, <1>3, <1>4 DEF EntitiesNext

\* The initial states have the types.
LEMMA EntitiesTypesStart == EntitiesInit => EntitiesTypeOK
  <1>1. 0 \in 0 .. MaxIntercompany
    BY EntitiesAssumption
  <1> QED  BY <1>1 DEF EntitiesInit, EntitiesTypeOK

\* A step elsewhere leaves them.
LEMMA EntitiesTypesIdle == EntitiesTypeOK /\ UNCHANGED entitiesVars => EntitiesTypeOK'
  BY DEF EntitiesTypeOK, entitiesVars

(* The types: tax rates *)

\* Every step of the rates keeps the types.
LEMMA TaxRatesKeepTypes ==
    ASSUME TaxRatesTypeOK, TaxRatesNext
    PROVE  TaxRatesTypeOK'
  <1>1. ASSUME NEW g \in TaxGroups, CreateTaxGroup(g)
        PROVE  TaxRatesTypeOK'
    BY <1>1 DEF CreateTaxGroup, TaxRatesTypeOK
  <1>2. ASSUME NEW r \in Rates, NEW group \in TaxGroups \cup {NoGroup}, NEW from \in Days,
               NEW to \in 1..OpenEnded, NEW component \in BOOLEAN,
               NEW prev \in DOMAIN rate \cup {NoRate},
               CreateTaxRate(r, group, from, to, component, prev)
        PROVE  TaxRatesTypeOK'
    <2> DEFINE inherited == IF group = NoGroup /\ prev # NoRate THEN rate[prev].group ELSE group
               row == [group |-> inherited, from |-> from, to |-> to,
                       component |-> component, supersedes |-> prev]
    <2>1. inherited \in TaxGroups \cup {NoGroup} /\ prev \in Rates \cup {NoRate}
      BY <1>2 DEF CreateTaxRate, TaxRatesTypeOK, RateRow
    <2>2. to \in 0 .. OpenEnded /\ from - 1 \in 0 .. OpenEnded
      BY TaxRatesAssumption DEF OpenEnded, Days
    <2>3. row \in RateRow
      BY <2>1, <2>2 DEF RateRow
    <2>4. \A q \in DOMAIN rate : Close(rate[q], from) \in RateRow
      BY <2>2 DEF Close, RateRow, TaxRatesTypeOK
    <2>5. rate' = [q \in DOMAIN rate \cup {r} |->
                       CASE q = r -> row
                         [] q = prev -> Close(rate[q], from)
                         [] OTHER -> rate[q]]
      BY <1>2 DEF CreateTaxRate
    <2>6. /\ taxGroup' = taxGroup /\ r \notin DOMAIN rate
          /\ keptBounded' \subseteq keptBounded \cup (IF prev # NoRate THEN {<<r, prev>>} ELSE {})
      BY <1>2 DEF CreateTaxRate
    <2> HIDE DEF row
    <2>7. DOMAIN rate' = DOMAIN rate \cup {r}
      BY <2>5
    <2>8. ASSUME NEW q \in DOMAIN rate'
          PROVE  rate'[q] \in RateRow
      <3>1. rate'[q] = (CASE q = r -> row
                         [] q = prev -> Close(rate[q], from)
                         [] OTHER -> rate[q])
        BY <2>5, <2>7
      <3>2. CASE q = r
        <4>1. rate'[q] = row
          BY <2>6, <3>1, <3>2, TaxRatesAssumption
        <4> QED  BY <2>3, <4>1
      <3>3. CASE q # r /\ q = prev
        BY <2>4, <2>7, <3>1, <3>3
      <3>4. CASE q # r /\ q # prev
        BY <2>7, <3>1, <3>4 DEF TaxRatesTypeOK
      <3> QED  BY <3>2, <3>3, <3>4
    <2>9. keptBounded' \subseteq Rates \X Rates
      BY <2>1, <2>6 DEF TaxRatesTypeOK
    <2> QED  BY <2>6, <2>7, <2>8, <2>9 DEF TaxRatesTypeOK
  <1> QED  BY <1>1, <1>2 DEF TaxRatesNext

\* The initial states have the types.
LEMMA TaxRatesTypesStart == TaxRatesInit => TaxRatesTypeOK
  BY DEF TaxRatesInit, TaxRatesTypeOK

\* A step elsewhere leaves them.
LEMMA TaxRatesTypesIdle == TaxRatesTypeOK /\ UNCHANGED taxRatesVars => TaxRatesTypeOK'
  BY DEF TaxRatesTypeOK, taxRatesVars

(* The types: recurring invoices *)

\* The month comes to its bound and no further.
MonthTyped ==
    /\ month \in 0 .. LastMonth
    /\ invoiced \subseteq Templates \X Nat \X Nat

\* Every step of the generator keeps the types.
LEMMA MonthKeepsType ==
    ASSUME RecurringIInv, MonthTyped, RecurringInvoicesNext
    PROVE  MonthTyped'
  <1>1. CASE MonthPasses
    BY <1>1, RecurringInvoicesAssumption DEF MonthPasses, MonthTyped
  <1>2. ASSUME UNCHANGED <<month, invoiced>>
        PROVE  MonthTyped'
    BY <1>2 DEF MonthTyped
  <1>3. CASE RunDue
    <2> DEFINE done == {t \in Due : template[t].content = "valid"}
    <2>1. month' = month /\ invoiced' = invoiced \cup {<<t, template[t].next, month>> : t \in done}
      BY <1>3 DEF RunDue
    <2>2. \A t \in done : t \in Templates /\ template[t].next \in Nat
      BY DEF Due, RecurringIInv, TemplatesSound, TemplateRow
    <2>3. month \in Nat
      BY DEF RecurringIInv, TemplatesSound
    <2> HIDE DEF done
    <2> QED  BY <2>1, <2>2, <2>3 DEF MonthTyped
  <1> QED  BY <1>1, <1>2, <1>3 DEF RecurringInvoicesNext, CreateRecurring

\* The initial states have the types.
LEMMA MonthTypesStart == RecurringInvoicesInit => MonthTyped
  <1>1. 0 \in 0 .. LastMonth
    BY RecurringInvoicesAssumption
  <1> QED  BY <1>1 DEF RecurringInvoicesInit, MonthTyped

\* A step elsewhere leaves them.
LEMMA MonthTypesIdle == MonthTyped /\ UNCHANGED recurringInvoicesVars => MonthTyped'
  BY DEF MonthTyped, recurringInvoicesVars

(* The types: bank reconciliation *)

\* A run of the matcher has read payments that were received.
BankTyped ==
    /\ bankAccount \in BOOLEAN
    /\ statementOf \in [StatementLines -> Statements \cup {NoStatement}]
    /\ fits \in [StatementLines -> SUBSET Received]
    /\ refers \in [StatementLines -> SUBSET Received]
    /\ received \subseteq Received
    /\ reconciled \subseteq StatementLines \X Received
    /\ \A x \in MatchRuns : matching[x].step = "payments" => matching[x].pool \subseteq Received

\* Every step of the reconciliation keeps the types.
LEMMA BankKeepsTypes ==
    ASSUME BankIInv, BankTyped, BankReconciliationNext
    PROVE  BankTyped'
  <1>0. DOMAIN matching = MatchRuns
    BY DEF BankIInv, BankSound
  <1>1. CASE CreateBankAccount
    BY <1>1 DEF CreateBankAccount, BankTyped
  <1>2. ASSUME NEW s \in Statements, NEW lines \in SUBSET StatementLines,
               NEW fit \in [lines -> SUBSET Received], NEW named \in References,
               ImportStatement(s, lines, fit, named)
        PROVE  BankTyped'
    <2>1. named \in SUBSET Received
      BY DEF References
    <2>2. /\ statementOf' = [l \in StatementLines |-> IF l \in lines THEN s ELSE statementOf[l]]
          /\ fits' = [l \in StatementLines |-> IF l \in lines THEN fit[l] ELSE fits[l]]
          /\ refers' = [l \in StatementLines |-> IF l \in lines THEN named ELSE refers[l]]
          /\ UNCHANGED <<bankAccount, received, reconciled, matching>>
      BY <1>2 DEF ImportStatement
    <2>3. statementOf' \in [StatementLines -> Statements \cup {NoStatement}]
      BY <2>2 DEF BankTyped
    <2>4. fits' \in [StatementLines -> SUBSET Received]
      BY <2>2 DEF BankTyped
    <2>5. refers' \in [StatementLines -> SUBSET Received]
      BY <2>1, <2>2 DEF BankTyped
    <2> QED  BY <2>2, <2>3, <2>4, <2>5 DEF BankTyped
  <1>3. ASSUME NEW p \in Received, PaymentArrives(p)
        PROVE  BankTyped'
    BY <1>3 DEF PaymentArrives, statementData, BankTyped
  <1>4. ASSUME NEW x \in MatchRuns, NEW s \in Statements, MatchReadLines(x, s)
        PROVE  BankTyped'
    BY <1>0, <1>4 DEF MatchReadLines, statementData, BankTyped
  <1>5. ASSUME NEW x \in MatchRuns, MatchReadPayments(x)
        PROVE  BankTyped'
    BY <1>0, <1>5 DEF MatchReadPayments, statementData, BankTyped
  <1>6. ASSUME NEW x \in MatchRuns, MatchWrite(x)
        PROVE  BankTyped'
    <2>1. /\ matching[x].step = "payments" /\ matching' = [matching EXCEPT ![x] = NotMatching]
          /\ UNCHANGED <<bankAccount, statementOf, fits, refers, received>>
      BY <1>6 DEF MatchWrite, statementData
    <2>2. PICK m \in GreedyMatches(matching[x].lines, matching[x].pool, fits, refers) :
             reconciled' \subseteq reconciled \cup {<<l, m[l]>> : l \in DOMAIN m}
      BY <1>6 DEF MatchWrite
    <2>3. matching[x].lines \subseteq StatementLines
      BY <2>1 DEF BankIInv, BankSound, RunOf, LinesOf
    <2>4. DOMAIN m \subseteq matching[x].lines /\ m \in [DOMAIN m -> matching[x].pool]
      BY DEF GreedyMatches
    <2>5. \A l \in DOMAIN m : <<l, m[l]>> \in StatementLines \X Received
      BY <2>1, <2>3, <2>4 DEF BankTyped
    <2>6. reconciled' \subseteq StatementLines \X Received
      BY <2>2, <2>5 DEF BankTyped
    <2> QED  BY <1>0, <2>1, <2>6 DEF BankTyped, NotMatching
  <1> QED  BY <1>1, <1>2, <1>3, <1>4, <1>5, <1>6 DEF BankReconciliationNext

\* The initial states have the types.
LEMMA BankTypesStart == BankReconciliationInit => BankTyped
  <1> SUFFICES ASSUME BankReconciliationInit
               PROVE  BankTyped
    OBVIOUS
  <1>1. /\ statementOf = [l \in StatementLines |-> NoStatement]
        /\ fits = [l \in StatementLines |-> {}] /\ refers = [l \in StatementLines |-> Received]
        /\ bankAccount = FALSE /\ received = {} /\ reconciled = {}
        /\ matching = [x \in MatchRuns |-> NotMatching]
    BY DEF BankReconciliationInit
  <1>2. \A x \in MatchRuns : matching[x].step = "idle"
    BY <1>1 DEF NotMatching
  <1>3. fits \in [StatementLines -> SUBSET Received]
           /\ refers \in [StatementLines -> SUBSET Received]
    BY <1>1
  <1> QED  BY <1>1, <1>2, <1>3 DEF BankTyped

\* A step elsewhere leaves them.
LEMMA BankTypesIdle == BankTyped /\ UNCHANGED bankReconciliationVars => BankTyped'
  BY DEF BankTyped, bankReconciliationVars

(* The types: card matching *)

CardsTyped ==
    /\ DOMAIN cardFits \subseteq Cards
          /\ \A c \in DOMAIN cardFits : cardFits[c] \subseteq CardExpenses
    /\ cardExpense \in [Cards -> CardExpenses \cup {Unmatched}]
    /\ \A e \in SubmittedExpenses : expenseCard[e] \in Cards \cup {Unmatched}
    /\ rematched \subseteq Cards \cup CardExpenses

\* Every step of the matcher keeps the types.
LEMMA CardsKeepTypes ==
    ASSUME CardsIInv, CardsTyped, CardMatchingNext
    PROVE  CardsTyped'
  <1>1. ASSUME NEW new \in SUBSET Cards, NEW fit \in [new -> SUBSET CardExpenses],
               ImportCardCsv(new, fit)
        PROVE  CardsTyped'
    <2>1. /\ cardFits' = [c \in DOMAIN cardFits \cup new |-> IF c \in new THEN fit[c] ELSE cardFits[c]]
          /\ UNCHANGED <<cardExpense, expenseCard, rematched>>
      BY <1>1 DEF ImportCardCsv, Imported
    <2> QED  BY <2>1 DEF CardsTyped, SubmittedExpenses
  <1>2. ASSUME NEW e \in CardExpenses, ExpenseArrives(e)
        PROVE  CardsTyped'
    BY <1>2 DEF ExpenseArrives, CardsTyped, SubmittedExpenses
  <1>3. ASSUME UNCHANGED <<cardFits, cardExpense, expenseCard, rematched>>
        PROVE  CardsTyped'
    BY <1>3 DEF CardsTyped, SubmittedExpenses
  <1>4. ASSUME NEW x \in CardRuns, AutoMatchWrite(x)
        PROVE  CardsTyped'
    <2>1. /\ cardRun[x].step = "expenses" /\ UNCHANGED cardFits
          /\ cardRun[x].cards \subseteq Cards /\ cardRun[x].pool \subseteq CardExpenses
      BY <1>4 DEF AutoMatchWrite, CardsIInv, CardsSound
    <2>2. PICK m \in GreedyMatches(cardRun[x].cards, cardRun[x].pool, cardFits, cardFits) :
             LET taken == {m[c] : c \in DOMAIN m}
             IN  /\ cardExpense' = [c \in Cards |-> IF c \in DOMAIN m THEN m[c] ELSE cardExpense[c]]
                 /\ expenseCard' = [e \in SubmittedExpenses |->
                                       IF e \in taken THEN CHOOSE c \in DOMAIN m : m[c] = e
                                       ELSE expenseCard[e]]
                 /\ rematched' = rematched \cup {c \in DOMAIN m : cardExpense[c] # Unmatched}
                                           \cup {e \in taken : expenseCard[e] # Unmatched}
      BY <1>4 DEF AutoMatchWrite
    <2>3. DOMAIN m \subseteq Cards /\ \A c \in DOMAIN m : m[c] \in CardExpenses
      <3>1. DOMAIN m \subseteq cardRun[x].cards /\ m \in [DOMAIN m -> cardRun[x].pool]
        BY DEF GreedyMatches
      <3> QED  BY <2>1, <3>1
    <2> DEFINE taken == {m[c] : c \in DOMAIN m}
    <2>4. taken \subseteq CardExpenses
             /\ \A e \in taken : (CHOOSE c \in DOMAIN m : m[c] = e) \in Cards
      BY <2>3
    <2>5. cardExpense' \in [Cards -> CardExpenses \cup {Unmatched}]
      BY <2>2, <2>3 DEF CardsTyped
    <2>6. rematched' \subseteq Cards \cup CardExpenses
      BY <2>2, <2>3, <2>4 DEF CardsTyped
    <2>7. \A e \in DOMAIN expenseCard' : expenseCard'[e] \in Cards \cup {Unmatched}
      <3>1. DOMAIN expenseCard' = SubmittedExpenses
        BY <2>2
      <3>2. \A e \in SubmittedExpenses : expenseCard'[e] = IF e \in taken THEN CHOOSE c \in DOMAIN m : m[c] = e
                                         ELSE expenseCard[e]
        BY <2>2
      <3> HIDE DEF taken
      <3> QED  BY <2>4, <3>1, <3>2 DEF CardsTyped
    <2> QED  BY <2>1, <2>5, <2>6, <2>7 DEF CardsTyped, SubmittedExpenses
  <1> QED
    BY <1>1, <1>2, <1>3, <1>4 DEF CardMatchingNext, AutoMatchReadCards, AutoMatchReadExpenses

\* The initial states have the types.
LEMMA CardsTypesStart == CardMatchingInit => CardsTyped
  BY DEF CardMatchingInit, CardsTyped, SubmittedExpenses

\* A step elsewhere leaves them.
LEMMA CardsTypesIdle == CardsTyped /\ UNCHANGED cardMatchingVars => CardsTyped'
  BY DEF CardsTyped, cardMatchingVars, SubmittedExpenses

(* The types: stock *)

MovementRow == [id : Movements, delta : Int, key : MoveKeys \cup {Keyless}]

\* What a request is about to write is a movement, or the level it compares.
StockTyped ==
    /\ warehouse \in BOOLEAN
    /\ stockItem \in [exists : BOOLEAN, active : BOOLEAN, negative : BOOLEAN]
    /\ movements \subseteq MovementRow
    /\ cogs \subseteq Movements /\ uncommitted \subseteq Movements
    /\ alerts \subseteq Int \X Int
    /\ levelDrifted \in BOOLEAN /\ backordered \in BOOLEAN /\ falseAlarm \in BOOLEAN
    /\ \A x \in StockTxns :
          /\ stockPosting[x].op = "post" => stockPosting[x].row \in MovementRow
          /\ stockPosting[x].op = "reconcile" =>
                stockPosting[x].cached \in Int /\ stockPosting[x].moved \in BOOLEAN

\* Every step of the stock keeps the types.
LEMMA StockKeepsTypes ==
    ASSUME StockIInv, StockTyped, StockLedgerNext
    PROVE  StockTyped'
  <1>0. /\ DOMAIN stockPosting = StockTxns /\ NotPosting.op = "idle" /\ level.qty \in Int
        /\ \A x \in StockTxns : stockPosting[x].op = "reconcile" =>
              DOMAIN stockPosting[x] = {"op", "cached", "moved"}
    BY DEF NotPosting, StockIInv, StockSound, PostingSound
  <1>1. CASE CreateWarehouse
    BY <1>1 DEF CreateWarehouse, StockTyped
  <1>2. ASSUME NEW negative \in BOOLEAN, CreateItem(negative)
        PROVE  StockTyped'
    BY <1>2 DEF CreateItem, StockTyped
  <1>3. ASSUME NEW on \in BOOLEAN, NEW negative \in BOOLEAN, UpdateItem(on, negative)
        PROVE  StockTyped'
    <2>1. backordered' \in BOOLEAN
      BY <1>3 DEF UpdateItem
    <2> QED  BY <1>3, <2>1 DEF UpdateItem, StockTyped
  <1>4. ASSUME NEW x \in StockTxns, NEW m \in Movements,
               NEW delta \in (-MaxDelta..MaxDelta) \ {0},
               NEW key \in MoveKeys \cup {Keyless},
               NEW cost \in IF delta > 0 THEN UnitCosts ELSE {0},
               PostMovementRead(x, m, delta, cost, key)
        PROVE  StockTyped'
    <2> DEFINE row == [id |-> m, delta |-> delta, key |-> key]
               what == [op |-> "post", read |-> level, new |-> NewLevel(level, delta, cost), row |-> row]
    <2>1. /\ stockPosting' = [stockPosting EXCEPT ![x] = what]
          /\ UNCHANGED <<warehouse, stockItem, backordered, movements, level, cogs, alerts, levelDrifted,
                         uncommitted, falseAlarm>>
      BY <1>4 DEF PostMovementRead, catalogue
    <2>2. row \in MovementRow
      BY StockLedgerAssumption DEF MovementRow
    <2>3. what.op = "post" /\ what.row \in MovementRow
      BY <2>2
    <2> HIDE DEF what
    <2> QED  BY <1>0, <2>1, <2>3 DEF StockTyped
  <1>5. ASSUME NEW x \in StockTxns, NEW inJournal \in BOOLEAN, PostMovementWrite(x, inJournal)
        PROVE  StockTyped'
    <2>1. /\ stockPosting[x].row \in MovementRow
          /\ movements' = movements \cup {stockPosting[x].row}
          /\ cogs' \subseteq cogs \cup {stockPosting[x].row.id}
          /\ UNCHANGED <<warehouse, stockItem, backordered, alerts, uncommitted, falseAlarm>>
      BY <1>5 DEF PostMovementWrite, catalogue, StockTyped
    <2>2. levelDrifted' \in BOOLEAN
      BY <1>5 DEF PostMovementWrite
    <2>3. stockPosting[x].op = "post"
      BY <1>5 DEF PostMovementWrite
    <2>4. ASSUME NEW y \in StockTxns
          PROVE  /\ stockPosting'[y].op = "post" => stockPosting'[y].row \in MovementRow
                 /\ stockPosting'[y].op = "reconcile" =>
                       stockPosting'[y].cached \in Int /\ stockPosting'[y].moved \in BOOLEAN
      <3>1. stockPosting' = [z \in StockTxns |->
               CASE z = x -> NotPosting
                 [] stockPosting[z].op = "reconcile" -> [stockPosting[z] EXCEPT !.moved = TRUE]
                 [] OTHER -> stockPosting[z]]
        BY <1>5 DEF PostMovementWrite
      <3>2. CASE y = x
        <4>1. stockPosting'[y] = NotPosting
          BY <2>3, <3>1, <3>2
        <4> QED  BY <1>0, <4>1
      <3>3. CASE y # x /\ stockPosting[y].op = "reconcile"
        <4>1. stockPosting'[y] = [stockPosting[y] EXCEPT !.moved = TRUE]
          BY <3>1, <3>3
        <4>2. stockPosting[y].cached \in Int
                 /\ DOMAIN stockPosting[y] = {"op", "cached", "moved"}
          BY <1>0, <3>3 DEF StockTyped
        <4>3. /\ stockPosting'[y].cached = stockPosting[y].cached
                    /\ stockPosting'[y].moved = TRUE
              /\ stockPosting'[y].op = "reconcile"
          BY <3>3, <4>1, <4>2
        <4> QED  BY <4>2, <4>3
      <3>4. CASE y # x /\ stockPosting[y].op # "reconcile"
        <4>1. stockPosting'[y] = stockPosting[y]
          BY <3>1, <3>4
        <4> QED  BY <3>4, <4>1 DEF StockTyped
      <3> QED  BY <3>2, <3>3, <3>4
    <2> QED  BY <2>1, <2>2, <2>4 DEF StockTyped, MovementRow
  <1>6. ASSUME NEW x \in StockTxns, NEW inJournal \in BOOLEAN, PostMovementFails(x, inJournal)
        PROVE  StockTyped'
    <2>1. /\ stockPosting[x].row \in MovementRow
          /\ stockPosting' = [stockPosting EXCEPT ![x] = NotPosting]
          /\ cogs' \subseteq cogs \cup {stockPosting[x].row.id}
          /\ uncommitted' \subseteq uncommitted \cup {stockPosting[x].row.id}
          /\ UNCHANGED <<warehouse, stockItem, backordered, movements, level, alerts, levelDrifted, falseAlarm>>
      BY <1>6 DEF PostMovementFails, catalogue, StockTyped
    <2> QED  BY <1>0, <2>1 DEF StockTyped, MovementRow
  <1>7. ASSUME NEW x \in StockTxns, ReconcileRead(x)
        PROVE  StockTyped'
    <2> DEFINE what == [op |-> "reconcile", cached |-> level.qty, moved |-> FALSE]
    <2>1. /\ stockPosting' = [stockPosting EXCEPT ![x] = what]
          /\ UNCHANGED <<warehouse, stockItem, backordered, movements, level, cogs, alerts, levelDrifted,
                         uncommitted, falseAlarm>>
      BY <1>7 DEF ReconcileRead, catalogue
    <2>2. what.op = "reconcile" /\ what.cached \in Int /\ what.moved \in BOOLEAN
      BY <1>0
    <2> HIDE DEF what
    <2> QED  BY <1>0, <2>1, <2>2 DEF StockTyped
  <1>8. ASSUME NEW x \in StockTxns, ReconcileWrite(x)
        PROVE  StockTyped'
    <2> DEFINE cached == stockPosting[x].cached
    <2>1. /\ stockPosting[x].op = "reconcile"
                /\ stockPosting' = [stockPosting EXCEPT ![x] = NotPosting]
          /\ alerts' \subseteq alerts \cup {<<cached, MovementSum>>}
          /\ falseAlarm' \in BOOLEAN
          /\ UNCHANGED <<warehouse, stockItem, backordered, movements, level, cogs, uncommitted, levelDrifted>>
      BY <1>8 DEF ReconcileWrite, catalogue
    <2>2. cached \in Int
      BY <2>1 DEF StockTyped
    <2>3. MovementSum \in Int
      <3> DEFINE F == [m \in movements |-> m.delta]
      <3>1. MovementSum = SumFunctionOnSet(F, movements)
        BY DEF MovementSum, SumFunction
      <3>2. IsFiniteSet(movements) /\ \A m \in movements : F[m] \in Int
        BY DEF StockIInv, StockSound
      <3> HIDE DEF F
      <3> QED  BY <3>1, <3>2, SumType
    <2> HIDE DEF cached
    <2>4. alerts' \subseteq Int \X Int
      BY <2>1, <2>2, <2>3 DEF StockTyped
    <2> QED  BY <1>0, <2>1, <2>4 DEF StockTyped
  <1> QED
    BY <1>1, <1>2, <1>3, <1>4, <1>5, <1>6, <1>7, <1>8 DEF StockLedgerNext

\* The initial states have the types.
LEMMA StockTypesStart == StockLedgerInit => StockTyped
  <1> SUFFICES ASSUME StockLedgerInit
               PROVE  StockTyped
    OBVIOUS
  <1>1. /\ stockItem = [exists |-> FALSE, active |-> FALSE, negative |-> FALSE]
        /\ warehouse = FALSE /\ movements = {} /\ cogs = {} /\ alerts = {} /\ uncommitted = {}
        /\ levelDrifted = FALSE /\ backordered = FALSE /\ falseAlarm = FALSE
    BY DEF StockLedgerInit
  <1>2. \A x \in StockTxns : stockPosting[x].op = "idle"
    BY DEF StockLedgerInit, NotPosting
  <1> QED  BY <1>1, <1>2 DEF StockTyped

\* A step elsewhere leaves them.
LEMMA StockTypesIdle == StockTyped /\ UNCHANGED stockLedgerVars => StockTyped'
  BY DEF StockTyped, stockLedgerVars

\* The invariant and the types together are the type invariant of the module.
LEMMA StockIsTyped == StockIInv /\ StockTyped => StockLedgerTypeOK
  BY DEF StockIInv, StockSound, StockTyped, MovementRow, StockLedgerTypeOK

(* The types: procurement *)

ReceiptRow == [status : {"none", "draft", "posted"}, order : Orders \cup {NoOrder}, qty : Nat]
OrderRow == [status : OrderStatuses, requested : BOOLEAN, received : Nat]

ProcurementTyped ==
    /\ purchaseRequest \in {"none", "draft", "pending_approval", "approved", "rejected", "converted"}
    /\ order \in [Orders -> OrderRow] /\ receipt \in [Receipts -> ReceiptRow]
    /\ movedFor \subseteq Receipts /\ receiptJournal \subseteq Receipts
    /\ twicePosted \subseteq Receipts /\ reopened \in BOOLEAN

\* Every step of procurement keeps the types.
LEMMA ProcurementKeepsTypes ==
    ASSUME ProcurementIInv, ReceivedIInv, ProcurementTyped, ProcurementNext
    PROVE  ProcurementTyped'
  <1> USE DEF stockAndLedger
  <1>0. ASSUME UNCHANGED <<order, receipt, movedFor, twicePosted>>,
               purchaseRequest' \in {"none", "draft", "pending_approval", "approved", "rejected", "converted"},
               reopened' \in BOOLEAN, receiptJournal' \subseteq Receipts
        PROVE  ProcurementTyped'
    BY <1>0 DEF ProcurementTyped
  <1>1. CASE CreatePurchaseRequest
    BY <1>1, <1>0 DEF CreatePurchaseRequest, ProcurementTyped
  <1>2. ASSUME UNCHANGED <<purchaseRequest, order, receipt, stockAndLedger, twicePosted, reopened>>
        PROVE  ProcurementTyped'
    BY <1>2 DEF ProcurementTyped
  <1>3. ASSUME NEW x \in BuyTxns, NEW b \in BOOLEAN,
               SubmitRequestWrite(x) \/ DecideRequestWrite(x, b)
        PROVE  ProcurementTyped'
    <2>1. reopened' \in BOOLEAN
      BY <1>3 DEF SubmitRequestWrite, DecideRequestWrite
    <2> QED  BY <1>0, <1>3, <2>1 DEF SubmitRequestWrite, DecideRequestWrite, ProcurementTyped
  <1>4. ASSUME NEW x \in BuyTxns, NEW b \in BOOLEAN, PostReceiptFails(x, b)
        PROVE  ProcurementTyped'
    <2>1. buying[x].receipt \in Receipts
      BY <1>4 DEF PostReceiptFails, ProcurementIInv, ProcurementSound, BuyingSound
    <2> QED  BY <1>4, <2>1 DEF PostReceiptFails, ProcurementTyped
  <1>5. ASSUME NEW x \in BuyTxns, CreateOrderWrite(x)
        PROVE  ProcurementTyped'
    <2>1. buying[x].order \in Orders /\ buying[x].requested \in BOOLEAN
      BY <1>5 DEF CreateOrderWrite, ProcurementIInv, ProcurementSound, BuyingSound
    <2> DEFINE row == [status |-> "draft", requested |-> buying[x].requested, received |-> 0]
    <2>2. row \in OrderRow
      BY <2>1 DEF OrderRow, OrderStatuses
    <2>3. /\ order' = [order EXCEPT ![buying[x].order] = row]
          /\ purchaseRequest' \in {"converted", purchaseRequest}
          /\ UNCHANGED <<receipt, stockAndLedger, twicePosted>>
      BY <1>5 DEF CreateOrderWrite
    <2>4. reopened' \in BOOLEAN
      BY <1>5 DEF CreateOrderWrite
    <2> HIDE DEF row
    <2> QED  BY <2>1, <2>2, <2>3, <2>4 DEF ProcurementTyped
  <1>6. ASSUME NEW x \in BuyTxns, IssueOrderWrite(x)
        PROVE  ProcurementTyped'
    <2>1. buying[x].order \in Orders
      BY <1>6 DEF IssueOrderWrite, ProcurementIInv, ProcurementSound, BuyingSound
    <2>2. /\ order' = [order EXCEPT ![buying[x].order].status = "issued"]
          /\ UNCHANGED <<purchaseRequest, receipt, stockAndLedger, twicePosted>>
      BY <1>6 DEF IssueOrderWrite
    <2>3. reopened' \in BOOLEAN
      BY <1>6 DEF IssueOrderWrite
    <2> QED  BY <2>1, <2>2, <2>3 DEF ProcurementTyped, OrderRow, OrderStatuses
  <1>7. ASSUME NEW x \in BuyTxns, NEW g \in Receipts, CreateReceiptWrite(x, g)
        PROVE  ProcurementTyped'
    <2>1. buying[x].order \in Orders /\ buying[x].qty \in Nat
      BY <1>7 DEF CreateReceiptWrite, ProcurementIInv, ProcurementSound, BuyingSound,
         ReceivedIInv, ReceiptsSound, ReceivingSound
    <2> QED  BY <1>7, <2>1 DEF CreateReceiptWrite, ProcurementTyped, ReceiptRow
  <1>8. ASSUME NEW x \in BuyTxns, PostReceiptWrite(x)
        PROVE  ProcurementTyped'
    <2> DEFINE g == buying[x].receipt
               o == receipt[g].order
               got == order[o].received + receipt[g].qty
               status == IF got >= QtyOrdered THEN "received" ELSE "partially_received"
    <2>1. g \in Receipts
      BY <1>8 DEF PostReceiptWrite, ProcurementIInv, ProcurementSound, BuyingSound
    <2>2. o \in Orders
      BY <1>8, <2>1 DEF PostReceiptWrite, ProcurementIInv, ProcurementSound, BuyingSound
    <2>3. got \in Nat /\ status \in OrderStatuses
      BY <2>1, <2>2 DEF ReceivedIInv, ReceiptsSound, OrderStatuses
    <2>4. /\ order' = [order EXCEPT ![o].received = got, ![o].status = status]
          /\ receipt' = [receipt EXCEPT ![g].status = "posted"]
          /\ movedFor' = movedFor \cup {g} /\ receiptJournal' = receiptJournal \cup {g}
          /\ twicePosted' \subseteq twicePosted \cup {g}
          /\ UNCHANGED <<purchaseRequest, reopened>>
      BY <1>8 DEF PostReceiptWrite
    <2> HIDE DEF g, o, got, status
    <2>5. order' \in [Orders -> OrderRow]
      BY <2>2, <2>3, <2>4 DEF ProcurementTyped, OrderRow
    <2>6. receipt' \in [Receipts -> ReceiptRow]
      BY <2>1, <2>4 DEF ProcurementTyped, ReceiptRow
    <2> QED  BY <2>1, <2>4, <2>5, <2>6 DEF ProcurementTyped
  <1> QED
    BY <1>1, <1>2, <1>3, <1>4, <1>5, <1>6, <1>7, <1>8
    DEF ProcurementNext, SubmitRequestRead, DecideRequestRead, CreateOrderRead, IssueOrderRead,
        CreateReceiptRead, PostReceiptRead

\* The initial states have the types.
LEMMA ProcurementTypesStart == ProcurementInit => ProcurementTyped
  <1> SUFFICES ASSUME ProcurementInit
               PROVE  ProcurementTyped
    OBVIOUS
  <1>1. order \in [Orders -> OrderRow]
    BY DEF ProcurementInit, OrderRow, OrderStatuses
  <1>2. receipt \in [Receipts -> ReceiptRow]
    BY DEF ProcurementInit, ReceiptRow
  <1>3. /\ purchaseRequest = "none" /\ movedFor = {} /\ receiptJournal = {}
        /\ twicePosted = {} /\ reopened = FALSE
    BY DEF ProcurementInit
  <1> QED  BY <1>1, <1>2, <1>3 DEF ProcurementTyped

\* A step elsewhere leaves them.
LEMMA ProcurementTypesIdle == ProcurementTyped /\ UNCHANGED procurementVars => ProcurementTyped'
  BY DEF ProcurementTyped, procurementVars

(* The types: fixed assets *)

Made == {a \in Assignments : assignment[a] # "none"}

\* assigned_at follows the assignments that were made, and a depreciation is run
\* as of a day.
AssetsTyped ==
    /\ asset \in [status : {"none", "in_stock", "assigned"}, salvage : Salvages \cup {0},
                  life : UsefulLives \cup {1}, accumulated : Nat, last : 0..LastMonthDay]
    /\ assignment \in [Assignments -> {"none", "open", "returned"}]
    /\ assignedOrder \in [Assignments -> Nat]
    /\ \A a \in Assignments : assignedOrder[a] <= Cardinality(Made)
    /\ raced \in BOOLEAN
    /\ \A x \in AssetTxns : assetWork[x].op = "depreciate" =>
          assetWork[x].asOf \in 0..LastMonthDay

\* The last assignment of all comes no later than their number.
LEMMA LastAssigned ==
    ASSUME assignedOrder \in [Assignments -> Nat], NEW n \in Nat, NEW a \in Assignments,
           \A b \in Assignments : assignedOrder[b] <= n
    PROVE  Max(Range(assignedOrder)) \in Nat /\ Max(Range(assignedOrder)) <= n
  <1> DEFINE S == Range(assignedOrder)
  <1>1. S = {assignedOrder[b] : b \in Assignments}
    BY DEF Range
  <1>2. IsFiniteSet(S)
    BY <1>1, ImageFinite, FixedAssetsAssumption
  <1>3. S \subseteq Nat /\ S # {} /\ \A m \in S : m <= n
    BY <1>1
  <1> HIDE DEF S
  <1>4. \E m \in S : \A c \in S : m >= c
    BY <1>2, <1>3, HasMinMax
  <1>5. Max(S) \in S
    BY <1>4 DEF Max
  <1> QED  BY <1>3, <1>5 DEF S

\* Every step of the assets keeps the types.
LEMMA AssetsKeepTypes ==
    ASSUME AssetsIInv, AssetsTyped, FixedAssetsNext
    PROVE  AssetsTyped'
  <1>w. ASSUME NEW x \in AssetTxns, NEW what, Work(x, what) \/ Worked(x)
        PROVE  /\ \A y \in AssetTxns \ {x} : assetWork'[y] = assetWork[y]
               /\ Work(x, what) => assetWork'[x] = what
               /\ Worked(x) => assetWork'[x].op = "idle"
    BY <1>w DEF Work, Worked, NotWorking, AssetsIInv, AssetsSound
  <1>m. \A S \in SUBSET Assignments : IsFiniteSet(S) /\ Cardinality(S) \in Nat
    BY FixedAssetsAssumption, FS_Subset, FS_CardinalityType
  <1>i. ASSUME UNCHANGED <<assignment, assignedOrder>>
        PROVE  Made' = Made
    BY <1>i DEF Made
  <1>1. ASSUME NEW salvage \in Salvages, NEW life \in UsefulLives,
               CreateAsset(salvage, life) \/ UpdateAsset(salvage, life)
        PROVE  AssetsTyped'
    <2>1. UNCHANGED <<assignment, assignedOrder, assetWork, raced>>
      BY <1>1 DEF CreateAsset, UpdateAsset
    <2>2. asset' \in [status : {"none", "in_stock", "assigned"}, salvage : Salvages \cup {0},
                  life : UsefulLives \cup {1}, accumulated : Nat, last : 0..LastMonthDay]
      BY <1>1 DEF CreateAsset, UpdateAsset, AssetsTyped
    <2> QED  BY <1>i, <2>1, <2>2 DEF AssetsTyped
  <1>2. ASSUME NEW x \in AssetTxns, NEW what, Work(x, what),
               what.op = "depreciate" => what.asOf \in 0..LastMonthDay,
               UNCHANGED <<asset, assignment, assignedOrder, raced>>
        PROVE  AssetsTyped'
    <2>1. \A y \in AssetTxns : assetWork'[y].op = "depreciate" =>
             assetWork'[y].asOf \in 0..LastMonthDay
      BY <1>2, <1>w DEF AssetsTyped
    <2> QED  BY <1>2, <1>i, <2>1 DEF AssetsTyped
  <1>3. ASSUME NEW x \in AssetTxns, NEW a \in Assignments, AssignAssetWrite(x, a)
        PROVE  AssetsTyped'
    <2>1. /\ Worked(x) /\ assignment[a] = "none"
          /\ assignment' = [assignment EXCEPT ![a] = "open"]
          /\ assignedOrder' = [assignedOrder EXCEPT ![a] = 1 + Max(Range(assignedOrder))]
          /\ asset' = [asset EXCEPT !.status = "assigned"]
      BY <1>3 DEF AssignAssetWrite
    <2>2. raced' \in BOOLEAN
      BY <1>3 DEF AssignAssetWrite
    <2>3. Made' = Made \cup {a} /\ a \notin Made
      BY <2>1 DEF Made, AssetsTyped
    <2>4. Cardinality(Made') = Cardinality(Made) + 1 /\ Cardinality(Made) \in Nat
      BY <1>m, <2>3, FS_AddElement DEF Made
    <2>5. Max(Range(assignedOrder)) \in Nat /\ Max(Range(assignedOrder)) <= Cardinality(Made)
      BY <2>4, LastAssigned DEF AssetsTyped
    <2>6. /\ assignedOrder' \in [Assignments -> Nat]
          /\ \A b \in Assignments : assignedOrder'[b] <= Cardinality(Made)'
      BY <2>1, <2>4, <2>5 DEF AssetsTyped
    <2>7. \A y \in AssetTxns : assetWork'[y].op = "depreciate" =>
             assetWork'[y].asOf \in 0..LastMonthDay
      BY <2>1, <1>w DEF AssetsTyped
    <2> QED  BY <2>1, <2>2, <2>6, <2>7 DEF AssetsTyped
  <1>5. ASSUME NEW x \in AssetTxns, ReturnAssetWrite(x)
        PROVE  AssetsTyped'
    <2> DEFINE a == assetWork[x].assignment
    <2>0. a \in Assignments
      BY <1>5 DEF ReturnAssetWrite, AssetsIInv, AssetReadsSound
    <2>1. /\ Worked(x) /\ assignment' = [assignment EXCEPT ![a] = "returned"]
          /\ asset' = [asset EXCEPT !.status = "in_stock"]
          /\ UNCHANGED assignedOrder
      BY <1>5 DEF ReturnAssetWrite
    <2>2. raced' \in BOOLEAN
      BY <1>5 DEF ReturnAssetWrite
    <2> HIDE DEF a
    <2>3. Made \subseteq Made' /\ Made' \subseteq Assignments
      BY <2>0, <2>1 DEF Made, AssetsTyped
    <2>4. Cardinality(Made) <= Cardinality(Made') /\ Cardinality(Made) \in Nat
             /\ Cardinality(Made') \in Nat
      BY <1>m, <2>3, FS_Subset
    <2>5. \A b \in Assignments : assignedOrder'[b] <= Cardinality(Made)'
      BY <2>1, <2>4 DEF AssetsTyped
    <2>6. \A y \in AssetTxns : assetWork'[y].op = "depreciate" =>
             assetWork'[y].asOf \in 0..LastMonthDay
      BY <2>1, <1>w DEF AssetsTyped
    <2> QED  BY <2>0, <2>1, <2>2, <2>5, <2>6 DEF AssetsTyped
  <1>7. ASSUME NEW x \in AssetTxns, DepreciateWrite(x)
        PROVE  AssetsTyped'
    <2> DEFINE w == assetWork[x]
    <2>1. w.seen + w.amount \in Nat /\ w.asOf \in 0..LastMonthDay
      BY <1>7 DEF DepreciateWrite, AssetsIInv, AssetReadsSound, AssetsTyped
    <2>2. /\ Worked(x) /\ UNCHANGED <<assignment, assignedOrder>>
          /\ asset' = [asset EXCEPT !.accumulated = w.seen + w.amount, !.last = w.asOf]
      BY <1>7 DEF DepreciateWrite
    <2>3. raced' \in BOOLEAN
      BY <1>7 DEF DepreciateWrite
    <2> HIDE DEF w
    <2>4. \A y \in AssetTxns : assetWork'[y].op = "depreciate" =>
             assetWork'[y].asOf \in 0..LastMonthDay
      BY <2>2, <1>w DEF AssetsTyped
    <2> QED  BY <1>i, <2>1, <2>2, <2>3, <2>4 DEF AssetsTyped
  <1>8. ASSUME NEW x \in AssetTxns, NEW inJournal \in BOOLEAN, DepreciateFails(x, inJournal)
        PROVE  AssetsTyped'
    <2>1. Worked(x) /\ UNCHANGED <<asset, assignment, assignedOrder, raced>>
      BY <1>8 DEF DepreciateFails
    <2>2. \A y \in AssetTxns : assetWork'[y].op = "depreciate" =>
             assetWork'[y].asOf \in 0..LastMonthDay
      BY <2>1, <1>w DEF AssetsTyped
    <2> QED  BY <1>i, <2>1, <2>2 DEF AssetsTyped
  <1>9. ASSUME NEW x \in AssetTxns, AssignAssetRead(x)
        PROVE  AssetsTyped'
    BY <1>2, <1>9 DEF AssignAssetRead
  <1>10. ASSUME NEW x \in AssetTxns, NEW a \in Assignments, ReturnAssetRead(x, a)
        PROVE  AssetsTyped'
    BY <1>2, <1>10 DEF ReturnAssetRead
  <1>11. ASSUME NEW x \in AssetTxns, NEW asOf \in 0..LastMonthDay, DepreciateRead(x, asOf)
        PROVE  AssetsTyped'
    BY <1>2, <1>11 DEF DepreciateRead
  <1> QED  BY <1>1, <1>3, <1>5, <1>7, <1>8, <1>9, <1>10, <1>11 DEF FixedAssetsNext

\* The initial states have the types.
LEMMA AssetsTypesStart == FixedAssetsInit => AssetsTyped
  <1> SUFFICES ASSUME FixedAssetsInit
               PROVE  AssetsTyped
    OBVIOUS
  <1>1. asset \in [status : {"none", "in_stock", "assigned"}, salvage : Salvages \cup {0},
                  life : UsefulLives \cup {1}, accumulated : Nat, last : 0..LastMonthDay]
    <2>1. 0 \in 0..LastMonthDay
      BY FixedAssetsAssumption
    <2> QED  BY <2>1 DEF FixedAssetsInit
  <1>2. /\ assignment \in [Assignments -> {"none", "open", "returned"}]
        /\ assignedOrder \in [Assignments -> Nat] /\ raced \in BOOLEAN
        /\ \A x \in AssetTxns : assetWork[x].op = "idle"
        /\ \A a \in Assignments : assignedOrder[a] = 0
    BY DEF FixedAssetsInit, NotWorking
  <1>3. Cardinality(Made) \in Nat
    <2>1. IsFiniteSet(Made)
      BY FixedAssetsAssumption, FS_Subset DEF Made
    <2> QED  BY <2>1, FS_CardinalityType
  <1> QED  BY <1>1, <1>2, <1>3 DEF AssetsTyped

\* A step elsewhere leaves them.
LEMMA AssetsTypesIdle == AssetsTyped /\ UNCHANGED fixedAssetsVars => AssetsTyped'
  <1> SUFFICES ASSUME AssetsTyped, UNCHANGED fixedAssetsVars
               PROVE  AssetsTyped'
    OBVIOUS
  <1>1. UNCHANGED <<asset, assignment, assignedOrder, assetWork, raced>>
    BY DEF fixedAssetsVars
  <1>2. Made' = Made
    BY <1>1 DEF Made
  <1> QED  BY <1>1, <1>2 DEF AssetsTyped

\* The invariant and the types together are the type invariant of the module.
LEMMA AssetsAreTyped == AssetsIInv /\ AssetsTyped => FixedAssetsTypeOK
  <1> SUFFICES ASSUME AssetsIInv, AssetsTyped
               PROVE  FixedAssetsTypeOK
    OBVIOUS
  <1>1. /\ Cardinality(Made) \in Nat /\ Cardinality(Assignments) \in Nat
        /\ Cardinality(Made) <= Cardinality(Assignments)
    <2>1. IsFiniteSet(Assignments) /\ Made \subseteq Assignments
      BY FixedAssetsAssumption DEF Made
    <2> QED  BY <2>1, FS_Subset, FS_CardinalityType
  <1>2. assignedOrder \in [Assignments -> 0..Cardinality(Assignments)]
    BY <1>1 DEF AssetsTyped
  <1> QED  BY <1>2 DEF AssetsIInv, AssetsSound, AssetsTyped, FixedAssetsTypeOK

=============================================================================
