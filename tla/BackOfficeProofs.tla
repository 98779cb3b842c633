-------------------------- MODULE BackOfficeProofs --------------------------
(***************************************************************************)
(* Theorems about the business services, for every set of documents,       *)
(* items, orders, assets, employees, projects and requests.  The finance   *)
(* and inventory components are in FinanceInventoryProofs, those of HR and *)
(* projects are here, and the last section puts them together for          *)
(* BackOfficeSpec, in which one component moves at a time.                 *)
(***************************************************************************)
EXTENDS MCBackOffice, FinanceInventoryProofs

-----------------------------------------------------------------------------
(* Leave *)

RequestKeys(r) == {<<"debit", r>>, <<"cancel", r>>}
EntriesOf(r) == {e \in ledger : e.key \in RequestKeys(r)}

\* The entries S of a request r whose row is row: an approved request has its
\* debit, a cancelled one no entry or its debit and the credit of it.
Settled(row, r, S) ==
    /\ row.status = "approved" =>
          \E d : S = {d} /\ d.key = <<"debit", r>> /\ d.units = -row.units
    /\ row.status = "cancelled" =>
          \/ S = {}
          \/ \E d, c : S = {d, c} /\ d # c /\ d.units = -row.units /\ c.units = row.units
    /\ row.status \notin {"approved", "cancelled"} => S = {}

\* What a request to the service has read of the leave request it will write.
AnswerSound(w) ==
    /\ w.op \in {"submit", "decide", "cancel"} => w.req \in LeaveRequests
    /\ w.op = "submit" => w.seen = "draft"
    /\ w.op = "decide" => w.seen = "pending_approval"
    /\ w.op = "cancel" => w.seen \in {"draft", "pending_approval", "approved"}

\* Entries are whole numbers, and those of a carry-forward come with it.
LedgerSound ==
    /\ IsFiniteSet(ledger)
    /\ \A e \in ledger :
          /\ e.units \in Int /\ e.from \in Int /\ e.expires \in Int
          /\ \A y \in Years : e.key \in {<<"cf", y>>, <<"cf-zero", y>>} => y \in carried

LeaveSound ==
    /\ DOMAIN leave = LeaveRequests /\ DOMAIN leaving = LeaveTxns
    /\ \A r \in LeaveRequests : DOMAIN leave[r] = {"status", "start", "units"}
                                /\ leave[r].units \in Nat /\ leave[r].start \in Int
    /\ today \in Int
    /\ \A x \in LeaveTxns : AnswerSound(leaving[x])
    /\ \A r \in LeaveRequests \ lateLeave : Settled(leave[r], r, EntriesOf(r))

PutOnLeave == presence = "on_leave" /\ ~byHand

OnLeave ==
    PutOnLeave =>
        \/ lateLeave # {}
        \/ \E r \in LeaveRequests : leave[r].status = "approved" /\ leave[r].start <= today

LeaveIInv == LedgerSound /\ LeaveSound /\ OnLeave

\* Keys that differ in a part differ.
LEMMA KeysDiffer ==
    ASSUME NEW a, NEW b, NEW c, NEW d, <<a, b>> = <<c, d>>
    PROVE  a = c /\ b = d
  OBVIOUS

\* Entries of another kind, or of another request, are not a request's.
LEMMA OtherEntries ==
    ASSUME NEW r, NEW N, ledger' = ledger \cup N,
           \A e \in N : \E kind, k : e.key = <<kind, k>>
                           /\ (kind \notin {"debit", "cancel"} \/ k # r)
    PROVE  EntriesOf(r)' = EntriesOf(r)
  <1>1. \A e \in N : e.key \notin RequestKeys(r)
    BY KeysDiffer DEF RequestKeys
  <1> QED  BY <1>1 DEF EntriesOf, RequestKeys

\* Entries with whole numbers keep the ledger sound.
LEMMA LedgerGrows ==
    ASSUME LedgerSound, NEW N, ledger' = ledger \cup N, IsFiniteSet(N),
           carried \subseteq carried',
           \A e \in N : /\ e.units \in Int /\ e.from \in Int /\ e.expires \in Int
                        /\ \A y \in Years : e.key \in {<<"cf", y>>, <<"cf-zero", y>>} =>
                              y \in carried'
    PROVE  LedgerSound'
  <1>1. IsFiniteSet(ledger')
    BY FS_Union DEF LedgerSound
  <1> QED  BY <1>1 DEF LedgerSound

\* An entry has the fields it is made of.
LEMMA EntryFields ==
    ASSUME NEW key, NEW units, NEW from, NEW expires
    PROVE  /\ Entry(key, units, from, expires).key = key
           /\ Entry(key, units, from, expires).units = units
           /\ Entry(key, units, from, expires).from = from
           /\ Entry(key, units, from, expires).expires = expires
  BY DEF Entry

\* A step that adds no entry of a request and leaves the requests and what is
\* known of them.
LEMMA LeaveStays ==
    ASSUME LeaveIInv, LedgerSound', UNCHANGED <<leave, lateLeave>>, PutOnLeave' => PutOnLeave,
           today' \in Int, today <= today',
           \A r \in LeaveRequests : EntriesOf(r)' = EntriesOf(r),
           DOMAIN leaving' = LeaveTxns, \A x \in LeaveTxns : AnswerSound(leaving[x])'
    PROVE  LeaveIInv'
  <1>1. LeaveSound'
    BY DEF LeaveIInv, LeaveSound
  <1>2. OnLeave'
    BY DEF LeaveIInv, LeaveSound, OnLeave
  <1> QED  BY <1>1, <1>2 DEF LeaveIInv

\* A request is written with a status, and the entries N of its are added.
LEMMA RequestWritten ==
    ASSUME LeaveIInv, NEW r \in LeaveRequests, NEW N, ledger' = ledger \cup N, IsFiniteSet(N),
           \A e \in N : e.units \in Int /\ e.from \in Int /\ e.expires \in Int
              /\ e.key \in RequestKeys(r),
           UNCHANGED <<carried, today>>,
           DOMAIN leave' = LeaveRequests, DOMAIN leave'[r] = {"status", "start", "units"},
           leave'[r].units \in Nat, leave'[r].start \in Int,
           \A q \in LeaveRequests \ {r} : leave'[q] = leave[q],
           lateLeave' \in {lateLeave, lateLeave \cup {r}},
           r \notin lateLeave' => Settled(leave'[r], r, EntriesOf(r) \cup N),
           DOMAIN leaving' = LeaveTxns, \A x \in LeaveTxns : AnswerSound(leaving[x])'
    PROVE  LedgerSound' /\ LeaveSound'
  <1>1. LedgerSound'
    <2>1. ASSUME NEW e \in N, NEW y \in Years
          PROVE  e.key \notin {<<"cf", y>>, <<"cf-zero", y>>}
      BY KeysDiffer DEF RequestKeys
    <2> QED  BY <2>1, LedgerGrows DEF LeaveIInv
  <1>2. EntriesOf(r)' = EntriesOf(r) \cup N
    BY DEF EntriesOf, RequestKeys
  <1>3. ASSUME NEW q \in LeaveRequests \ {r}
        PROVE  EntriesOf(q)' = EntriesOf(q)
    <2>1. \A e \in N : \E kind, k : e.key = <<kind, k>> /\ k # q
      BY DEF RequestKeys
    <2> QED  BY <2>1, OtherEntries
  <1>4. ASSUME NEW q \in LeaveRequests \ lateLeave'
        PROVE  Settled(leave'[q], q, EntriesOf(q)')
    <2>1. CASE q = r
      BY <1>2, <1>4, <2>1
    <2>2. CASE q # r
      <3>1. q \notin lateLeave
        BY <1>4
      <3> QED  BY <1>3, <2>2, <3>1 DEF LeaveIInv, LeaveSound
    <2> QED  BY <2>1, <2>2
  <1>5. \A q \in LeaveRequests \ lateLeave' : Settled(leave[q], q, EntriesOf(q))'
    BY <1>4 DEF Settled
  <1>6. LeaveSound'
    BY <1>5 DEF LeaveIInv, LeaveSound
  <1> QED  BY <1>1, <1>6

\* insert_ledger_entry adds an entry whose key is new.
LEMMA PostAdds ==
    ASSUME NEW e, e.units \in Int, e.from \in Int, e.expires \in Int
    PROVE  /\ Post(e) \subseteq {e} /\ IsFiniteSet(Post(e))
           /\ (\A d \in ledger : d.key # e.key) => Post(e) = {e}
  <1>1. IsFiniteSet({e}) /\ Post(e) \subseteq {e}
    BY FS_Singleton DEF Post
  <1>2. IsFiniteSet(Post(e))
    BY <1>1, FS_Subset
  <1> QED  BY <1>1, <1>2 DEF Post

\* A balance is a whole number.
LEMMA BalanceType ==
    ASSUME LedgerSound, NEW day
    PROVE  BalanceAsOf(ledger, day) \in Int
  <1> DEFINE counted == {e \in ledger : /\ e.from <= day
                                        /\ ~(e.expires # Never /\ e.units > 0 /\ e.expires < day)}
             F == [e \in counted |-> e.units]
  <1>1. IsFiniteSet(counted) /\ \A e \in counted : F[e] \in Int
    BY FS_Subset DEF LedgerSound
  <1>2. BalanceAsOf(ledger, day) = SumFunctionOnSet(F, counted)
    BY DEF BalanceAsOf, Units, SumFunction
  <1> HIDE DEF F, counted
  <1> QED  BY <1>1, <1>2, SumType

\* The last day of a year is a day.
LEMMA YearEndType ==
    ASSUME NEW y \in Years
    PROVE  YearEnd(y) \in Int /\ y \in Int
  BY LeaveAssumption DEF Years, YearEnd

\* Two entries that a carry-forward may add.
LEMMA CarryForwardStays ==
    ASSUME LeaveIInv, NEW y \in Years, RunCarryForward(y)
    PROVE  LeaveIInv'
  <1> DEFINE balance == BalanceAsOf(ledger, YearEnd(y))
             granted == IF balance > 0 THEN CarryForwardCredit(balance) ELSE 0
             zero == Entry(<<"cf-zero", y>>, -balance, YearEnd(y) + 1, Never)
             cf == Entry(<<"cf", y>>, granted, YearEnd(y) + 1, YearEnd(y) + ExpiryDays)
             N == (IF balance # 0 THEN Post(zero) ELSE {}) \cup (IF granted > 0 THEN Post(cf) ELSE {})
  <1>1. balance \in Int /\ YearEnd(y) \in Int
    BY BalanceType, YearEndType DEF LeaveIInv
  <1>2. granted \in Int /\ YearEnd(y) + 1 \in Int /\ YearEnd(y) + ExpiryDays \in Int
           /\ -balance \in Int /\ Never \in Int
    BY <1>1, LeaveAssumption DEF CarryForwardCredit, Never
  <1>3. /\ zero.key = <<"cf-zero", y>> /\ zero.units \in Int /\ zero.from \in Int
              /\ zero.expires \in Int
        /\ cf.key = <<"cf", y>> /\ cf.units \in Int /\ cf.from \in Int /\ cf.expires \in Int
    <2> HIDE DEF balance, granted
    <2> QED  BY <1>2, EntryFields
  <1> HIDE DEF balance, granted, zero, cf
  <1>4. N \subseteq {zero, cf} /\ IsFiniteSet(N)
    <2>1. Post(zero) \subseteq {zero} /\ Post(cf) \subseteq {cf}
          /\ IsFiniteSet(Post(zero)) /\ IsFiniteSet(Post(cf))
      BY <1>3, PostAdds
    <2> QED  BY <2>1, FS_Union, FS_EmptySet
  <1>5. ledger' = ledger \cup N /\ carried' = carried \cup {y}
        /\ UNCHANGED <<leave, presence, byHand, today, leaving, lateLeave>>
    BY DEF RunCarryForward, balance, granted, zero, cf
  <1> HIDE DEF N
  <1>6. LedgerSound'
    <2>1. ASSUME NEW e \in N, NEW k \in Years, e.key \in {<<"cf", k>>, <<"cf-zero", k>>}
          PROVE  k \in carried'
      BY <1>3, <1>4, <1>5, <2>1, KeysDiffer
    <2> QED  BY <1>3, <1>4, <1>5, <2>1, LedgerGrows DEF LeaveIInv
  <1>7. ASSUME NEW r \in LeaveRequests
        PROVE  EntriesOf(r)' = EntriesOf(r)
    <2>1. \A e \in N : \E kind, k : e.key = <<kind, k>> /\ kind \notin {"debit", "cancel"}
      BY <1>3, <1>4
    <2> QED  BY <1>5, <2>1, OtherEntries
  <1> QED  BY <1>5, <1>6, <1>7, LeaveStays DEF LeaveIInv, LeaveSound, AnswerSound, PutOnLeave

\* An accrual is no entry of a request.
LEMMA AccrualStays ==
    ASSUME LeaveIInv, NEW day \in AccrualDays, AccrueLeave(day)
    PROVE  LeaveIInv'
  <1> DEFINE e == Entry(<<"accrual", day>>, AccrualUnits, day, Never)
  <1>1. e.key = <<"accrual", day>> /\ e.units \in Int /\ e.from \in Int /\ e.expires \in Int
    BY EntryFields, LeaveAssumption DEF Never
  <1>2. ledger' = ledger \cup {e}
           /\ UNCHANGED <<leave, presence, byHand, today, leaving, lateLeave, carried>>
    BY DEF AccrueLeave
  <1> HIDE DEF e
  <1>3. LedgerSound'
    <2>1. ASSUME NEW k \in Years
          PROVE  e.key \notin {<<"cf", k>>, <<"cf-zero", k>>}
      BY <1>1, KeysDiffer
    <2> QED  BY <1>1, <1>2, <2>1, FS_Singleton, LedgerGrows DEF LeaveIInv
  <1>4. ASSUME NEW r \in LeaveRequests
        PROVE  EntriesOf(r)' = EntriesOf(r)
    <2> DEFINE N == {e}
    <2>1. \A d \in N : \E kind, k : d.key = <<kind, k>> /\ kind \notin {"debit", "cancel"}
      BY <1>1
    <2>2. ledger' = ledger \cup N
      BY <1>2
    <2> HIDE DEF N
    <2> QED  BY <2>1, <2>2, OtherEntries
  <1> QED  BY <1>2, <1>3, <1>4, LeaveStays DEF LeaveIInv, LeaveSound, AnswerSound, PutOnLeave

\* A handler that has read a request has read what it will act on.
LEMMA ReadStays ==
    ASSUME LeaveIInv, NEW x \in LeaveTxns, NEW r \in LeaveRequests,
           SubmitLeaveRead(x, r) \/ CancelLeaveRead(x, r) \/ DecideLeaveRead(x, r)
    PROVE  LeaveIInv'
  <1>1. PICK op : /\ Ask(x, op, r)
                  /\ \/ op = "submit" /\ leave[r].status = "draft"
                     \/ op = "decide" /\ leave[r].status = "pending_approval"
                     \/ op = "cancel"
                           /\ leave[r].status \in {"draft", "pending_approval", "approved"}
    BY DEF SubmitLeaveRead, CancelLeaveRead, DecideLeaveRead
  <1>2. UNCHANGED <<leave, ledger, presence, byHand, today, carried, lateLeave>>
    BY <1>1 DEF Ask
  <1>3. DOMAIN leaving' = LeaveTxns /\ \A w \in LeaveTxns : AnswerSound(leaving[w])'
    BY <1>1 DEF Ask, LeaveIInv, LeaveSound, AnswerSound
  <1>4. LedgerSound' /\ \A q \in LeaveRequests : EntriesOf(q)' = EntriesOf(q)
    BY <1>2 DEF LeaveIInv, LedgerSound, EntriesOf, RequestKeys
  <1> QED  BY <1>2, <1>3, <1>4, LeaveStays DEF LeaveIInv, LeaveSound, PutOnLeave

\* A day passes: a leave that had started stays started.
LEMMA NewDaySound ==
    ASSUME LeaveIInv, DayPasses
    PROVE  LeaveIInv'
  <1>1. UNCHANGED <<leave, ledger, presence, byHand, leaving, carried, lateLeave>>
           /\ today' = today + 1
    BY DEF DayPasses
  <1>2. LedgerSound' /\ \A q \in LeaveRequests : EntriesOf(q)' = EntriesOf(q)
    BY <1>1 DEF LeaveIInv, LedgerSound, EntriesOf, RequestKeys
  <1> QED  BY <1>1, <1>2, LeaveStays DEF LeaveIInv, LeaveSound, AnswerSound, PutOnLeave

\* A status that an employee handler writes puts nobody on leave by a decision.
LEMMA StatusByHand ==
    ASSUME LeaveIInv, NEW status, WriteEmployeeStatus(status)
    PROVE  LeaveIInv'
  <1>1. UNCHANGED <<leave, ledger, today, carried, leaving, lateLeave>> /\ ~PutOnLeave'
    BY DEF WriteEmployeeStatus, PutOnLeave
  <1>2. LedgerSound' /\ \A q \in LeaveRequests : EntriesOf(q)' = EntriesOf(q)
    BY <1>1 DEF LeaveIInv, LedgerSound, EntriesOf, RequestKeys
  <1> QED  BY <1>1, <1>2, LeaveStays DEF LeaveIInv, LeaveSound, AnswerSound

\* The debit of a request.
LEMMA DebitFields ==
    ASSUME NEW r, NEW units \in Nat, NEW start \in Int
    PROVE  LET d == Entry(<<"debit", r>>, -units, start, Never)
           IN  d.key = <<"debit", r>> /\ d.units = -units /\ d.units \in Int /\ d.from \in Int
              /\ d.expires \in Int
               /\ d.key \in RequestKeys(r)
  BY EntryFields DEF Never, RequestKeys

\* A request that is created approved comes with its debit.
LEMMA CreateStays ==
    ASSUME LeaveIInv, NEW r \in LeaveRequests, NEW start \in LeaveStarts,
           NEW units \in LeaveLengths,
           NEW submit \in BOOLEAN, CreateLeaveRequest(r, start, units, submit)
    PROVE  LeaveIInv'
  <1> DEFINE status == IF submit THEN SubmittedStatus ELSE "draft"
             d == Entry(<<"debit", r>>, -units, start, Never)
             N == IF status = "approved" THEN {d} ELSE {}
  <1>0. units \in Nat /\ start \in Int
    BY LeaveAssumption
  <1>1. d.key = <<"debit", r>> /\ d.units = -units /\ d.units \in Int /\ d.from \in Int
           /\ d.expires \in Int
        /\ d.key \in RequestKeys(r)
    BY <1>0, DebitFields
  <1>2. status \in {"draft", "pending_approval", "approved"}
    BY DEF SubmittedStatus
  <1>3. /\ leave[r].status = "none"
        /\ leave' = [leave EXCEPT ![r] = [status |-> status, start |-> start, units |-> units]]
        /\ ledger' = ledger \cup N
        /\ UNCHANGED <<presence, byHand, today, carried, leaving, lateLeave>>
    BY DEF CreateLeaveRequest
  <1> HIDE DEF status, d
  <1>4. N \subseteq {d} /\ IsFiniteSet(N)
    BY FS_Singleton, FS_EmptySet
  <1>5. DOMAIN leave = LeaveRequests
    BY DEF LeaveIInv, LeaveSound
  <1>6. /\ DOMAIN leave' = LeaveRequests /\ DOMAIN leave'[r] = {"status", "start", "units"}
        /\ leave'[r].units = units /\ leave'[r].start = start /\ leave'[r].status = status
        /\ \A q \in LeaveRequests \ {r} : leave'[q] = leave[q]
    BY <1>3, <1>5
  <1>7. r \notin lateLeave' => Settled(leave'[r], r, EntriesOf(r) \cup N)
    <2>1. SUFFICES ASSUME r \notin lateLeave'
                   PROVE  Settled(leave'[r], r, EntriesOf(r) \cup N)
      OBVIOUS
    <2>2. EntriesOf(r) = {}
      <3>1. Settled(leave[r], r, EntriesOf(r))
        BY <1>3, <2>1 DEF LeaveIInv, LeaveSound
      <3> QED  BY <1>3, <3>1 DEF Settled
    <2>3. EntriesOf(r) \cup N = N
      BY <2>2
    <2>4. CASE status = "approved"
      <3>1. N = {d}
        BY <2>4
      <3> QED  BY <1>1, <1>6, <2>3, <2>4, <3>1 DEF Settled
    <2>5. CASE status # "approved"
      <3>1. N = {}
        BY <2>5
      <3> QED  BY <1>2, <1>6, <2>3, <2>5, <3>1 DEF Settled
    <2> QED  BY <2>4, <2>5
  <1>8. LedgerSound' /\ LeaveSound'
    <2>1. \A w \in LeaveTxns : AnswerSound(leaving[w])'
      BY <1>3 DEF LeaveIInv, LeaveSound, AnswerSound
    <2>2. \A e \in N : e.units \in Int /\ e.from \in Int /\ e.expires \in Int
             /\ e.key \in RequestKeys(r)
      BY <1>1, <1>4
    <2>3. DOMAIN leaving' = LeaveTxns
      BY <1>3 DEF LeaveIInv, LeaveSound
    <2> HIDE DEF N
    <2>4. lateLeave' \in {lateLeave, lateLeave \cup {r}} /\ UNCHANGED <<carried, today>>
          /\ leave'[r].units \in Nat /\ leave'[r].start \in Int /\ ledger' = ledger \cup N
      BY <1>0, <1>3, <1>6
    <2> QED  BY <1>4, <1>6, <1>7, <2>1, <2>2, <2>3, <2>4, RequestWritten
  <1>9. OnLeave'
    BY <1>3, <1>6 DEF LeaveIInv, OnLeave, PutOnLeave
  <1> QED  BY <1>8, <1>9 DEF LeaveIInv

\* What Answer does to the rows and to what is known of the reads.
LEMMA Answered ==
    ASSUME LeaveIInv, NEW x \in LeaveTxns, NEW status, Answer(x, status),
           NEW r \in LeaveRequests, r = leaving[x].req
    PROVE  /\ DOMAIN leave' = LeaveRequests /\ DOMAIN leave'[r] = {"status", "start", "units"}
           /\ leave'[r].units = leave[r].units /\ leave'[r].start = leave[r].start
                 /\ leave'[r].status = status
           /\ leave'[r].units \in Nat /\ leave'[r].start \in Int
           /\ \A q \in LeaveRequests \ {r} : leave'[q] = leave[q]
           /\ lateLeave' \in {lateLeave, lateLeave \cup {r}}
           /\ r \notin lateLeave' => r \notin lateLeave /\ leave[r].status = leaving[x].seen
           /\ UNCHANGED <<carried, today>>
           /\ DOMAIN leaving' = LeaveTxns /\ \A w \in LeaveTxns : AnswerSound(leaving[w])'
  <1>1. DOMAIN leave = LeaveRequests /\ DOMAIN leaving = LeaveTxns
        /\ DOMAIN leave[r] = {"status", "start", "units"} /\ leave[r].units \in Nat
              /\ leave[r].start \in Int
        /\ \A w \in LeaveTxns : AnswerSound(leaving[w])
    BY DEF LeaveIInv, LeaveSound
  <1>2. leave' = [leave EXCEPT ![r].status = status]
           /\ leaving' = [leaving EXCEPT ![x] = NotLeaving]
        /\ lateLeave' = (IF leave[r].status = leaving[x].seen THEN lateLeave ELSE lateLeave \cup {r})
        /\ UNCHANGED <<carried, today>>
    BY DEF Answer
  <1>3. /\ DOMAIN leave' = LeaveRequests /\ DOMAIN leave'[r] = {"status", "start", "units"}
        /\ leave'[r].units = leave[r].units /\ leave'[r].start = leave[r].start
              /\ leave'[r].status = status
        /\ \A q \in LeaveRequests \ {r} : leave'[q] = leave[q]
    BY <1>1, <1>2
  <1>4. DOMAIN leaving' = LeaveTxns /\ \A w \in LeaveTxns : AnswerSound(leaving[w])'
    BY <1>1, <1>2 DEF NotLeaving, AnswerSound
  <1> QED  BY <1>1, <1>2, <1>3, <1>4

\* A submission or a decision writes a request it read before it was approved,
\* and debits it when it approves it.
LEMMA ApprovalStays ==
    ASSUME LeaveIInv, NEW x \in LeaveTxns,
           NEW status \in {"pending_approval", "approved", "rejected"},
           leaving[x].op \in {"submit", "decide"}, Answer(x, status),
           ledger' = IF status = "approved" THEN ledger \cup Post(Debit(leaving[x].req)) ELSE ledger,
           PutOnLeave' =>
              PutOnLeave \/ (status = "approved" /\ leave[leaving[x].req].start <= today)
    PROVE  LeaveIInv'
  <1> DEFINE r == leaving[x].req
             d == Debit(r)
             N == IF status = "approved" THEN Post(d) ELSE {}
  <1>1. r \in LeaveRequests /\ leaving[x].seen \in {"draft", "pending_approval"}
    BY DEF LeaveIInv, LeaveSound, AnswerSound
  <1>2. /\ DOMAIN leave' = LeaveRequests /\ DOMAIN leave'[r] = {"status", "start", "units"}
        /\ leave'[r].units = leave[r].units /\ leave'[r].start = leave[r].start
              /\ leave'[r].status = status
        /\ leave'[r].units \in Nat /\ leave'[r].start \in Int
        /\ \A q \in LeaveRequests \ {r} : leave'[q] = leave[q]
        /\ lateLeave' \in {lateLeave, lateLeave \cup {r}}
        /\ r \notin lateLeave' => r \notin lateLeave /\ leave[r].status = leaving[x].seen
        /\ UNCHANGED <<carried, today>>
        /\ DOMAIN leaving' = LeaveTxns /\ \A w \in LeaveTxns : AnswerSound(leaving[w])'
    BY <1>1, Answered
  <1>3. d.key = <<"debit", r>> /\ d.units = -leave[r].units /\ d.units \in Int
           /\ d.from \in Int /\ d.expires \in Int
        /\ d.key \in RequestKeys(r)
    BY <1>2, DebitFields DEF Debit
  <1>4. /\ PutOnLeave' => PutOnLeave \/ (status = "approved" /\ leave[r].start <= today)
        /\ ledger' = ledger \cup N
    OBVIOUS
  <1> HIDE DEF d, r
  <1>5. /\ N \subseteq {d} /\ IsFiniteSet(N)
        /\ status = "approved" /\ (\A e \in ledger : e.key # d.key) => N = {d}
    BY <1>3, PostAdds, FS_EmptySet
  <1>6. status # "approved" => N = {}
    OBVIOUS
  <1> HIDE DEF N
  <1>7. r \notin lateLeave' => Settled(leave'[r], r, EntriesOf(r) \cup N)
    <2>1. SUFFICES ASSUME r \notin lateLeave'
                   PROVE  Settled(leave'[r], r, EntriesOf(r) \cup N)
      OBVIOUS
    <2>2. EntriesOf(r) = {}
      <3>1. Settled(leave[r], r, EntriesOf(r))
               /\ leave[r].status \in {"draft", "pending_approval"}
        BY <1>1, <1>2, <2>1 DEF LeaveIInv, LeaveSound
      <3> QED  BY <3>1 DEF Settled
    <2>3. EntriesOf(r) \cup N = N /\ \A e \in ledger : e.key # d.key
      BY <1>3, <2>2 DEF EntriesOf
    <2>4. CASE status = "approved"
      <3>1. N = {d}
        BY <1>5, <2>3, <2>4
      <3> QED  BY <1>2, <1>3, <2>3, <2>4, <3>1 DEF Settled
    <2>5. CASE status # "approved"
      BY <1>2, <1>6, <2>3, <2>5 DEF Settled
    <2> QED  BY <2>4, <2>5
  <1>8. LedgerSound' /\ LeaveSound'
    <2>1. \A e \in N : e.units \in Int /\ e.from \in Int /\ e.expires \in Int
             /\ e.key \in RequestKeys(r)
      BY <1>3, <1>5
    <2> QED  BY <1>1, <1>2, <1>4, <1>5, <1>7, <2>1, RequestWritten
  <1>9. OnLeave'
    <2>1. SUFFICES ASSUME PutOnLeave', lateLeave' = {}
                   PROVE  \E q \in LeaveRequests : leave'[q].status = "approved"
                             /\ leave'[q].start <= today'
      BY DEF OnLeave
    <2>2. leave[r].status \in {"draft", "pending_approval"}
      BY <1>1, <1>2, <2>1
    <2>3. CASE status = "approved" /\ leave[r].start <= today
      BY <1>1, <1>2, <2>3
    <2>4. CASE PutOnLeave
      <3>1. PICK q \in LeaveRequests : leave[q].status = "approved" /\ leave[q].start <= today
        BY <1>2, <2>1, <2>4 DEF LeaveIInv, OnLeave
      <3> QED  BY <1>2, <2>2, <3>1
    <2> QED  BY <1>4, <2>1, <2>3, <2>4
  <1> QED  BY <1>8, <1>9 DEF LeaveIInv

\* A cancellation credits the debit of a request that was approved when it was
\* read, and ends the leave of an employee who has no other that is current.
LEMMA CancelStays ==
    ASSUME LeaveIInv, NEW x \in LeaveTxns, CancelLeaveWrite(x)
    PROVE  LeaveIInv'
  <1> DEFINE r == leaving[x].req
             c == Entry(<<"cancel", r>>, leave[r].units, today, Never)
             approved == leaving[x].seen = "approved"
             N == IF approved THEN Post(c) ELSE {}
  <1>1. r \in LeaveRequests /\ leaving[x].seen \in {"draft", "pending_approval", "approved"}
    BY DEF LeaveIInv, LeaveSound, AnswerSound, CancelLeaveWrite
  <1>2. /\ DOMAIN leave' = LeaveRequests /\ DOMAIN leave'[r] = {"status", "start", "units"}
        /\ leave'[r].units = leave[r].units /\ leave'[r].start = leave[r].start
              /\ leave'[r].status = "cancelled"
        /\ leave'[r].units \in Nat /\ leave'[r].start \in Int
        /\ \A q \in LeaveRequests \ {r} : leave'[q] = leave[q]
        /\ lateLeave' \in {lateLeave, lateLeave \cup {r}}
        /\ r \notin lateLeave' => r \notin lateLeave /\ leave[r].status = leaving[x].seen
        /\ UNCHANGED <<carried, today>>
        /\ DOMAIN leaving' = LeaveTxns /\ \A w \in LeaveTxns : AnswerSound(leaving[w])'
    BY <1>1, Answered DEF CancelLeaveWrite
  <1>3. c.key = <<"cancel", r>> /\ c.units = leave[r].units /\ c.units \in Int
           /\ c.from \in Int /\ c.expires \in Int
        /\ c.key \in RequestKeys(r)
    BY <1>2, EntryFields DEF LeaveIInv, LeaveSound, Never, RequestKeys
  <1>4. /\ ledger' = ledger \cup N
        /\ PutOnLeave' => PutOnLeave /\ (approved => \E q \in LeaveRequests \ {r} : Current(q))
    <2>1. ledger' = ledger \cup N
      BY DEF CancelLeaveWrite
    <2>2. IF approved /\ ~\E q \in LeaveRequests \ {r} : Current(q)
          THEN StatusBecomes("on_leave", "active") ELSE UNCHANGED <<presence, byHand>>
      BY DEF CancelLeaveWrite
    <2> HIDE DEF approved, N, r
    <2> QED  BY <2>1, <2>2 DEF StatusBecomes, PutOnLeave
  <1>5. approved <=> leaving[x].seen = "approved"
    OBVIOUS
  <1> HIDE DEF c, r
  <1>6. /\ N \subseteq {c} /\ IsFiniteSet(N)
        /\ approved /\ (\A e \in ledger : e.key # c.key) => N = {c}
    BY <1>3, PostAdds, FS_EmptySet
  <1>7. ~approved => N = {}
    OBVIOUS
  <1> HIDE DEF N, approved
  <1>8. r \notin lateLeave' => Settled(leave'[r], r, EntriesOf(r) \cup N)
    <2>1. SUFFICES ASSUME r \notin lateLeave'
                   PROVE  Settled(leave'[r], r, EntriesOf(r) \cup N)
      OBVIOUS
    <2>2. Settled(leave[r], r, EntriesOf(r)) /\ leave[r].status = leaving[x].seen
      BY <1>1, <1>2, <2>1 DEF LeaveIInv, LeaveSound
    <2>3. CASE approved
      <3>1. PICK d : EntriesOf(r) = {d} /\ d.key = <<"debit", r>> /\ d.units = -leave[r].units
        BY <1>5, <2>2, <2>3 DEF Settled
      <3>2. \A e \in ledger : e.key # c.key
        <4>1. ASSUME NEW e \in ledger, e.key = c.key
              PROVE  FALSE
          <5>1. e \in EntriesOf(r)
            BY <1>3, <4>1 DEF EntriesOf
          <5> QED  BY <1>3, <3>1, <4>1, <5>1, KeysDiffer
        <4> QED  BY <4>1
      <3>3. EntriesOf(r) \cup N = {d, c} /\ d # c
        <4>1. N = {c}
          BY <1>6, <2>3, <3>2
        <4>2. d # c
          BY <1>3, <3>1, KeysDiffer
        <4> QED  BY <3>1, <4>1, <4>2
      <3> QED  BY <1>2, <1>3, <3>1, <3>3 DEF Settled
    <2>4. CASE ~approved
      <3>1. EntriesOf(r) = {}
        BY <1>1, <1>5, <2>2, <2>4 DEF Settled
      <3> QED  BY <1>2, <1>7, <2>4, <3>1 DEF Settled
    <2> QED  BY <2>3, <2>4
  <1>9. LedgerSound' /\ LeaveSound'
    <2>1. \A e \in N : e.units \in Int /\ e.from \in Int /\ e.expires \in Int
             /\ e.key \in RequestKeys(r)
      BY <1>3, <1>6
    <2>2. ledger' = ledger \cup N
      BY <1>4
    <2> QED  BY <1>1, <1>2, <1>6, <1>8, <2>1, <2>2, RequestWritten
  <1>10. OnLeave'
    <2>1. SUFFICES ASSUME PutOnLeave', lateLeave' = {}
                   PROVE  \E q \in LeaveRequests : leave'[q].status = "approved"
                             /\ leave'[q].start <= today'
      BY DEF OnLeave
    <2>2. PutOnLeave /\ (approved => \E q \in LeaveRequests \ {r} : Current(q))
      BY <1>4, <2>1
    <2>3. CASE approved
      BY <1>2, <2>2, <2>3 DEF Current
    <2>4. CASE ~approved
      <3>1. leave[r].status # "approved"
        BY <1>2, <1>5, <2>1, <2>4
      <3>2. PICK q \in LeaveRequests : leave[q].status = "approved" /\ leave[q].start <= today
        BY <1>2, <2>1, <2>2 DEF LeaveIInv, OnLeave
      <3> QED  BY <1>2, <3>1, <3>2
    <2> QED  BY <2>3, <2>4
  <1> QED  BY <1>9, <1>10 DEF LeaveIInv

\* Every step of leave keeps the invariant.
LEMMA LeaveStep == LeaveIInv /\ LeaveNext => LeaveIInv'
  <1> SUFFICES ASSUME LeaveIInv, LeaveNext
               PROVE  LeaveIInv'
    OBVIOUS
  <1>1. ASSUME NEW x \in LeaveTxns, SubmitLeaveWrite(x)
        PROVE  LeaveIInv'
    <2>1. SubmittedStatus \in {"pending_approval", "approved"}
      BY DEF SubmittedStatus
    <2> QED  BY <1>1, <2>1, ApprovalStays DEF SubmitLeaveWrite, PutOnLeave
  <1>2. ASSUME NEW x \in LeaveTxns, NEW approve \in BOOLEAN, DecideLeaveWrite(x, approve)
        PROVE  LeaveIInv'
    <2> DEFINE status == IF approve THEN "approved" ELSE "rejected"
    <2>1. status \in {"pending_approval", "approved", "rejected"} /\ Answer(x, status)
          /\ leaving[x].op \in {"submit", "decide"}
      BY <1>2 DEF DecideLeaveWrite
    <2>2. ledger' = IF status = "approved" THEN ledger \cup Post(Debit(leaving[x].req)) ELSE ledger
      BY <1>2 DEF DecideLeaveWrite
    <2>3. PutOnLeave' =>
             PutOnLeave \/ (status = "approved" /\ leave[leaving[x].req].start <= today)
      BY <1>2 DEF DecideLeaveWrite, StatusBecomes, PutOnLeave
    <2> HIDE DEF status
    <2> QED  BY <2>1, <2>2, <2>3, ApprovalStays
  <1> QED  BY <1>1, <1>2, CarryForwardStays, AccrualStays, CreateStays, ReadStays, CancelStays,
              NewDaySound, StatusByHand DEF LeaveNext

\* The initial states satisfy it.
LEMMA LeaveBegins == LeaveInit => LeaveIInv
  <1> SUFFICES ASSUME LeaveInit
               PROVE  LeaveIInv
    OBVIOUS
  <1>1. LedgerSound
    BY FS_EmptySet DEF LeaveInit, LedgerSound
  <1>2. LeaveSound
    BY DEF LeaveInit, LeaveSound, NoLeave, NotLeaving, AnswerSound, Settled, EntriesOf
  <1>3. OnLeave
    BY DEF LeaveInit, OnLeave, PutOnLeave
  <1> QED  BY <1>1, <1>2, <1>3 DEF LeaveIInv

\* A step elsewhere leaves it.
LEMMA LeaveIdle == LeaveIInv /\ UNCHANGED leaveVars => LeaveIInv'
  BY DEF LeaveIInv, LedgerSound, LeaveSound, OnLeave, PutOnLeave, AnswerSound, Settled,
     EntriesOf, RequestKeys, leaveVars

\* What a request has in the ledger adds up to what it takes.
LEMMA LeaveLedgerHolds == LeaveIInv => LeaveLedgerMatchesRequests
  <1> SUFFICES ASSUME LeaveIInv
               PROVE  LeaveLedgerMatchesRequests
    OBVIOUS
  <1>1. ASSUME NEW r \in LeaveRequests \ lateLeave
        PROVE  Units(EntriesOf(r)) = IF leave[r].status = "approved" THEN -leave[r].units ELSE 0
    <2>1. Settled(leave[r], r, EntriesOf(r)) /\ leave[r].units \in Nat
      BY DEF LeaveIInv, LeaveSound
    <2>2. Units({}) = 0
      BY SumEmpty DEF Units, SumFunction
    <2>3. ASSUME NEW d, d.units \in Int
          PROVE  Units({d}) = d.units
      BY <2>3, SumOne DEF Units, SumFunction
    <2>4. ASSUME NEW d, NEW c, d # c, d.units \in Int, c.units = -d.units
          PROVE  Units({d, c}) = 0
      <3> DEFINE F == [e \in {d} |-> e.units]
                 G == [e \in {d, c} |-> e.units]
      <3>1. SumFunctionOnSet(F, {d}) = d.units
        BY <2>4, SumOne
      <3>2. c \notin {d} /\ G[c] = c.units /\ F[d] = d.units /\ G[d] = d.units
               /\ {d} \cup {c} = {d, c} /\ IsFiniteSet({d})
        BY <2>4, FS_Singleton
      <3>3. c.units \in Int /\ c.units + d.units = 0
        BY <2>4
      <3>4. Units({d, c}) = SumFunctionOnSet(G, {d, c})
        BY DEF Units, SumFunction
      <3> HIDE DEF F, G
      <3>5. SumFunctionOnSet(G, {d} \cup {c}) = G[c] + SumFunctionOnSet(F, {d})
        <4>1. \A e \in {d} : F[e] \in Int /\ G[e] = F[e]
          BY <2>4, <3>2
        <4> DEFINE S == {d}
        <4>2. IsFiniteSet(S) /\ c \notin S /\ \A e \in S : F[e] \in Int /\ G[e] = F[e]
          BY <3>2, <4>1
        <4> HIDE DEF S
        <4>3. SumFunctionOnSet(G, S \cup {c}) = G[c] + SumFunctionOnSet(F, S)
          BY <3>2, <3>3, <4>2, SumInsert
        <4> QED  BY <4>3 DEF S
      <3> QED  BY <3>1, <3>2, <3>3, <3>4, <3>5
    <2>5. CASE leave[r].status = "approved"
      <3>1. PICK d : EntriesOf(r) = {d} /\ d.units = -leave[r].units
        BY <2>1, <2>5 DEF Settled
      <3>2. d.units \in Int
        BY <2>1, <3>1
      <3> QED  BY <2>3, <2>5, <3>1, <3>2
    <2>6. CASE leave[r].status = "cancelled"
      <3>1. CASE EntriesOf(r) = {}
        BY <2>2, <2>6, <3>1
      <3>2. CASE \E d, c : EntriesOf(r) = {d, c} /\ d # c /\ d.units = -leave[r].units
               /\ c.units = leave[r].units
        <4>1. PICK d, c : EntriesOf(r) = {d, c} /\ d # c /\ d.units = -leave[r].units
                 /\ c.units = leave[r].units
          BY <3>2
        <4>2. d.units \in Int /\ c.units = -d.units
          BY <2>1, <4>1
        <4> QED  BY <2>4, <2>6, <4>1, <4>2
      <3> QED  BY <2>1, <2>6, <3>1, <3>2 DEF Settled
    <2>7. CASE leave[r].status \notin {"approved", "cancelled"}
      BY <2>1, <2>2, <2>7 DEF Settled
    <2> QED  BY <2>5, <2>6, <2>7
  <1>2. \A r \in LeaveRequests : {e \in ledger : e.key \in {<<"debit", r>>, <<"cancel", r>>}} = EntriesOf(r)
    BY DEF EntriesOf, RequestKeys
  <1> QED  BY <1>1, <1>2 DEF LeaveIInv, OnLeave, PutOnLeave, LeaveLedgerMatchesRequests

\* One entry more adds its units.
LEMMA EntryAdds ==
    ASSUME NEW S, IsFiniteSet(S), \A e \in S : e.units \in Int, NEW d, d \notin S,
           d.units \in Int
    PROVE  Units(S \cup {d}) = d.units + Units(S)
  <1> DEFINE F == [e \in S |-> e.units]
             T == S \cup {d}
             G == [e \in T |-> e.units]
  <1>1. Units(S) = SumFunctionOnSet(F, S) /\ Units(T) = SumFunctionOnSet(G, T)
    BY DEF Units, SumFunction
  <1>2. G[d] = d.units /\ \A e \in S : F[e] \in Int /\ G[e] = F[e]
    OBVIOUS
  <1> HIDE DEF F, G
  <1>3. SumFunctionOnSet(G, S \cup {d}) = G[d] + SumFunctionOnSet(F, S)
    BY <1>2, SumInsert
  <1> QED  BY <1>1, <1>2, <1>3

\* The credits that expire the day after a day are not counted from then on.
Counted(S, day) == {e \in S : /\ e.from <= day
                              /\ ~(e.expires # Never /\ e.units > 0 /\ e.expires < day)}

\* A carry-forward takes the balance of the year's last day and posts the credit.
LEMMA CapKept ==
    ASSUME LeaveIInv, NEW y \in Years, RunCarryForward(y)
    PROVE  KeepsTheCap(y)
  <1> DEFINE end == YearEnd(y)
             before == BalanceAsOf(ledger, end)
             effective == {e \in ledger' : e.from <= end \/ e \notin ledger}
             S == Counted(ledger, end)
             after == Counted(effective, end + 1)
             granted == IF before > 0 THEN CarryForwardCredit(before) ELSE 0
             zero == Entry(<<"cf-zero", y>>, -before, end + 1, Never)
             cf == Entry(<<"cf", y>>, granted, end + 1, end + ExpiryDays)
  <1>1. SUFFICES ASSUME \A e \in ledger : e.expires # end
                 PROVE  BalanceAsOf(effective, end + 1)
                           = IF before < 0 \/ ExpiryDays = 0 THEN 0
                             ELSE IF before < CarryCap THEN before ELSE CarryCap
    BY DEF KeepsTheCap
  <1>2. before \in Int /\ end \in Nat /\ CarryCap \in Nat /\ ExpiryDays \in Nat /\ Never = -1
    <2>1. end \in Nat
      BY LeaveAssumption DEF YearEnd, Years
    <2> QED  BY <2>1, BalanceType, LeaveAssumption DEF LeaveIInv, Never
  <1>3. /\ granted \in Nat
        /\ before <= 0 => granted = 0
        /\ before > 0 => granted = IF before < CarryCap THEN before ELSE CarryCap
    BY <1>2 DEF CarryForwardCredit
  <1>4. /\ BalanceAsOf(effective, end + 1) = Units(after)
        /\ before = Units(S)
    BY DEF BalanceAsOf, Counted
  <1>5. /\ y \notin carried
        /\ ledger' = ledger \cup (IF before # 0 THEN Post(zero) ELSE {})
                            \cup (IF granted > 0 THEN Post(cf) ELSE {})
    BY DEF RunCarryForward
  <1>6. /\ zero.key = <<"cf-zero", y>> /\ zero.units = -before /\ zero.from = end + 1
              /\ zero.expires = Never
        /\ cf.key = <<"cf", y>> /\ cf.units = granted /\ cf.from = end + 1
              /\ cf.expires = end + ExpiryDays
    BY EntryFields
  <1> HIDE DEF end, before, S, granted, zero, cf
  <1>7. \A e \in ledger : e.key # zero.key /\ e.key # cf.key
    BY <1>5, <1>6 DEF LeaveIInv, LedgerSound
  <1>8. Post(zero) = {zero} /\ Post(cf) = {cf} /\ zero \notin ledger /\ cf \notin ledger
           /\ zero # cf
    <2>1. Post(zero) = {zero} /\ Post(cf) = {cf} /\ zero \notin ledger /\ cf \notin ledger
      BY <1>7 DEF Post
    <2> QED  BY <1>6, <2>1, KeysDiffer
  <1> DEFINE N == (IF before # 0 THEN {zero} ELSE {}) \cup (IF granted > 0 THEN {cf} ELSE {})
  <1>9. ledger' = ledger \cup N
    BY <1>5, <1>8
  <1>10. \A e \in ledger : e.units \in Int /\ e.from \in Int /\ e.expires \in Int
    BY DEF LeaveIInv, LedgerSound
  <1>11. IsFiniteSet(S) /\ S \subseteq ledger /\ \A e \in S : e.units \in Int
    BY <1>10, FS_Subset DEF S, Counted, LeaveIInv, LedgerSound
  <1>12. after = S \cup {e \in N : e \in after}
    <2>1. ASSUME NEW e \in ledger
          PROVE  e \in after <=> e \in S
      <3>1. e.from \in Int /\ e.units \in Int /\ e.expires \in Int /\ e.expires # end
        BY <1>1, <1>10
      <3>2. e \in effective <=> e.from <= end
        BY <1>9
      <3>3. e \in after <=> /\ e.from <= end /\ e.from <= end + 1
                            /\ ~(e.expires # Never /\ e.units > 0 /\ e.expires < end + 1)
        BY <3>2 DEF Counted
      <3>4. e \in S <=> e.from <= end /\ ~(e.expires # Never /\ e.units > 0 /\ e.expires < end)
        BY DEF S, Counted
      <3> QED  BY <1>2, <3>1, <3>3, <3>4
    <2>2. after \subseteq ledger \cup N
      BY <1>9 DEF Counted
    <2> QED  BY <1>11, <2>1, <2>2
  <1>13. before # 0 => zero \in after
    <2>1. before # 0 => zero \in effective
      BY <1>8, <1>9
    <2> QED  BY <1>2, <1>6, <2>1 DEF Counted
  <1>14. granted > 0 => (cf \in after <=> ExpiryDays # 0)
    <2>1. granted > 0 => cf \in effective
      BY <1>8, <1>9
    <2> QED  BY <1>2, <1>3, <1>6, <2>1 DEF Counted
  <1> HIDE DEF after, effective
  <1>15. zero.units \in Int /\ cf.units \in Int /\ zero \notin S /\ cf \notin S \cup {zero}
         /\ IsFiniteSet(S \cup {zero}) /\ \A e \in S \cup {zero} : e.units \in Int
    <2>1. IsFiniteSet(S \cup {zero})
      BY <1>11, FS_AddElement
    <2>2. zero.units \in Int /\ cf.units \in Int
      BY <1>2, <1>3, <1>6
    <2> QED  BY <1>8, <1>11, <2>1, <2>2
  <1>16. Units(S \cup {zero}) = -before + Units(S)
            /\ Units((S \cup {zero}) \cup {cf}) = granted + Units(S \cup {zero})
    BY <1>6, <1>11, <1>15, EntryAdds
  <1>17. Units(S \cup {zero}) = 0 /\ Units((S \cup {zero}) \cup {cf}) = granted
    BY <1>2, <1>3, <1>4, <1>16
  <1>18. CASE before = 0
    <2>1. N = {}
      BY <1>3, <1>18
    <2>2. after = S
      BY <1>12, <2>1
    <2>3. BalanceAsOf(effective, end + 1) = 0
      BY <1>4, <1>18, <2>2
    <2>4. ~(before < CarryCap) => CarryCap = 0
      BY <1>2, <1>18
    <2> QED  BY <1>18, <2>3, <2>4
  <1>19. CASE before # 0 /\ granted > 0 /\ ExpiryDays # 0
    <2>1. after = (S \cup {zero}) \cup {cf}
      BY <1>12, <1>13, <1>14, <1>19
    <2> QED  BY <1>2, <1>3, <1>4, <1>17, <1>19, <2>1
  <1>20. CASE before # 0 /\ (granted = 0 \/ ExpiryDays = 0)
    <2>1. after = S \cup {zero}
      BY <1>12, <1>13, <1>14, <1>20
    <2> QED  BY <1>2, <1>3, <1>4, <1>17, <1>20, <2>1
  <1> QED  BY <1>3, <1>18, <1>19, <1>20

\* No other step than a carry-forward runs a year.
LEMMA CapKeptByAll == LeaveIInv /\ LeaveNext => \A y \in carried' \ carried : KeepsTheCap(y)
  <1> SUFFICES ASSUME LeaveIInv, LeaveNext, NEW y \in carried' \ carried
               PROVE  KeepsTheCap(y)
    OBVIOUS
  <1>1. PICK k \in Years : RunCarryForward(k)
    <2>1. carried' # carried
      OBVIOUS
    <2> QED  BY <2>1 DEF LeaveNext, AccrueLeave, CreateLeaveRequest, SubmitLeaveRead,
                CancelLeaveRead, DecideLeaveRead, Ask, SubmitLeaveWrite, CancelLeaveWrite,
                DecideLeaveWrite, Answer, WriteEmployeeStatus, DayPasses
  <1>2. y = k
    BY <1>1 DEF RunCarryForward
  <1> QED  BY <1>1, <1>2, CapKept

-----------------------------------------------------------------------------
(* Payroll *)

\* A run's entry, what its payslips say, and what a request that pays it has in
\* hand: the run is approved, and once the journal has answered it has an entry.
RunsSound ==
    /\ DOMAIN run = Runs /\ DOMAIN journaled = Runs /\ DOMAIN payWork = PayTxns
    /\ \A r \in Runs :
          /\ DOMAIN run[r] = {"status", "gross", "deductions"}
          /\ journaled[r] = 0 \/ journaled[r] > 0
    /\ \A s \in slips : DOMAIN s = {"run", "emp", "calc", "issued", "gross", "deductions"}
    /\ \A x \in PayTxns : payWork[x].op # "idle" =>
          /\ payWork[x].run \in Runs
          /\ DOMAIN payWork[x] = {"op", "run", "replaced"}
          /\ payWork[x].op \in {"pay", "posted"} => run[payWork[x].run].status \in Locked
          /\ payWork[x].op = "posted" => journaled[payWork[x].run] > 0

PayrollIInv == RunsSound /\ PaidAsApproved

\* A run changes its status as the trigger allows; nothing else of it changes.
LEMMA StatusStep ==
    ASSUME PayrollIInv, NEW x \in PayTxns, payWork[x].op # "idle", NEW status,
           status # "paid", SetStatus(x, status),
           UNCHANGED <<slips, journaled>>
    PROVE  PayrollIInv'
  <1> DEFINE r == payWork[x].run
  <1>1. r \in Runs /\ run[r].status \notin Locked
    BY DEF PayrollIInv, RunsSound, SetStatus, MayWrite, Locked
  <1>2. /\ DOMAIN run' = Runs /\ \A q \in Runs : DOMAIN run'[q] = DOMAIN run[q]
        /\ \A q \in Runs \ {r} : run'[q] = run[q]
        /\ run'[r].status = status /\ run'[r].gross = run[r].gross
    BY <1>1 DEF PayrollIInv, RunsSound, SetStatus
  <1>3. /\ DOMAIN payWork' = PayTxns
        /\ \A y \in PayTxns : payWork'[y] = payWork[y] \/ payWork'[y].op = "idle"
    BY DEF PayrollIInv, RunsSound, SetStatus, FinishRun, NoPayWork
  <1>4. RunsSound'
    BY <1>1, <1>2, <1>3 DEF PayrollIInv, RunsSound
  <1>5. PaidAsApproved'
    BY <1>1, <1>2 DEF PayrollIInv, PaidAsApproved, RunsSound, SlipsOf, Locked
  <1> QED  BY <1>4, <1>5 DEF PayrollIInv

\* Every step of a payroll run keeps the invariant.
LEMMA PayrollStep ==
    ASSUME PayrollIInv, PayrollNext
    PROVE  PayrollIInv'
  <1>c. ASSUME NEW r \in Runs, CreateRun(r)
        PROVE  PayrollIInv'
    <2>1. /\ DOMAIN run' = Runs /\ \A q \in Runs : DOMAIN run'[q] = DOMAIN run[q]
          /\ \A q \in Runs \ {r} : run'[q] = run[q]
          /\ run'[r].status = "draft" /\ run'[r].gross = run[r].gross
          /\ UNCHANGED <<slips, journaled, payWork>>
      BY <1>c DEF PayrollIInv, RunsSound, CreateRun
    <2>2. run[r].status = "none"
      BY <1>c DEF CreateRun
    <2>3. RunsSound'
      BY <2>1, <2>2 DEF PayrollIInv, RunsSound, Locked
    <2>4. PaidAsApproved'
      BY <2>1, <2>2 DEF PayrollIInv, RunsSound, PaidAsApproved, SlipsOf, Locked
    <2> QED  BY <2>3, <2>4 DEF PayrollIInv
  <1>1. ASSUME NEW r \in Runs, CreateRun(r)
        PROVE  PayrollIInv'
    BY <1>1, <1>c
  <1>2. ASSUME NEW r \in Runs, NEW adjusted \in Runs, AdjustRun(r, adjusted)
        PROVE  PayrollIInv'
    BY <1>2, <1>c DEF AdjustRun
  <1>3. ASSUME NEW e \in Staff, NEW s \in Situations, SituationChanges(e, s)
        PROVE  PayrollIInv'
    BY <1>3 DEF SituationChanges, PayrollIInv, RunsSound, PaidAsApproved, SlipsOf
  <1>f. ASSUME NEW x \in PayTxns, NEW op \in {"calculate", "submit", "decide", "pay"},
               NEW r \in Runs, NEW replaced, FetchRun(x, op, r, replaced),
               op = "pay" => run[r].status = "approved"
        PROVE  PayrollIInv'
    <2>1. /\ DOMAIN payWork' = PayTxns
          /\ \A y \in PayTxns \ {x} : payWork'[y] = payWork[y]
          /\ payWork'[x] = [op |-> op, run |-> r, replaced |-> replaced]
          /\ UNCHANGED <<run, slips, journaled>>
      BY <1>f DEF PayrollIInv, RunsSound, FetchRun
    <2>2. RunsSound'
      BY <1>f, <2>1 DEF PayrollIInv, RunsSound, Locked
    <2>3. PaidAsApproved'
      BY <2>1 DEF PayrollIInv, PaidAsApproved, SlipsOf
    <2> QED  BY <2>2, <2>3 DEF PayrollIInv
  <1>4. ASSUME NEW x \in PayTxns, NEW r \in Runs,
               CalculateRunRead(x, r) \/ SubmitRunRead(x, r) \/ DecideRunRead(x, r)
                  \/ PayRunRead(x, r)
        PROVE  PayrollIInv'
    BY <1>4, <1>f DEF CalculateRunRead, SubmitRunRead, DecideRunRead, PayRunRead
  <1>5. ASSUME NEW x \in PayTxns, NEW approve \in BOOLEAN, DecideRunWrite(x, approve)
        PROVE  PayrollIInv'
    <2> DEFINE status == IF approve THEN "approved" ELSE "calculated"
    <2>1. status # "paid" /\ SetStatus(x, status) /\ UNCHANGED <<slips, journaled>>
          /\ payWork[x].op # "idle"
      BY <1>5 DEF DecideRunWrite
    <2> HIDE DEF status
    <2> QED  BY <2>1, StatusStep
  <1>6. ASSUME NEW x \in PayTxns, CalculateRunWrite(x)
        PROVE  PayrollIInv'
    <2> DEFINE r == payWork[x].run
               new == NewSlips(r)
               total == [status |-> "calculated",
                         gross |-> GrossSum(new),
                         deductions |-> DeductionSum(new)]
    <2>1. /\ payWork[x].op = "calculate" /\ r \in Runs /\ run[r].status \notin Locked
          /\ run' = [run EXCEPT ![r] = total]
          /\ slips' = (slips \ SlipsOf(r)) \cup Remaining(x) \cup new
          /\ FinishRun(x) /\ UNCHANGED journaled
      BY <1>6 DEF CalculateRunWrite, PayrollIInv, RunsSound
    <2>2. DOMAIN total = {"status", "gross", "deductions"} /\ total.status = "calculated"
      OBVIOUS
    <2>3. \A s \in new : /\ DOMAIN s = {"run", "emp", "calc", "issued", "gross", "deductions"}
                         /\ s.run = r /\ s.issued = FALSE
      BY DEF NewSlips
    <2> HIDE DEF total, new
    <2>4. /\ DOMAIN run' = Runs
                /\ \A q \in Runs : DOMAIN run'[q] = {"status", "gross", "deductions"}
          /\ \A q \in Runs \ {r} : run'[q] = run[q]
          /\ run'[r].status = "calculated"
      BY <2>1, <2>2 DEF PayrollIInv, RunsSound
    <2>5. /\ DOMAIN payWork' = PayTxns
          /\ \A y \in PayTxns : payWork'[y] = payWork[y] \/ payWork'[y].op = "idle"
      BY <2>1 DEF PayrollIInv, RunsSound, FinishRun, NoPayWork
    <2>6. \A s \in slips' : s \in slips \/ s \in new
      BY <2>1 DEF Remaining, SlipsOf
    <2>7. RunsSound'
      BY <2>1, <2>3, <2>4, <2>5, <2>6 DEF PayrollIInv, RunsSound
    <2>8. \A q \in Runs : \A s \in SlipsOf(q)' : s.issued = (run'[q].status = "paid")
      BY <2>1, <2>3, <2>4, <2>6 DEF PayrollIInv, PaidAsApproved, SlipsOf, Locked
    <2>9. PaidAsApproved'
      BY <2>1, <2>4, <2>8 DEF PayrollIInv, RunsSound, PaidAsApproved, Locked
    <2> QED  BY <2>7, <2>9 DEF PayrollIInv
  <1>7. ASSUME NEW x \in PayTxns, SubmitRunWrite(x)
        PROVE  PayrollIInv'
    BY <1>7, StatusStep DEF SubmitRunWrite
  <1>8. ASSUME NEW x \in PayTxns, PostPayrollJournal(x)
        PROVE  PayrollIInv'
    <2> DEFINE r == payWork[x].run
    <2>1. /\ r \in Runs /\ run[r].status \in Locked /\ payWork[x].op = "pay" /\ run[r].gross > 0
          /\ UNCHANGED <<run, slips>>
      BY <1>8 DEF PostPayrollJournal, PayrollIInv, RunsSound
    <2>2. /\ DOMAIN payWork' = PayTxns
          /\ \A y \in PayTxns \ {x} : payWork'[y] = payWork[y]
          /\ DOMAIN payWork'[x] = DOMAIN payWork[x]
          /\ payWork'[x].op = "posted" /\ payWork'[x].run = r
      BY <1>8, <2>1 DEF PostPayrollJournal, PayrollIInv, RunsSound
    <2>3. /\ DOMAIN journaled' = Runs
          /\ \A q \in Runs \ {r} : journaled'[q] = journaled[q]
          /\ journaled'[r] > 0 /\ journaled'[r] = run[r].gross
      BY <1>8, <2>1 DEF PostPayrollJournal, PayrollIInv, RunsSound, PaidAsApproved
    <2>4. RunsSound'
      BY <2>1, <2>2, <2>3 DEF PayrollIInv, RunsSound
    <2>5. PaidAsApproved'
      BY <2>1, <2>3 DEF PayrollIInv, PaidAsApproved, SlipsOf
    <2> QED  BY <2>4, <2>5 DEF PayrollIInv
  <1>9. ASSUME NEW x \in PayTxns, PayRunWrite(x)
        PROVE  PayrollIInv'
    <2> DEFINE r == payWork[x].run
               issue(s) == IF s.run = r THEN [s EXCEPT !.issued = TRUE] ELSE s
    <2>1. /\ r \in Runs /\ journaled[r] > 0 /\ payWork[x].op = "posted"
          /\ run[r].status = "approved" /\ UNCHANGED journaled
          /\ run' = [run EXCEPT ![r].status = "paid"] /\ FinishRun(x)
          /\ slips' = {issue(s) : s \in slips}
      BY <1>9 DEF PayRunWrite, SetStatus, MayWrite, PayrollIInv, RunsSound, Locked
    <2>2. /\ DOMAIN run' = Runs /\ \A q \in Runs : DOMAIN run'[q] = DOMAIN run[q]
          /\ \A q \in Runs \ {r} : run'[q] = run[q]
          /\ run'[r].status = "paid" /\ run'[r].gross = run[r].gross
      BY <2>1 DEF PayrollIInv, RunsSound
    <2>3. /\ DOMAIN payWork' = PayTxns
          /\ \A y \in PayTxns : payWork'[y] = payWork[y] \/ payWork'[y].op = "idle"
      BY <2>1 DEF PayrollIInv, RunsSound, FinishRun, NoPayWork
    <2>4. ASSUME NEW s \in slips
          PROVE  /\ DOMAIN issue(s) = {"run", "emp", "calc", "issued", "gross", "deductions"}
                 /\ issue(s).run = s.run
                 /\ s.run = r => issue(s).issued = TRUE
                 /\ s.run # r => issue(s) = s
      BY DEF PayrollIInv, RunsSound
    <2>5. ASSUME NEW u \in slips'
          PROVE  \E s \in slips : /\ DOMAIN u = DOMAIN s /\ u.run = s.run
                                  /\ s.run = r => u.issued = TRUE
                                  /\ s.run # r => u = s
      BY <2>1, <2>4 DEF PayrollIInv, RunsSound
    <2> HIDE DEF issue
    <2>r. RunsSound'
      <3>1. \A u \in slips' : DOMAIN u = {"run", "emp", "calc", "issued", "gross", "deductions"}
        BY <2>5 DEF PayrollIInv, RunsSound
      <3> QED  BY <2>1, <2>2, <2>3, <3>1 DEF PayrollIInv, RunsSound, Locked
    <2>6. ASSUME NEW q \in Runs, NEW u \in slips', u.run = q
          PROVE  u.issued = (run'[q].status = "paid")
      <3>0. u.run = q
        BY <2>6
      <3>1. PICK s \in slips : /\ DOMAIN u = DOMAIN s /\ u.run = s.run
                               /\ s.run = r => u.issued = TRUE
                               /\ s.run # r => u = s
        BY <2>5
      <3>2. s.issued = (run[q].status = "paid")
        <4>0. s.run = q
          BY <3>0, <3>1
        <4>1. s \in SlipsOf(q)
          BY <4>0 DEF SlipsOf
        <4>2. \A t \in SlipsOf(q) : t.issued = (run[q].status = "paid")
          BY DEF PayrollIInv, PaidAsApproved
        <4> QED  BY <4>1, <4>2
      <3>3. CASE q = r
        BY <2>2, <2>6, <3>1, <3>3
      <3>4. CASE q # r
        <4>1. run'[q] = run[q] /\ u = s
          BY <2>2, <2>6, <3>1, <3>4
        <4> QED  BY <3>2, <4>1
      <3> QED  BY <3>3, <3>4
    <2>7. PaidAsApproved'
      BY <2>1, <2>2, <2>6 DEF PayrollIInv, PaidAsApproved, SlipsOf, Locked
    <2> QED  BY <2>r, <2>7 DEF PayrollIInv
  <1>10. ASSUME NEW x \in PayTxns, PayrollFails(x)
         PROVE  PayrollIInv'
    <2>1. /\ DOMAIN payWork' = PayTxns
          /\ \A y \in PayTxns : payWork'[y] = payWork[y] \/ payWork'[y].op = "idle"
          /\ UNCHANGED <<run, slips, journaled>>
      BY <1>10 DEF PayrollIInv, RunsSound, PayrollFails, FinishRun, NoPayWork
    <2>2. RunsSound' /\ PaidAsApproved'
      BY <2>1 DEF PayrollIInv, RunsSound, PaidAsApproved, SlipsOf
    <2> QED  BY <2>2 DEF PayrollIInv
  <1> QED
    BY <1>1, <1>2, <1>3, <1>4, <1>5, <1>6, <1>7, <1>8, <1>9, <1>10 DEF PayrollNext

\* The initial states satisfy it.
LEMMA PayrollStarts == PayrollInit => PayrollIInv
  BY DEF PayrollInit, PayrollIInv, RunsSound, PaidAsApproved, SlipsOf, NoRun, NoPayWork, Locked

\* A step elsewhere leaves it.
LEMMA PayrollIdle == PayrollIInv /\ UNCHANGED payrollVars => PayrollIInv'
  BY DEF payrollVars, PayrollIInv, RunsSound, PaidAsApproved, SlipsOf

\* A payslip for each employee of a run, with its amounts; their totals.
SlipRecord(s) ==
    /\ DOMAIN s = {"run", "emp", "calc", "issued", "gross", "deductions"}
    /\ s.gross \in Int /\ s.deductions \in Int
TotalsIInv ==
    /\ situation \in [Staff -> Situations] /\ DOMAIN run = Runs
    /\ \A r \in Runs : DOMAIN run[r] = {"status", "gross", "deductions"}
    /\ IsFiniteSet(slips) /\ \A s \in slips : SlipRecord(s)
    /\ PayslipsAddUp

\* What a calculation inserts for a run: one payslip per employee.
LEMMA NewSlipsSound ==
    ASSUME NEW r \in Runs, situation \in [Staff -> Situations]
    PROVE  /\ IsFiniteSet(NewSlips(r))
           /\ \A s \in NewSlips(r) : SlipRecord(s) /\ s.run = r
           /\ \A s, t \in NewSlips(r) : s.emp = t.emp => s = t
  <1> DEFINE slip(e) == [run |-> r, emp |-> e, calc |-> calculations + 1, issued |-> FALSE,
                         gross |-> GrossOf(situation[e]),
                         deductions |-> DeductionsOf(GrossOf(situation[e]))]
             S == {f \in Staff : situation[f].salary > 0 /\ GrossOf(situation[f]) # 0}
             h == [e \in S |-> slip(e)]
  <1>1. NewSlips(r) = {h[e] : e \in S}
    BY DEF NewSlips
  <1>2. IsFiniteSet(S)
    BY PayrollAssumption, FS_Subset
  <1>3. ASSUME NEW e \in S
        PROVE  SlipRecord(slip(e)) /\ slip(e).run = r /\ slip(e).emp = e
    <2>1. /\ situation[e].salary \in Nat /\ situation[e].unpaid \in Nat
                /\ situation[e].hours \in Nat
      BY PayrollAssumption
    <2> DEFINE p == situation[e].salary * situation[e].unpaid
               o == OvertimeRate * situation[e].hours
    <2>2. p \in Nat /\ o \in Nat
      BY <2>1, PayrollAssumption
    <2>3. GrossOf(situation[e]) = situation[e].salary - p \div WorkingDays + o
      BY DEF GrossOf
    <2> HIDE DEF p, o
    <2>4. GrossOf(situation[e]) \in Int
      BY <2>1, <2>2, <2>3, PayrollAssumption
    <2> DEFINE g == GrossOf(situation[e])
               t == g * TaxPercent
    <2>5. t \in Int /\ DeductionsOf(g) = t \div 100
      BY <2>4, PayrollAssumption DEF DeductionsOf
    <2> HIDE DEF g, t
    <2>6. DeductionsOf(g) \in Int
      BY <2>5
    <2> QED  BY <2>4, <2>6 DEF SlipRecord, g
  <1> HIDE DEF slip, S
  <1>4. \A e \in S : h[e] = slip(e)
    OBVIOUS
  <1>5. IsFiniteSet({h[e] : e \in S})
    BY <1>2, ImageFinite
  <1> HIDE DEF h
  <1> QED  BY <1>1, <1>3, <1>4, <1>5

\* Payslips that change in something else have the totals they had.
LEMMA TotalsSame ==
    ASSUME NEW S, IsFiniteSet(S), NEW h, NEW T, T = {h[s] : s \in S},
           \A s \in S : /\ s.gross \in Int /\ s.deductions \in Int
                        /\ h[s].gross = s.gross /\ h[s].deductions = s.deductions,
           \A s, t \in S : h[s] = h[t] => s = t
    PROVE  GrossSum(T) = GrossSum(S) /\ DeductionSum(T) = DeductionSum(S)
  <1>1. GrossSum(T) = GrossSum(S)
    <2> DEFINE F == [s \in S |-> s.gross]
               G == [u \in T |-> u.gross]
    <2>1. \A x \in S : F[x] \in Int /\ G[h[x]] = F[x]
      OBVIOUS
    <2>2. GrossSum(S) = SumFunctionOnSet(F, S) /\ GrossSum(T) = SumFunctionOnSet(G, T)
      BY DEF GrossSum, SumFunction
    <2> HIDE DEF F, G
    <2> QED  BY <2>1, <2>2, SumImage
  <1>2. DeductionSum(T) = DeductionSum(S)
    <2> DEFINE F == [s \in S |-> s.deductions]
               G == [u \in T |-> u.deductions]
    <2>1. \A x \in S : F[x] \in Int /\ G[h[x]] = F[x]
      OBVIOUS
    <2>2. DeductionSum(S) = SumFunctionOnSet(F, S) /\ DeductionSum(T) = SumFunctionOnSet(G, T)
      BY DEF DeductionSum, SumFunction
    <2> HIDE DEF F, G
    <2> QED  BY <2>1, <2>2, SumImage
  <1> QED  BY <1>1, <1>2

\* A step that leaves the payslips and the totals of the runs.
LEMMA TotalsStay ==
    ASSUME TotalsIInv, UNCHANGED <<slips, payOverlapped>>, situation' \in [Staff -> Situations],
           DOMAIN run' = Runs,
           \A r \in Runs : /\ DOMAIN run'[r] = DOMAIN run[r] /\ run'[r].gross = run[r].gross
                           /\ run'[r].deductions = run[r].deductions
    PROVE  TotalsIInv'
  <1>1. \A r \in Runs : SlipsOf(r)' = SlipsOf(r)
    BY DEF SlipsOf
  <1>2. PayslipsAddUp'
    BY <1>1 DEF TotalsIInv, PayslipsAddUp
  <1> QED  BY <1>2 DEF TotalsIInv, SlipRecord

\* Every step of a payroll run keeps the totals.
LEMMA TotalsStep ==
    ASSUME PayrollIInv, TotalsIInv, PayrollNext
    PROVE  TotalsIInv'
  <1>c. ASSUME NEW r \in Runs, CreateRun(r)
        PROVE  TotalsIInv'
    <2>1. /\ DOMAIN run' = Runs
          /\ \A q \in Runs : /\ DOMAIN run'[q] = DOMAIN run[q] /\ run'[q].gross = run[q].gross
                             /\ run'[q].deductions = run[q].deductions
          /\ UNCHANGED <<slips, situation, payOverlapped>>
      BY <1>c DEF TotalsIInv, CreateRun
    <2>2. situation' \in [Staff -> Situations]
      BY <2>1 DEF TotalsIInv
    <2> QED  BY <2>1, <2>2, TotalsStay
  <1>1. ASSUME NEW r \in Runs, NEW adjusted \in Runs, CreateRun(r) \/ AdjustRun(r, adjusted)
        PROVE  TotalsIInv'
    BY <1>1, <1>c DEF AdjustRun
  <1>2. ASSUME NEW e \in Staff, NEW s \in Situations, SituationChanges(e, s)
        PROVE  TotalsIInv'
    <2>1. situation' \in [Staff -> Situations] /\ UNCHANGED <<run, slips, payOverlapped>>
      BY <1>2 DEF SituationChanges, TotalsIInv
    <2>2. DOMAIN run' = Runs
      BY <2>1 DEF TotalsIInv
    <2> QED  BY <2>1, <2>2, TotalsStay
  <1>s. ASSUME NEW x \in PayTxns, NEW status, payWork[x].op # "idle", SetStatus(x, status)
        PROVE  /\ DOMAIN run' = Runs
               /\ \A q \in Runs : /\ DOMAIN run'[q] = DOMAIN run[q]
                                        /\ run'[q].gross = run[q].gross
                                  /\ run'[q].deductions = run[q].deductions
    BY <1>s DEF TotalsIInv, SetStatus
  <1>3. ASSUME NEW x \in PayTxns, NEW status, payWork[x].op # "idle", SetStatus(x, status),
               UNCHANGED <<slips, situation, payOverlapped>>
        PROVE  TotalsIInv'
    <2>1. situation' \in [Staff -> Situations]
      BY <1>3 DEF TotalsIInv
    <2> QED  BY <1>3, <1>s, <2>1, TotalsStay
  <1>4. ASSUME UNCHANGED <<run, slips, situation, payOverlapped>>
        PROVE  TotalsIInv'
    BY <1>4, TotalsStay DEF TotalsIInv
  <1>5. ASSUME NEW x \in PayTxns, CalculateRunWrite(x)
        PROVE  TotalsIInv'
    <2>r. PICK r \in Runs : r = payWork[x].run
      BY <1>5 DEF CalculateRunWrite, PayrollIInv, RunsSound
    <2> DEFINE new == NewSlips(r)
               total == [status |-> "calculated", gross |-> GrossSum(new), deductions |-> DeductionSum(new)]
    <2>1. /\ run' = [run EXCEPT ![r] = total] /\ UNCHANGED situation
          /\ slips' = (slips \ SlipsOf(r)) \cup Remaining(x) \cup new
          /\ \A s \in Remaining(x), n \in new : s.emp # n.emp
          /\ payOverlapped' = IF Remaining(x) = {} THEN payOverlapped \ {r} ELSE payOverlapped \cup {r}
      BY <1>5, <2>r DEF CalculateRunWrite, Clashes
    <2>2. /\ total.gross = GrossSum(new) /\ total.deductions = DeductionSum(new)
          /\ DOMAIN total = {"status", "gross", "deductions"}
      OBVIOUS
    <2>3. /\ IsFiniteSet(new) /\ \A s \in new : SlipRecord(s) /\ s.run = r
          /\ \A s, t \in new : s.emp = t.emp => s = t
      BY <2>1, NewSlipsSound DEF TotalsIInv
    <2> HIDE DEF new, total
    <2>4. Remaining(x) \subseteq SlipsOf(r)
      BY <2>r DEF Remaining
    <2>5. SlipsOf(r) \subseteq slips
      BY DEF SlipsOf
    <2>6. IsFiniteSet(slips')
      <3>1. IsFiniteSet((slips \ SlipsOf(r)) \cup Remaining(x))
        BY <2>4, <2>5, FS_Subset DEF TotalsIInv
      <3> QED  BY <2>1, <2>3, <3>1, FS_Union
    <2>7. \A s \in slips' : SlipRecord(s)
      BY <2>1, <2>3, <2>4, <2>5 DEF TotalsIInv
    <2>8. SlipsOf(r)' = Remaining(x) \cup new
      BY <2>1, <2>3, <2>4 DEF SlipsOf
    <2>9. \A q \in Runs \ {r} : SlipsOf(q)' = SlipsOf(q)
      BY <2>1, <2>3, <2>4 DEF SlipsOf
    <2>10. /\ DOMAIN run' = Runs /\ run'[r] = total
           /\ \A q \in Runs \ {r} : run'[q] = run[q]
      BY <2>1 DEF TotalsIInv
    <2>11. ASSUME NEW q \in Runs
           PROVE  /\ \A s, t \in SlipsOf(q)' : s.emp = t.emp => s = t
                  /\ q \notin payOverlapped' =>
                        /\ run'[q].gross = GrossSum(SlipsOf(q)')
                        /\ run'[q].deductions = DeductionSum(SlipsOf(q)')
      <3>1. /\ \A s, t \in SlipsOf(q) : s.emp = t.emp => s = t
            /\ q \notin payOverlapped => /\ run[q].gross = GrossSum(SlipsOf(q))
                                         /\ run[q].deductions = DeductionSum(SlipsOf(q))
        BY DEF TotalsIInv, PayslipsAddUp
      <3>2. CASE q # r
        <4>1. q \notin payOverlapped' => q \notin payOverlapped
          BY <2>1, <3>2
        <4> QED  BY <2>9, <2>10, <3>1, <3>2, <4>1
      <3>3. CASE q = r
        <4>1. \A s, t \in SlipsOf(r)' : s.emp = t.emp => s = t
          BY <2>1, <2>3, <2>4, <2>8, <3>1, <3>3
        <4>2. q \notin payOverlapped' => SlipsOf(r)' = new
          BY <2>1, <2>8, <3>3
        <4> QED  BY <2>2, <2>10, <3>3, <4>1, <4>2 DEF GrossSum, DeductionSum
      <3> QED  BY <3>2, <3>3
    <2>12. PayslipsAddUp'
      BY <2>11 DEF PayslipsAddUp, GrossSum, DeductionSum
    <2>13. \A q \in Runs : DOMAIN run'[q] = {"status", "gross", "deductions"}
      BY <2>2, <2>10 DEF TotalsIInv
    <2> QED  BY <2>1, <2>6, <2>7, <2>10, <2>12, <2>13 DEF TotalsIInv, SlipRecord
  <1>6. ASSUME NEW x \in PayTxns, PayRunWrite(x)
        PROVE  TotalsIInv'
    <2> DEFINE r == payWork[x].run
               issue(s) == IF s.run = r THEN [s EXCEPT !.issued = TRUE] ELSE s
               h == [s \in slips |-> issue(s)]
    <2>1. /\ SetStatus(x, "paid") /\ payWork[x].op # "idle"
                /\ UNCHANGED <<situation, payOverlapped>>
          /\ slips' = {h[s] : s \in slips}
      BY <1>6 DEF PayRunWrite
    <2>2. \A s \in slips : SlipRecord(s)
      BY DEF TotalsIInv
    <2>3. ASSUME NEW s \in slips
          PROVE  /\ SlipRecord(h[s]) /\ h[s].run = s.run /\ h[s].emp = s.emp
                 /\ h[s].gross = s.gross /\ h[s].deductions = s.deductions
      BY <2>2 DEF SlipRecord
    <2> HIDE DEF r, h
    <2>4. IsFiniteSet(slips') /\ \A u \in slips' : SlipRecord(u)
      BY <2>1, <2>3, ImageFinite DEF TotalsIInv
    <2>5. ASSUME NEW q \in Runs
          PROVE  /\ SlipsOf(q)' = {h[s] : s \in SlipsOf(q)}
                 /\ \A s, t \in SlipsOf(q)' : s.emp = t.emp => s = t
                 /\ GrossSum(SlipsOf(q)') = GrossSum(SlipsOf(q))
                 /\ DeductionSum(SlipsOf(q)') = DeductionSum(SlipsOf(q))
      <3>1. SlipsOf(q)' = {h[s] : s \in SlipsOf(q)}
        BY <2>1, <2>3 DEF SlipsOf
      <3>2. \A s, t \in SlipsOf(q) : s.emp = t.emp => s = t
        BY DEF TotalsIInv, PayslipsAddUp
      <3>3. SlipsOf(q) \subseteq slips
        BY DEF SlipsOf
      <3>4. \A s, t \in SlipsOf(q)' : s.emp = t.emp => s = t
        BY <2>3, <3>1, <3>2, <3>3
      <3>5. \A s, t \in SlipsOf(q) : h[s] = h[t] => s = t
        BY <2>3, <3>2, <3>3
      <3>6. IsFiniteSet(SlipsOf(q))
        BY <3>3, FS_Subset DEF TotalsIInv
      <3>7. \A s \in SlipsOf(q) : /\ s.gross \in Int /\ s.deductions \in Int
                                  /\ h[s].gross = s.gross /\ h[s].deductions = s.deductions
        BY <2>2, <2>3, <3>3 DEF SlipRecord
      <3> QED  BY <3>1, <3>4, <3>5, <3>6, <3>7, TotalsSame
    <2>6. PayslipsAddUp'
      <3>1. \A q \in Runs : run'[q].gross = run[q].gross
               /\ run'[q].deductions = run[q].deductions
        BY <1>s, <2>1
      <3> QED  BY <2>1, <2>5, <3>1 DEF PayslipsAddUp, TotalsIInv, GrossSum, DeductionSum
    <2>7. DOMAIN run' = Runs
             /\ \A q \in Runs : DOMAIN run'[q] = {"status", "gross", "deductions"}
      BY <1>s, <2>1 DEF TotalsIInv
    <2> QED  BY <2>1, <2>4, <2>6, <2>7 DEF TotalsIInv, SlipRecord
  <1>7. ASSUME NEW x \in PayTxns, NEW r \in Runs,
               CalculateRunRead(x, r) \/ SubmitRunRead(x, r) \/ DecideRunRead(x, r)
                  \/ PayRunRead(x, r)
        PROVE  TotalsIInv'
    BY <1>4, <1>7 DEF CalculateRunRead, SubmitRunRead, DecideRunRead, PayRunRead, FetchRun
  <1>8. ASSUME NEW x \in PayTxns, NEW approve \in BOOLEAN, DecideRunWrite(x, approve)
        PROVE  TotalsIInv'
    BY <1>3, <1>8 DEF DecideRunWrite
  <1>9. ASSUME NEW x \in PayTxns, SubmitRunWrite(x)
        PROVE  TotalsIInv'
    BY <1>3, <1>9 DEF SubmitRunWrite
  <1>10. ASSUME NEW x \in PayTxns, PostPayrollJournal(x) \/ PayrollFails(x)
         PROVE  TotalsIInv'
    BY <1>4, <1>10 DEF PostPayrollJournal, PayrollFails
  <1> QED
    BY <1>1, <1>2, <1>5, <1>6, <1>7, <1>8, <1>9, <1>10 DEF PayrollNext

\* The initial states satisfy it.
LEMMA TotalsStarts == PayrollInit => TotalsIInv
  <1> SUFFICES ASSUME PayrollInit
               PROVE  TotalsIInv
    OBVIOUS
  <1>1. \A r \in Runs : SlipsOf(r) = {} /\ run[r] = NoRun
    BY DEF PayrollInit, SlipsOf
  <1>2. GrossSum({}) = 0 /\ DeductionSum({}) = 0
    <2>1. DOMAIN [s \in {} |-> s.gross] = {} /\ DOMAIN [s \in {} |-> s.deductions] = {}
      OBVIOUS
    <2> QED  BY <2>1, SumEmpty DEF GrossSum, DeductionSum, SumFunction
  <1>3. PayslipsAddUp
    BY <1>1, <1>2 DEF PayslipsAddUp, NoRun
  <1>4. situation \in [Staff -> Situations] /\ slips = {} /\ run = [r \in Runs |-> NoRun]
    BY DEF PayrollInit
  <1> QED  BY <1>3, <1>4, FS_EmptySet DEF TotalsIInv, NoRun

\* A step elsewhere leaves it.
LEMMA TotalsIdle == TotalsIInv /\ UNCHANGED payrollVars => TotalsIInv'
  BY TotalsStay DEF payrollVars, TotalsIInv

-----------------------------------------------------------------------------
(* Employees *)

AccessRecord == [member : {"active", "suspended", "revoked"}, live : BOOLEAN, offboarded : BOOLEAN]

\* The rows an offboarding writes, and what a request has read of its employee.
OffboardingSound ==
    /\ DOMAIN employee = Employees /\ DOMAIN workflowRun = Employees /\ DOMAIN hrWork = HrTxns
    /\ access \in AccessRecord
    /\ readmitted \in BOOLEAN /\ crossed \in BOOLEAN
    /\ \A x \in HrTxns : hrWork[x].op \in {"update", "offboard"} => hrWork[x].emp \in Employees

LifecycleIInv == OffboardingSound /\ OffboardedHasNoAccess

\* A compensated offboarding gives nobody a manager or access they did not have.
Restores ==
    \A x \in HrTxns :
        LET e == hrWork[x].emp
        IN  hrWork[x].op = "offboard" /\ hrWork'[x] = NotAtWork
           /\ workflowRun'[e] = "compensated"
                => /\ \A r \in Employees : employee'[r].manager = employee[r].manager
                   /\ access' = access \/ WasTaken

\* The user is revoked, and restored as he was unless access had been taken before.
LEMMA AccessRestored ==
    ASSUME LifecycleIInv
    PROVE  /\ RevokeAccess(access).member = "revoked" /\ ~RevokeAccess(access).live
           /\ RevokeAccess(access) \in AccessRecord
           /\ RestoreAccess(RevokeAccess(access)) \in AccessRecord
           /\ RestoreAccess(RevokeAccess(access)) = access \/ WasTaken
  BY DEF LifecycleIInv, OffboardingSound, AccessRecord, RevokeAccess, RestoreAccess, WasTaken

\* Every step of an employee keeps the invariant and restores what it must.
LEMMA LifecycleStep ==
    ASSUME LifecycleIInv, EmployeeLifecycleNext
    PROVE  LifecycleIInv' /\ Restores
  <1>0. OffboardingSound /\ OffboardedHasNoAccess
    BY DEF LifecycleIInv
  <1>s. ASSUME DOMAIN employee' = Employees, UNCHANGED <<workflowRun, access, readmitted, crossed>>,
               \/ hrWork' = hrWork
               \/ \E x \in HrTxns : FinishHr(x)
               \/ \E x \in HrTxns, e \in Employees, op \in {"update", "offboard"} :
                     hrWork' = [hrWork EXCEPT ![x] = [op |-> op, emp |-> e, seen |-> employee[e]]]
        PROVE  LifecycleIInv'
    BY <1>0, <1>s DEF LifecycleIInv, OffboardingSound, OffboardedHasNoAccess, FinishHr,
       NotAtWork
  <1>r. ASSUME hrWork' = hrWork
        PROVE  Restores
    BY <1>r DEF Restores, NotAtWork
  <1> USE DEF accessVars
  <1>1. ASSUME NEW e \in Employees, NEW status \in GivenStatuses,
               NEW m \in Employees \cup {NoManager}, CreateEmployee(e, status, m)
        PROVE  LifecycleIInv' /\ Restores
    BY <1>0, <1>1, <1>s, <1>r DEF CreateEmployee, OffboardingSound
  <1>2. ASSUME NEW e \in Employees, NEW m \in Employees \cup {NoManager},
               NEW fail \in FailAfter, Onboard(e, m, fail)
        PROVE  LifecycleIInv' /\ Restores
    BY <1>0, <1>2, <1>s, <1>r DEF Onboard, OffboardingSound
  <1>3. ASSUME NEW x \in HrTxns, NEW e \in Employees,
               UpdateEmployeeRead(x, e) \/ OffboardRead(x, e)
        PROVE  LifecycleIInv' /\ Restores
    <2>1. PICK op \in {"update", "offboard"} : Fetch(x, op, e)
      BY <1>3 DEF UpdateEmployeeRead, OffboardRead
    <2>2. LifecycleIInv'
      BY <1>0, <1>s, <2>1 DEF Fetch, OffboardingSound
    <2>3. \A y \in HrTxns : hrWork'[y] = hrWork[y] \/ hrWork'[y].op = op
      BY <1>0, <2>1 DEF Fetch, OffboardingSound
    <2>4. Restores
      BY <2>3 DEF Restores, NotAtWork
    <2> QED  BY <2>2, <2>4
  <1>4. ASSUME NEW x \in HrTxns, NEW status \in EmployeeStatus,
               NEW m \in Employees \cup {NoManager},
               UpdateEmployeeWrite(x, status, m)
        PROVE  LifecycleIInv' /\ Restores
    <2>1. LifecycleIInv'
      BY <1>0, <1>4, <1>s DEF UpdateEmployeeWrite, OffboardingSound
    <2>2. \A y \in HrTxns : hrWork[y].op = "offboard" => hrWork'[y] = hrWork[y]
      BY <1>0, <1>4 DEF UpdateEmployeeWrite, FinishHr, OffboardingSound
    <2>3. Restores
      BY <2>2 DEF Restores, NotAtWork
    <2> QED  BY <2>1, <2>3
  <1>5. ASSUME NEW x \in HrTxns, NEW m \in Employees \cup {NoManager}, NEW fail \in FailAfter,
               OffboardWrite(x, m, fail)
        PROVE  LifecycleIInv' /\ Restores
    <2> DEFINE e == hrWork[x].emp
               revokes == e \in Linked /\ Done(fail, 4)
               failed == fail # NoFailure
    <2>1. e \in Employees /\ hrWork[x].op = "offboard"
      BY <1>0, <1>5 DEF OffboardWrite, OffboardingSound
    <2>2. /\ workflowRun' = [workflowRun EXCEPT
                                ![e] = IF failed THEN "compensated" ELSE "completed"]
          /\ access' = IF ~revokes THEN access
                       ELSE IF failed THEN RestoreAccess(RevokeAccess(access))
                       ELSE RevokeAccess(access)
          /\ readmitted' = IF revokes THEN failed /\ (readmitted \/ WasTaken) ELSE readmitted
          /\ crossed' = (crossed /\ (failed \/ ~revokes))
          /\ DOMAIN employee' = Employees /\ FinishHr(x)
          /\ failed => \A r \in Employees : employee'[r].manager = employee[r].manager
      BY <1>5 DEF OffboardWrite
    <2>3. e \in Linked /\ ~failed => revokes
      BY DEF Done, NoFailure
    <2> HIDE DEF e, revokes, failed
    <2>4. \A f \in Employees : workflowRun'[f] =
              IF f = e THEN IF failed THEN "compensated" ELSE "completed" ELSE workflowRun[f]
      BY <1>0, <2>1, <2>2 DEF OffboardingSound
    <2>5. hrWork' = [hrWork EXCEPT ![x] = NotAtWork]
      BY <2>2 DEF FinishHr
    <2>6. OffboardingSound'
      <3>1. access' \in AccessRecord
        BY <1>0, <2>2, AccessRestored DEF OffboardingSound
      <3>2. readmitted' \in BOOLEAN /\ crossed' \in BOOLEAN
        BY <1>0, <2>2 DEF OffboardingSound
      <3>3. DOMAIN hrWork' = HrTxns
               /\ \A y \in HrTxns : hrWork'[y] = hrWork[y] \/ hrWork'[y].op = "idle"
        BY <1>0, <2>5 DEF OffboardingSound, NotAtWork
      <3>4. DOMAIN workflowRun' = Employees
        BY <1>0, <2>2 DEF OffboardingSound
      <3> QED  BY <1>0, <2>2, <3>1, <3>2, <3>3, <3>4 DEF OffboardingSound
    <2>7. OffboardedHasNoAccess'
      <3>1. CASE ~revokes
        <4>1. access' = access /\ readmitted' = readmitted /\ (crossed => crossed')
          BY <2>2, <3>1
        <4>2. \A g \in Linked : workflowRun'[g] = "completed" => workflowRun[g] = "completed"
          BY <2>3, <2>4, <3>1, EmployeeLifecycleAssumption
        <4> QED  BY <1>0, <4>1, <4>2 DEF OffboardedHasNoAccess
      <3>2. CASE revokes /\ ~failed
        BY <2>2, <3>2, AccessRestored DEF OffboardedHasNoAccess
      <3>3. CASE revokes /\ failed
        <4>1. readmitted' \/ (~readmitted /\ ~WasTaken)
          BY <2>2, <3>3
        <4>2. ~readmitted /\ ~WasTaken => \A f \in Linked : workflowRun[f] # "completed"
          BY <1>0 DEF OffboardedHasNoAccess, WasTaken
        <4>3. \A f \in Employees : workflowRun'[f] = "completed" => workflowRun[f] = "completed"
          BY <2>4, <3>3
        <4> QED  BY <4>1, <4>2, <4>3, EmployeeLifecycleAssumption DEF OffboardedHasNoAccess
      <3> QED  BY <3>1, <3>2, <3>3
    <2>8. Restores
      <3>1. \A y \in HrTxns : hrWork[y].op = "offboard" /\ hrWork'[y] = NotAtWork => y = x
        BY <1>0, <2>5 DEF OffboardingSound, NotAtWork
      <3>2. workflowRun'[e] = "compensated" => failed
        BY <2>1, <2>4
      <3>3. failed => access' = access \/ WasTaken
        BY <2>2, AccessRestored
      <3> QED  BY <2>2, <3>1, <3>2, <3>3 DEF Restores, e
    <2> QED  BY <2>6, <2>7, <2>8 DEF LifecycleIInv
  <1>6. ASSUME NEW x \in HrTxns, HrRequestFails(x)
        PROVE  LifecycleIInv' /\ Restores
    <2>1. LifecycleIInv'
      BY <1>0, <1>6, <1>s DEF HrRequestFails, OffboardingSound
    <2>2. UNCHANGED <<employee, access>>
      BY <1>6 DEF HrRequestFails
    <2> QED  BY <2>1, <2>2 DEF Restores
  <1>a. ASSUME UNCHANGED hrVars, access' \in AccessRecord, readmitted' \in BOOLEAN,
               crossed' \in BOOLEAN, OffboardedHasNoAccess'
        PROVE  LifecycleIInv' /\ Restores
    <2>1. OffboardingSound'
      BY <1>0, <1>a DEF OffboardingSound, hrVars
    <2> QED  BY <1>r, <1>a, <2>1 DEF LifecycleIInv, hrVars
  <1>b. access \in AccessRecord /\ readmitted \in BOOLEAN /\ crossed \in BOOLEAN
    BY <1>0 DEF OffboardingSound
  <1>7. CASE LoginReads \/ LoginCreatesSession \/ SessionsEnd \/ MemberReadmitted
    <2>1. /\ UNCHANGED hrVars
          /\ \/ UNCHANGED <<access, readmitted, crossed>>
             \/ /\ access' = [access EXCEPT !.live = TRUE]
                /\ crossed' = (crossed \/ access.member # "active") /\ UNCHANGED readmitted
             \/ access' = [access EXCEPT !.live = FALSE] /\ crossed' = FALSE
                   /\ UNCHANGED readmitted
             \/ access' = [access EXCEPT !.member = "active"] /\ readmitted' = TRUE
                   /\ UNCHANGED crossed
      BY <1>7 DEF LoginReads, LoginCreatesSession, SessionsEnd, MemberReadmitted
    <2>2. access' \in AccessRecord /\ readmitted' \in BOOLEAN /\ crossed' \in BOOLEAN
      BY <1>b, <2>1 DEF AccessRecord
    <2>3. OffboardedHasNoAccess'
      BY <1>0, <1>b, <2>1 DEF OffboardedHasNoAccess, AccessRecord, hrVars
    <2> QED  BY <1>a, <2>1, <2>2, <2>3
  <1>8. ASSUME NEW from \in SUBSET {"active", "suspended"}, NEW to \in {"suspended", "revoked"},
               MembershipBecomes(from, to)
        PROVE  LifecycleIInv' /\ Restores
    <2>1. /\ UNCHANGED <<hrVars, readmitted>> /\ access.member # "revoked"
          /\ access' = [access EXCEPT !.member = to, !.live = FALSE] /\ crossed' = FALSE
      BY <1>8 DEF MembershipBecomes
    <2>2. access' \in AccessRecord /\ readmitted' \in BOOLEAN /\ crossed' \in BOOLEAN
      BY <1>b, <2>1 DEF AccessRecord
    <2>3. OffboardedHasNoAccess'
      BY <1>0, <2>1 DEF OffboardedHasNoAccess, hrVars
    <2> QED  BY <1>a, <2>1, <2>2, <2>3
  <1> QED
    BY <1>1, <1>2, <1>3, <1>4, <1>5, <1>6, <1>7, <1>8
    DEF EmployeeLifecycleNext, MembershipSuspended, MembershipRevoked

-----------------------------------------------------------------------------
(* Timesheets *)

\* The sheet, its entries, and what a request has read.
SheetSound ==
    /\ DOMAIN timeEntry = TimeEntries /\ DOMAIN sheetTxn = SheetTxns
    /\ \A e \in TimeEntries : DOMAIN timeEntry[e] = {"status", "minutes"}
    /\ sheet = "none" => \A e \in TimeEntries : timeEntry[e].status = "none"
    /\ \A x \in SheetTxns :
          /\ sheetTxn[x].op # "idle" => sheet # "none"
          /\ sheetTxn[x].op \in {"insert", "patch"} => sheetTxn[x].entry \in TimeEntries
          /\ sheetTxn[x].op = "submit" => sheetTxn[x].read \in {"draft", "rejected"}
          /\ sheetTxn[x].op = "decide" => sheetTxn[x].read = "submitted"

\* An approved sheet stays so, and an entry that may still be edited then is a
\* draft for good, unless the sheet was written from an old read.
PatchesDrafts ==
    lateSheet \/
    \A x \in SheetTxns : sheetTxn[x].op = "patch" /\ sheetTxn[x].read = "approved" =>
        sheet = "approved" /\ timeEntry[sheetTxn[x].entry].status = "draft"

TimesheetsIInv == SheetSound /\ PatchesDrafts /\ EntriesFollowSheet /\ ApprovedHoursStay

\* A request ends: what the others have read stays.
LEMMA SheetTxnEnds ==
    ASSUME TimesheetsIInv, NEW x \in SheetTxns, EndSheetTxn(x)
    PROVE  /\ DOMAIN sheetTxn' = SheetTxns
           /\ \A y \in SheetTxns : sheetTxn'[y] = sheetTxn[y] \/ sheetTxn'[y].op = "idle"
  BY DEF TimesheetsIInv, SheetSound, EndSheetTxn, NoSheetTxn

\* A request reads the sheet.
LEMMA SheetReadStep ==
    ASSUME TimesheetsIInv, NEW x \in SheetTxns,
           NEW op \in {"insert", "patch", "submit", "decide"}, NEW e,
           SheetReads(x, op, e),
           op \in {"insert", "patch"} => e \in TimeEntries,
           op = "patch" => timeEntry[e].status = "draft" \/ sheet = "draft",
           op = "submit" => sheet \in {"draft", "rejected"},
           op = "decide" => sheet = "submitted"
    PROVE  TimesheetsIInv'
  <1> DEFINE read == [op |-> op, entry |-> e, read |-> sheet]
  <1>1. /\ sheet # "none" /\ sheetTxn' = [sheetTxn EXCEPT ![x] = read]
        /\ UNCHANGED <<sheet, timeEntry, signed, lateEntries, lateSheet>>
    BY DEF SheetReads
  <1>2. read.op = op /\ read.read = sheet /\ read.entry = e
    OBVIOUS
  <1> HIDE DEF read
  <1>3. /\ DOMAIN sheetTxn' = SheetTxns
        /\ \A y \in SheetTxns : sheetTxn'[y] = IF y = x THEN read ELSE sheetTxn[y]
    BY <1>1 DEF TimesheetsIInv, SheetSound
  <1>4. SheetSound'
    BY <1>1, <1>2, <1>3 DEF TimesheetsIInv, SheetSound
  <1>5. PatchesDrafts'
    BY <1>1, <1>2, <1>3 DEF TimesheetsIInv, PatchesDrafts
  <1>6. EntriesFollowSheet' /\ ApprovedHoursStay'
    BY <1>1 DEF TimesheetsIInv, EntriesFollowSheet, ApprovedHoursStay
  <1> QED  BY <1>4, <1>5, <1>6 DEF TimesheetsIInv

\* A step of the sheet moves the entries that are in one status.
LEMMA Shifted ==
    ASSUME TimesheetsIInv, NEW from, NEW to, Shift(from, to)
    PROVE  /\ DOMAIN timeEntry' = TimeEntries
           /\ \A e \in TimeEntries :
                 /\ DOMAIN timeEntry'[e] = {"status", "minutes"}
                 /\ timeEntry'[e].minutes = timeEntry[e].minutes
                 /\ timeEntry'[e].status = IF timeEntry[e].status = from THEN to
                                           ELSE timeEntry[e].status
  BY DEF TimesheetsIInv, SheetSound, Shift

\* Every step of a timesheet keeps the invariant.
LEMMA TimesheetsStep ==
    ASSUME TimesheetsIInv, TimesheetsNext
    PROVE  TimesheetsIInv'
  <1>0. SheetSound /\ PatchesDrafts /\ EntriesFollowSheet /\ ApprovedHoursStay
    BY DEF TimesheetsIInv
  <1>1. CASE CreateTimesheet
    <2>1. /\ sheet = "none" /\ sheet' = "draft"
          /\ UNCHANGED <<timeEntry, signed, sheetTxn, lateEntries, lateSheet>>
      BY <1>1 DEF CreateTimesheet
    <2>2. SheetSound'
      BY <1>0, <2>1 DEF SheetSound
    <2>3. PatchesDrafts'
      BY <1>0, <2>1 DEF PatchesDrafts
    <2>4. EntriesFollowSheet' /\ ApprovedHoursStay'
      BY <1>0, <2>1 DEF SheetSound, EntriesFollowSheet, ApprovedHoursStay
    <2> QED  BY <2>2, <2>3, <2>4 DEF TimesheetsIInv
  <1>2. ASSUME NEW x \in SheetTxns, NEW actor \in Actors, NEW e \in TimeEntries,
               InsertEntryRead(x, actor, e) \/ PatchEntryRead(x, actor, e)
        PROVE  TimesheetsIInv'
    <2>1. PICK op \in {"insert", "patch"} :
              /\ SheetReads(x, op, e)
              /\ op = "patch" => timeEntry[e].status = "draft" \/ sheet = "draft"
      BY <1>2 DEF InsertEntryRead, PatchEntryRead
    <2> QED  BY <2>1, SheetReadStep
  <1>3. ASSUME NEW x \in SheetTxns, NEW actor \in Actors,
               SubmitTimesheetRead(x, actor) \/ DecideTimesheetRead(x, actor)
        PROVE  TimesheetsIInv'
    BY <1>3, SheetReadStep DEF SubmitTimesheetRead, DecideTimesheetRead
  <1>4. ASSUME NEW x \in SheetTxns, NEW m \in Minutes, WriteEntry(x, m)
        PROVE  TimesheetsIInv'
    <2> DEFINE e == sheetTxn[x].entry
               st == IF sheetTxn[x].op = "insert" THEN "draft" ELSE timeEntry[e].status
    <2>1. /\ sheetTxn[x].op \in {"insert", "patch"} /\ e \in TimeEntries
          /\ sheetTxn[x].op = "insert" => timeEntry[e].status = "none"
          /\ timeEntry' = [timeEntry EXCEPT ![e].minutes = m, ![e].status = st]
          /\ lateEntries' = IF sheet # sheetTxn[x].read THEN lateEntries \cup {e} ELSE lateEntries
          /\ EndSheetTxn(x) /\ UNCHANGED <<sheet, signed, lateSheet>>
      BY <1>0, <1>4 DEF WriteEntry, SheetSound
    <2>2. /\ DOMAIN sheetTxn' = SheetTxns
          /\ \A y \in SheetTxns : sheetTxn'[y] = sheetTxn[y] \/ sheetTxn'[y].op = "idle"
      BY <2>1, SheetTxnEnds
    <2>3. (st = "draft" /\ timeEntry[e].status = "none") \/ st = timeEntry[e].status
      BY <2>1
    <2>4. sheetTxn[x].op = "insert" => st = "draft"
      OBVIOUS
    <2> HIDE DEF e, st
    <2>5. /\ DOMAIN timeEntry' = TimeEntries
          /\ \A f \in TimeEntries :
                /\ DOMAIN timeEntry'[f] = {"status", "minutes"}
                /\ timeEntry'[f].minutes = IF f = e THEN m ELSE timeEntry[f].minutes
                /\ timeEntry'[f].status = IF f = e THEN st ELSE timeEntry[f].status
      BY <1>0, <2>1 DEF SheetSound
    <2>6. sheet # "none"
      BY <1>0, <2>1 DEF SheetSound
    <2>7. SheetSound'
      BY <1>0, <2>1, <2>2, <2>5, <2>6 DEF SheetSound
    <2>8. PatchesDrafts'
      BY <1>0, <2>1, <2>2, <2>3, <2>5 DEF SheetSound, PatchesDrafts
    <2>9. EntriesFollowSheet'
      BY <1>0, <2>1, <2>3, <2>5 DEF EntriesFollowSheet
    <2>10. ~lateSheet /\ e \notin lateEntries' => st # "approved"
      <3> SUFFICES ASSUME ~lateSheet, sheet = sheetTxn[x].read, st = "approved"
                   PROVE  FALSE
        BY <2>1
      <3>1. timeEntry[e].status = "approved" /\ sheetTxn[x].op = "patch"
        BY <2>1, <2>3, <2>4
      <3>2. sheet = "approved"
        BY <1>0, <2>1, <3>1 DEF EntriesFollowSheet
      <3> QED  BY <1>0, <3>1, <3>2 DEF PatchesDrafts, e
    <2>11. ApprovedHoursStay'
      BY <1>0, <2>1, <2>5, <2>10 DEF ApprovedHoursStay
    <2> QED  BY <2>7, <2>8, <2>9, <2>11 DEF TimesheetsIInv
  <1>5. ASSUME NEW x \in SheetTxns, SubmitTimesheetWrite(x)
        PROVE  TimesheetsIInv'
    <2>1. /\ sheetTxn[x].op = "submit" /\ sheet' = "submitted" /\ Shift("draft", "submitted")
                /\ EndSheetTxn(x)
          /\ lateSheet' = (lateSheet \/ sheet # sheetTxn[x].read)
                /\ UNCHANGED <<signed, lateEntries>>
      BY <1>5 DEF SubmitTimesheetWrite
    <2>2. sheetTxn[x].read \in {"draft", "rejected"} /\ sheet # "none"
      BY <1>0, <2>1 DEF SheetSound
    <2>3. /\ DOMAIN sheetTxn' = SheetTxns
          /\ \A y \in SheetTxns : sheetTxn'[y] = sheetTxn[y] \/ sheetTxn'[y].op = "idle"
      BY <2>1, SheetTxnEnds
    <2>4. /\ DOMAIN timeEntry' = TimeEntries
          /\ \A e \in TimeEntries :
                /\ DOMAIN timeEntry'[e] = {"status", "minutes"}
                /\ timeEntry'[e].minutes = timeEntry[e].minutes
                /\ timeEntry'[e].status =
                      IF timeEntry[e].status = "draft" THEN "submitted" ELSE timeEntry[e].status
      BY <2>1, Shifted
    <2>5. lateSheet' \/ (~lateSheet /\ sheet \in {"draft", "rejected"})
      BY <2>1, <2>2
    <2>6. SheetSound'
      BY <1>0, <2>1, <2>3, <2>4 DEF SheetSound
    <2>7. PatchesDrafts'
      BY <1>0, <2>3, <2>5 DEF PatchesDrafts
    <2>8. EntriesFollowSheet' /\ ApprovedHoursStay'
      BY <1>0, <2>1, <2>4, <2>5 DEF EntriesFollowSheet, ApprovedHoursStay
    <2> QED  BY <2>6, <2>7, <2>8 DEF TimesheetsIInv
  <1>6. ASSUME NEW x \in SheetTxns, NEW v \in {"approved", "rejected"},
               DecideTimesheetWrite(x, v)
        PROVE  TimesheetsIInv'
    <2>1. /\ sheetTxn[x].op = "decide" /\ sheet' = v /\ Shift("submitted", v) /\ EndSheetTxn(x)
          /\ lateSheet' = (lateSheet \/ sheet # sheetTxn[x].read) /\ UNCHANGED lateEntries
          /\ \A e \in TimeEntries : signed'[e] =
                IF v = "approved" /\ timeEntry[e].status = "submitted" THEN timeEntry[e].minutes
                ELSE signed[e]
      BY <1>6 DEF DecideTimesheetWrite
    <2>2. sheetTxn[x].read = "submitted" /\ sheet # "none"
      BY <1>0, <2>1 DEF SheetSound
    <2>3. /\ DOMAIN sheetTxn' = SheetTxns
          /\ \A y \in SheetTxns : sheetTxn'[y] = sheetTxn[y] \/ sheetTxn'[y].op = "idle"
      BY <2>1, SheetTxnEnds
    <2>4. /\ DOMAIN timeEntry' = TimeEntries
          /\ \A e \in TimeEntries :
                /\ DOMAIN timeEntry'[e] = {"status", "minutes"}
                /\ timeEntry'[e].minutes = timeEntry[e].minutes
                /\ timeEntry'[e].status =
                      IF timeEntry[e].status = "submitted" THEN v ELSE timeEntry[e].status
      BY <2>1, Shifted
    <2>5. lateSheet' \/ (~lateSheet /\ sheet = "submitted")
      BY <2>1, <2>2
    <2>6. SheetSound'
      BY <1>0, <2>1, <2>3, <2>4 DEF SheetSound
    <2>7. PatchesDrafts'
      BY <1>0, <2>3, <2>5 DEF PatchesDrafts
    <2>8. EntriesFollowSheet' /\ ApprovedHoursStay'
      BY <1>0, <2>1, <2>4, <2>5 DEF EntriesFollowSheet, ApprovedHoursStay
    <2> QED  BY <2>6, <2>7, <2>8 DEF TimesheetsIInv
  <1> QED  BY <1>1, <1>2, <1>3, <1>4, <1>5, <1>6 DEF TimesheetsNext

-----------------------------------------------------------------------------
(* Projects *)

\* Projects and filed records, and what a request has read: no project of its
\* deal, no key of its kind.
ProjectsSound ==
    /\ DOMAIN project = Projects /\ DOMAIN projectTxn = ProjectTxns
    /\ \A p \in Projects : DOMAIN project[p] = {"state", "deal"}
    /\ filed \in [FiledKinds -> Nat]
    /\ \A x \in ProjectTxns :
          /\ projectTxn[x].op = "won" => projectTxn[x].deal \in Deals /\ projectTxn[x].seen = {}
          /\ projectTxn[x].op = "file" => projectTxn[x].kind \in FiledKinds

\* A kind without its key has no record, and a deal without a race one project.
KeysStored == \A k \in FiledKinds : k \notin stored => filed[k] = 0

FiledOnce == \A k \in FiledKinds \ filedRaces : filed[k] <= 1

DealsApart ==
    \A d \in Deals \ dealRaces : \A p, q \in ProjectsOf(d) : p = q

ProjectsIInv == ProjectsSound /\ KeysStored /\ FiledOnce /\ DealsApart

\* Two projects of one deal would have to differ.
LEMMA OneProject == ProjectsIInv => OneProjectPerDeal
  <1> SUFFICES ASSUME ProjectsIInv
               PROVE  OneProjectPerDeal
    OBVIOUS
  <1>1. ASSUME NEW d \in Deals \ dealRaces
        PROVE  Cardinality(ProjectsOf(d)) <= 1
    <2>1. \A p, q \in ProjectsOf(d) : p = q
      BY DEF ProjectsIInv, DealsApart
    <2>2. CASE ProjectsOf(d) = {}
      BY <2>2, FS_EmptySet
    <2>3. CASE ProjectsOf(d) # {}
      <3>1. PICK p \in ProjectsOf(d) : ProjectsOf(d) = {p}
        BY <2>1, <2>3
      <3> QED  BY <3>1, FS_Singleton
    <2> QED  BY <2>2, <2>3
  <1> QED  BY <1>1 DEF ProjectsIInv, FiledOnce, OneProjectPerDeal

\* Every step of a project keeps the invariant.
LEMMA ProjectsStep ==
    ASSUME ProjectsIInv, ProjectsNext
    PROVE  ProjectsIInv'
  <1>0. ProjectsSound /\ KeysStored /\ FiledOnce /\ DealsApart
    BY DEF ProjectsIInv
  <1>1. ASSUME UNCHANGED <<project, dealRaces, filed, stored, filedRaces>>, ProjectsSound'
        PROVE  ProjectsIInv'
    BY <1>0, <1>1 DEF ProjectsIInv, KeysStored, FiledOnce, DealsApart, ProjectsOf, ProjectExists
  <1>2. ASSUME NEW p \in Projects, NEW d \in Deals \cup {NoDeal},
               CreateProject(p, d) \/ UpdateProject(p, d)
        PROVE  ProjectsIInv'
    <2>1. /\ UNCHANGED <<filed, stored, filedRaces, projectTxn>>
                /\ dealRaces \subseteq dealRaces'
          /\ d \in Deals => d \in dealRaces' \/ (ProjectExists(p) /\ project[p].deal = d)
          /\ \/ project' = [project EXCEPT ![p] = [state |-> "live", deal |-> d]]
             \/ project' = [project EXCEPT ![p].deal = d]
      BY <1>2, ProjectsAssumption DEF CreateProject, UpdateProject, InsertProject, filedRows
    <2>2. /\ DOMAIN project' = Projects /\ \A q \in Projects \ {p} : project'[q] = project[q]
          /\ DOMAIN project'[p] = {"state", "deal"} /\ project'[p].deal = d
      BY <1>0, <2>1 DEF ProjectsSound
    <2>3. ProjectsSound'
      BY <1>0, <2>1, <2>2 DEF ProjectsSound
    <2>4. DealsApart'
      <3> SUFFICES ASSUME NEW c \in Deals \ dealRaces', NEW q \in ProjectsOf(c)',
                          NEW r \in ProjectsOf(c)'
                   PROVE  q = r
        BY DEF DealsApart
      <3>1. q \in ProjectsOf(c) /\ r \in ProjectsOf(c)
        BY <2>1, <2>2 DEF ProjectsOf, ProjectExists
      <3> QED  BY <1>0, <2>1, <3>1 DEF DealsApart
    <2> QED  BY <1>0, <2>1, <2>3, <2>4 DEF ProjectsIInv, KeysStored, FiledOnce
  <1>3. ASSUME NEW p \in Projects, DeleteProject(p)
        PROVE  ProjectsIInv'
    <2>1. /\ UNCHANGED <<filed, stored, filedRaces, projectTxn, dealRaces>>
          /\ project' = [project EXCEPT ![p].state = "deleted"]
      BY <1>3 DEF DeleteProject, filedRows
    <2>2. /\ DOMAIN project' = Projects /\ \A q \in Projects \ {p} : project'[q] = project[q]
          /\ DOMAIN project'[p] = {"state", "deal"} /\ project'[p].state = "deleted"
      BY <1>0, <2>1 DEF ProjectsSound
    <2>3. ProjectsSound'
      BY <1>0, <2>1, <2>2 DEF ProjectsSound
    <2>4. DealsApart'
      BY <1>0, <2>1, <2>2 DEF DealsApart, ProjectsOf, ProjectExists
    <2> QED  BY <1>0, <2>1, <2>3, <2>4 DEF ProjectsIInv, KeysStored, FiledOnce
  <1>4. ASSUME NEW x \in ProjectTxns, NEW d \in Deals, ApplySalesEventRead(x, d)
        PROVE  ProjectsIInv'
    <2>1. /\ UNCHANGED <<project, dealRaces, filed, stored, filedRaces>> /\ ProjectsOf(d) = {}
          /\ projectTxn' = [projectTxn EXCEPT
                               ![x] = [op |-> "won", deal |-> d, seen |-> ProjectsOf(d)]]
      BY <1>4 DEF ApplySalesEventRead, ProjectReads, filedRows
    <2>2. ProjectsSound'
      BY <1>0, <2>1 DEF ProjectsSound
    <2> QED  BY <1>1, <2>1, <2>2
  <1>5. ASSUME NEW x \in ProjectTxns, NEW p \in Projects, ApplySalesEventWrite(x, p)
        PROVE  ProjectsIInv'
    <2> DEFINE d == projectTxn[x].deal
    <2>1. /\ projectTxn[x].op = "won"
                /\ project' = [project EXCEPT ![p] = [state |-> "live", deal |-> d]]
          /\ dealRaces' = IF ProjectsOf(d) \ projectTxn[x].seen # {} THEN dealRaces \cup {d}
                          ELSE dealRaces
          /\ EndProjectTxn(x) /\ UNCHANGED <<filed, stored, filedRaces>>
      BY <1>5 DEF ApplySalesEventWrite, InsertProject, filedRows
    <2>2. d \in Deals /\ projectTxn[x].seen = {}
      BY <1>0, <2>1 DEF ProjectsSound
    <2>3. /\ dealRaces \subseteq dealRaces' /\ (d \notin dealRaces' => ProjectsOf(d) = {})
      BY <2>1, <2>2
    <2>4. /\ DOMAIN projectTxn' = ProjectTxns
          /\ \A y \in ProjectTxns : projectTxn'[y] = projectTxn[y] \/ projectTxn'[y].op = "idle"
      BY <1>0, <2>1 DEF ProjectsSound, EndProjectTxn, NoProjectTxn
    <2> HIDE DEF d
    <2>5. /\ DOMAIN project' = Projects /\ \A q \in Projects \ {p} : project'[q] = project[q]
          /\ DOMAIN project'[p] = {"state", "deal"} /\ project'[p].deal = d
      BY <1>0, <2>1 DEF ProjectsSound
    <2>6. ProjectsSound'
      BY <1>0, <2>1, <2>4, <2>5 DEF ProjectsSound
    <2>7. DealsApart'
      <3> SUFFICES ASSUME NEW c \in Deals \ dealRaces', NEW q \in ProjectsOf(c)',
                          NEW r \in ProjectsOf(c)'
                   PROVE  q = r
        BY DEF DealsApart
      <3>1. CASE c = d
        <4>1. q = p /\ r = p
          BY <2>3, <2>5, <3>1 DEF ProjectsOf, ProjectExists
        <4> QED  BY <4>1
      <3>2. CASE c # d
        <4>1. q \in ProjectsOf(c) /\ r \in ProjectsOf(c)
          BY <2>5, <3>2 DEF ProjectsOf, ProjectExists
        <4> QED  BY <1>0, <2>3, <4>1 DEF DealsApart
      <3> QED  BY <3>1, <3>2
    <2> QED  BY <1>0, <2>1, <2>6, <2>7 DEF ProjectsIInv, KeysStored, FiledOnce
  <1>6. ASSUME NEW x \in ProjectTxns,
               CreateCommentRead(x) \/ CreateAttachmentRead(x) \/ CreateAllocationRead(x)
        PROVE  ProjectsIInv'
    <2>1. PICK k \in FiledKinds : FileReads(x, k)
      BY <1>6 DEF CreateCommentRead, CreateAttachmentRead, CreateAllocationRead, FiledKinds
    <2>2. /\ UNCHANGED <<project, dealRaces, filed, stored, filedRaces>>
          /\ projectTxn' = [projectTxn EXCEPT ![x] = [op |-> "file", kind |-> k]]
      BY <2>1 DEF FileReads, ProjectReads, filedRows
    <2>3. ProjectsSound'
      BY <1>0, <2>2 DEF ProjectsSound
    <2> QED  BY <1>1, <2>2, <2>3
  <1>7. ASSUME NEW x \in ProjectTxns, FileRecord(x)
        PROVE  ProjectsIInv'
    <2> DEFINE k == projectTxn[x].kind
    <2>1. /\ projectTxn[x].op = "file" /\ filed' = [filed EXCEPT ![k] = @ + 1]
          /\ filedRaces' = IF k \in stored THEN filedRaces \cup {k} ELSE filedRaces
          /\ stored' = stored \cup {k} /\ EndProjectTxn(x) /\ UNCHANGED <<project, dealRaces>>
      BY <1>7 DEF FileRecord
    <2>2. k \in FiledKinds
      BY <1>0, <2>1 DEF ProjectsSound
    <2>3. /\ DOMAIN projectTxn' = ProjectTxns
          /\ \A y \in ProjectTxns : projectTxn'[y] = projectTxn[y] \/ projectTxn'[y].op = "idle"
      BY <1>0, <2>1 DEF ProjectsSound, EndProjectTxn, NoProjectTxn
    <2> HIDE DEF k
    <2>4. /\ filed' \in [FiledKinds -> Nat] /\ filed'[k] = filed[k] + 1
          /\ \A j \in FiledKinds \ {k} : filed'[j] = filed[j]
      BY <1>0, <2>1, <2>2 DEF ProjectsSound
    <2>5. ProjectsSound'
      BY <1>0, <2>1, <2>3, <2>4 DEF ProjectsSound
    <2>6. KeysStored' /\ FiledOnce'
      BY <1>0, <2>1, <2>2, <2>4 DEF ProjectsSound, KeysStored, FiledOnce
    <2>7. DealsApart'
      BY <1>0, <2>1 DEF DealsApart, ProjectsOf, ProjectExists
    <2> QED  BY <2>5, <2>6, <2>7 DEF ProjectsIInv
  <1>8. CASE TaskIsDeleted
    <2>1. UNCHANGED <<project, dealRaces, projectTxn, filed, stored, filedRaces>>
      BY <1>8 DEF TaskIsDeleted
    <2>2. ProjectsSound'
      BY <1>0, <2>1 DEF ProjectsSound
    <2> QED  BY <1>1, <2>1, <2>2
  <1> QED  BY <1>2, <1>3, <1>4, <1>5, <1>6, <1>7, <1>8 DEF ProjectsNext

-----------------------------------------------------------------------------
(* Tasks *)

TaskRecord == [state : {"none", "live", "deleted"}, status : TaskStatuses, stamped : BOOLEAN]

\* Tasks, their counts, and what a request has read of its task: its stamp was
\* set exactly if it was done.
TasksSound ==
    /\ task \in [TaskIds -> TaskRecord]
    /\ completed \in [TaskIds -> Nat] /\ becameDone \in [TaskIds -> Nat]
          /\ DOMAIN taskTxn = TaskTxns
    /\ \A x \in TaskTxns : taskTxn[x].op \in {"update", "move"} =>
          /\ taskTxn[x].task \in TaskIds /\ taskTxn[x].was \in TaskStatuses
          /\ taskTxn[x].stamp \in BOOLEAN /\ (taskTxn[x].stamp <=> taskTxn[x].was = "done")

TasksIInv == TasksSound /\ CompletionIsAnnounced

\* complete: the event follows from the status that was read, the count from
\* the one that is stored.
LEMMA CompleteStep ==
    ASSUME TasksIInv, NEW t \in TaskIds, NEW was \in TaskStatuses, NEW stamp \in BOOLEAN,
           NEW status \in TaskStatuses, stamp <=> was = "done", Complete(t, was, stamp, status)
    PROVE  /\ task' \in [TaskIds -> TaskRecord]
           /\ completed' \in [TaskIds -> Nat] /\ becameDone' \in [TaskIds -> Nat]
           /\ CompletionIsAnnounced'
  <1> DEFINE becoming == status = "done" /\ was # "done"
             newly == status = "done" /\ task[t].status # "done"
             stamped == status = "done" /\ (becoming \/ stamp)
  <1>1. /\ task' = [task EXCEPT ![t].status = status, ![t].stamped = stamped]
        /\ completed' = [completed EXCEPT ![t] = IF becoming THEN @ + 1 ELSE @]
        /\ becameDone' = [becameDone EXCEPT ![t] = IF newly THEN @ + 1 ELSE @]
        /\ taskRaces' = IF task[t].status # was THEN taskRaces \cup {t} ELSE taskRaces
    BY DEF Complete
  <1>2. stamped \in BOOLEAN /\ (stamped <=> status = "done")
    OBVIOUS
  <1>3. task[t].status = was => (becoming <=> newly)
    OBVIOUS
  <1>4. TasksSound /\ CompletionIsAnnounced
    BY DEF TasksIInv
  <1> HIDE DEF becoming, newly, stamped
  <1>5. task' \in [TaskIds -> TaskRecord]
    BY <1>1, <1>2, <1>4 DEF TasksSound, TaskRecord
  <1>6. /\ completed' \in [TaskIds -> Nat] /\ becameDone' \in [TaskIds -> Nat]
        /\ \A u \in TaskIds :
              /\ completed'[u] = IF u = t /\ becoming THEN completed[u] + 1 ELSE completed[u]
              /\ becameDone'[u] = IF u = t /\ newly THEN becameDone[u] + 1 ELSE becameDone[u]
    BY <1>1, <1>4 DEF TasksSound, TaskRecord
  <1>7. \A u \in TaskIds : /\ task'[u].stamped = IF u = t THEN stamped ELSE task[u].stamped
                           /\ task'[u].status = IF u = t THEN status ELSE task[u].status
    BY <1>1, <1>4 DEF TasksSound, TaskRecord
  <1>8. CompletionIsAnnounced'
    <2>1. \A u \in TaskIds : u \notin taskRaces' =>
             u \notin taskRaces /\ (u = t => (becoming <=> newly))
      BY <1>1, <1>3
    <2>2. \A u \in TaskIds : u \notin taskRaces' => completed'[u] = becameDone'[u]
      BY <1>4, <1>6, <2>1 DEF CompletionIsAnnounced
    <2>3. \A u \in TaskIds : task'[u].stamped <=> task'[u].status = "done"
      BY <1>2, <1>4, <1>7 DEF CompletionIsAnnounced
    <2> QED  BY <2>2, <2>3 DEF CompletionIsAnnounced
  <1> QED  BY <1>5, <1>6, <1>8

\* Every step of a task keeps the invariant.
LEMMA TasksStep ==
    ASSUME TasksIInv, TasksNext
    PROVE  TasksIInv'
  <1>0. TasksSound /\ CompletionIsAnnounced
    BY DEF TasksIInv
  <1>1. ASSUME NEW t \in TaskIds, NEW s \in TaskStatuses, NEW b \in SUBSET TaskIds,
               CreateTask(t, s, b)
        PROVE  TasksIInv'
    <2> DEFINE done == s = "done"
               n == IF done THEN 1 ELSE 0
    <2>1. /\ task' = [task EXCEPT ![t] = [state |-> "live", status |-> s, stamped |-> done]]
          /\ completed' = [completed EXCEPT ![t] = n]
                /\ becameDone' = [becameDone EXCEPT ![t] = completed'[t]]
          /\ UNCHANGED <<taskTxn, taskRaces>>
      BY <1>1 DEF CreateTask
    <2>2. done \in BOOLEAN /\ n \in Nat /\ (done <=> s = "done")
      OBVIOUS
    <2> HIDE DEF done, n
    <2>3. /\ completed' \in [TaskIds -> Nat] /\ becameDone' \in [TaskIds -> Nat]
          /\ \A u \in TaskIds : /\ completed'[u] = IF u = t THEN n ELSE completed[u]
                                /\ becameDone'[u] = IF u = t THEN n ELSE becameDone[u]
      BY <1>0, <2>1, <2>2 DEF TasksSound, TaskRecord
    <2>4. task' \in [TaskIds -> TaskRecord]
      BY <1>0, <2>1, <2>2 DEF TasksSound, TaskRecord
    <2>5. \A u \in TaskIds : /\ task'[u].stamped = IF u = t THEN done ELSE task[u].stamped
                             /\ task'[u].status = IF u = t THEN s ELSE task[u].status
      BY <1>0, <2>1 DEF TasksSound, TaskRecord
    <2>6. CompletionIsAnnounced'
      BY <1>0, <2>1, <2>2, <2>3, <2>5 DEF CompletionIsAnnounced
    <2> QED  BY <1>0, <2>1, <2>3, <2>4, <2>6 DEF TasksIInv, TasksSound
  <1>2. ASSUME NEW x \in TaskTxns, NEW t \in TaskIds, MoveTaskRead(x, t) \/ UpdateTaskRead(x, t)
        PROVE  TasksIInv'
    <2>1. PICK op \in {"update", "move"} :
              TaskReads(x, [op |-> op, task |-> t, was |-> task[t].status,
                            stamp |-> task[t].stamped])
      BY <1>2 DEF MoveTaskRead, UpdateTaskRead
    <2>2. \A y \in TaskTxns : taskTxn'[y] =
              IF y = x THEN [op |-> op, task |-> t, was |-> task[t].status,
                             stamp |-> task[t].stamped]
              ELSE taskTxn[y]
      BY <1>0, <2>1 DEF TaskReads, TasksSound
    <2>3. /\ task[t].status \in TaskStatuses /\ task[t].stamped \in BOOLEAN
          /\ task[t].stamped <=> task[t].status = "done"
      BY <1>0 DEF TasksSound, TaskRecord, CompletionIsAnnounced
    <2>4. DOMAIN taskTxn' = TaskTxns /\ UNCHANGED taskRows
      BY <1>0, <2>1 DEF TaskReads, TasksSound
    <2>5. TasksSound'
      BY <1>0, <2>2, <2>3, <2>4 DEF TasksSound, TaskRecord, taskRows
    <2>6. CompletionIsAnnounced'
      BY <1>0, <2>4 DEF CompletionIsAnnounced, taskRows
    <2> QED  BY <2>5, <2>6 DEF TasksIInv
  <1>3. ASSUME NEW t \in TaskIds, DeleteTask(t)
        PROVE  TasksIInv'
    <2>1. task' = [task EXCEPT ![t].state = "deleted"]
             /\ UNCHANGED <<taskTxn, completed, becameDone, taskRaces>>
      BY <1>3 DEF DeleteTask
    <2>2. /\ task' \in [TaskIds -> TaskRecord]
          /\ \A u \in TaskIds : task'[u].stamped = task[u].stamped
                /\ task'[u].status = task[u].status
      BY <1>0, <2>1 DEF TasksSound, TaskRecord
    <2> QED  BY <1>0, <2>1, <2>2 DEF TasksIInv, TasksSound, CompletionIsAnnounced
  <1>4. ASSUME NEW x \in TaskTxns, EndTaskTxn(x)
        PROVE  DOMAIN taskTxn' = TaskTxns
                  /\ \A y \in TaskTxns : taskTxn'[y] = taskTxn[y] \/ taskTxn'[y].op = "idle"
    BY <1>0, <1>4 DEF EndTaskTxn, TasksSound, NoTaskTxn
  <1>5. ASSUME NEW x \in TaskTxns, NEW s \in TaskStatuses, NEW b \in SUBSET TaskIds,
               MoveTaskWrite(x, s) \/ UpdateTaskWrite(x, s, b)
        PROVE  TasksIInv'
    <2>1. /\ taskTxn[x].op \in {"update", "move"}
          /\ Complete(taskTxn[x].task, taskTxn[x].was, taskTxn[x].stamp, s) /\ EndTaskTxn(x)
      BY <1>5 DEF MoveTaskWrite, UpdateTaskWrite
    <2>2. /\ taskTxn[x].task \in TaskIds /\ taskTxn[x].was \in TaskStatuses
          /\ taskTxn[x].stamp \in BOOLEAN /\ (taskTxn[x].stamp <=> taskTxn[x].was = "done")
      BY <1>0, <2>1 DEF TasksSound, TaskRecord
    <2>3. /\ task' \in [TaskIds -> TaskRecord]
          /\ completed' \in [TaskIds -> Nat] /\ becameDone' \in [TaskIds -> Nat]
          /\ CompletionIsAnnounced'
      BY <2>1, <2>2, CompleteStep
    <2> QED  BY <1>0, <1>4, <2>1, <2>3 DEF TasksIInv, TasksSound
  <1>6. ASSUME NEW x \in TaskTxns, TaskRequestFails(x)
        PROVE  TasksIInv'
    <2>1. EndTaskTxn(x) /\ UNCHANGED taskRows
      BY <1>6 DEF TaskRequestFails
    <2>2. TasksSound'
      BY <1>0, <1>4, <2>1 DEF TasksSound, TaskRecord, taskRows
    <2>3. CompletionIsAnnounced'
      BY <1>0, <2>1 DEF CompletionIsAnnounced, taskRows
    <2> QED  BY <2>2, <2>3 DEF TasksIInv
  <1> QED  BY <1>1, <1>2, <1>3, <1>5, <1>6 DEF TasksNext

-----------------------------------------------------------------------------
(* Types: with the invariant of a component goes what its type invariant  *)
(* says beyond it.                                                        *)

(* The types: leave *)

LeaveRow == [status : {"none", "draft", "pending_approval", "approved", "rejected", "cancelled"},
             start : LeaveDays, units : LeaveLengths \cup {0}]

LeaveTyped ==
    /\ leave \in [LeaveRequests -> LeaveRow]
    /\ \A e \in ledger : e.from \in LeaveDays /\ e.expires \in Nat \cup {Never}
    /\ approvalNeeded \in NeedsApproval
    /\ presence \in EmployeeStates /\ byHand \in BOOLEAN
    /\ today \in LeaveDays /\ carried \subseteq Years
    /\ lateLeave \subseteq LeaveRequests

\* The day after a year is a day, and what is carried into it expires on one.
LEMMA NextYear ==
    ASSUME NEW y \in Years
    PROVE  YearEnd(y) + 1 \in LeaveDays /\ YearEnd(y) + ExpiryDays \in Nat
  <1> DEFINE n == (y + 1) * DaysPerYear
  <1>1. n \in Nat /\ n >= 1
    <2>1. y + 1 \in Nat \ {0} /\ DaysPerYear \in Nat \ {0}
      BY LeaveAssumption DEF Years
    <2> DEFINE k == y + 1
    <2> HIDE DEF k
    <2>2. k * DaysPerYear \in Nat /\ k * DaysPerYear >= 1
      BY <2>1 DEF k
    <2> QED  BY <2>2 DEF k
  <1>2. n <= LastLeaveDay /\ YearEnd(y) = n - 1
    BY DEF Years, YearEnd
  <1> HIDE DEF n
  <1> QED  BY <1>1, <1>2, LeaveAssumption DEF LeaveDays

\* Every step of the leave requests keeps the types.
LEMMA LeaveKeepsTypes ==
    ASSUME LeaveIInv, LeaveTyped, LeaveNext
    PROVE  LeaveTyped'
  <1>0. ASSUME NEW N, ledger' = ledger \cup N,
               \A e \in N : e.from \in LeaveDays /\ e.expires \in Nat \cup {Never}
        PROVE  \A e \in ledger' : e.from \in LeaveDays /\ e.expires \in Nat \cup {Never}
    BY <1>0 DEF LeaveTyped
  <1>e. \A key, units, from, expires :
           /\ Entry(key, units, from, expires).from = from
           /\ Entry(key, units, from, expires).expires = expires
    BY EntryFields
  <1>p. \A e : Post(e) \subseteq {e}
    BY DEF Post
  <1>1. ASSUME NEW y \in Years, RunCarryForward(y)
        PROVE  LeaveTyped'
    <2> DEFINE zero == Entry(<<"cf-zero", y>>, -BalanceAsOf(ledger, YearEnd(y)), YearEnd(y) + 1, Never)
    <2>1. PICK kept : ledger' \subseteq ledger \cup Post(zero)
                \cup Post(Entry(<<"cf", y>>, kept, YearEnd(y) + 1, YearEnd(y) + ExpiryDays))
      BY <1>1 DEF RunCarryForward
    <2> DEFINE more == Entry(<<"cf", y>>, kept, YearEnd(y) + 1, YearEnd(y) + ExpiryDays)
    <2>2. /\ zero.from \in LeaveDays /\ zero.expires = Never
          /\ more.from \in LeaveDays /\ more.expires \in Nat
      BY <1>e, NextYear
    <2> HIDE DEF zero, more
    <2>3. ledger' \subseteq ledger \cup {zero, more}
      BY <1>p, <2>1 DEF more
    <2>4. \A e \in ledger' : e.from \in LeaveDays /\ e.expires \in Nat \cup {Never}
      BY <2>2, <2>3 DEF LeaveTyped
    <2>5. carried' = carried \cup {y}
             /\ UNCHANGED <<leave, approvalNeeded, presence, byHand, today, lateLeave>>
      BY <1>1 DEF RunCarryForward
    <2> QED  BY <2>4, <2>5 DEF LeaveTyped
  <1>2. ASSUME NEW day \in AccrualDays, AccrueLeave(day)
        PROVE  LeaveTyped'
    <2> DEFINE new == Entry(<<"accrual", day>>, AccrualUnits, day, Never)
    <2>1. ledger' = ledger \cup {new}
          /\ UNCHANGED <<leave, approvalNeeded, presence, byHand, today, carried, lateLeave>>
      BY <1>2 DEF AccrueLeave
    <2>2. new.from \in LeaveDays /\ new.expires = Never
      BY <1>e, LeaveAssumption DEF LeaveDays
    <2> HIDE DEF new
    <2> QED  BY <1>0, <2>1, <2>2 DEF LeaveTyped
  <1>3. ASSUME NEW r \in LeaveRequests, NEW start \in LeaveStarts, NEW units \in LeaveLengths,
               NEW submit \in BOOLEAN, CreateLeaveRequest(r, start, units, submit)
        PROVE  LeaveTyped'
    <2> DEFINE debit == Entry(<<"debit", r>>, -units, start, Never)
    <2>1. PICK status \in {"draft", "pending_approval", "approved"} :
             /\ leave' = [leave EXCEPT ![r] = [status |-> status, start |-> start, units |-> units]]
             /\ ledger' \in {ledger, ledger \cup {debit}}
             /\ UNCHANGED <<approvalNeeded, presence, byHand, today, carried, lateLeave>>
      BY <1>3 DEF CreateLeaveRequest, SubmittedStatus
    <2>2. debit.from \in LeaveDays /\ debit.expires = Never
      BY <1>e, LeaveAssumption DEF LeaveDays
    <2> HIDE DEF debit
    <2> DEFINE row == [status |-> status, start |-> start, units |-> units]
    <2>3. row \in LeaveRow
      BY LeaveAssumption DEF LeaveRow, LeaveDays
    <2> HIDE DEF row
    <2>4. leave' \in [LeaveRequests -> LeaveRow]
      BY <2>1, <2>3 DEF row, LeaveTyped
    <2> QED  BY <1>0, <2>1, <2>2, <2>4 DEF LeaveTyped
  <1>4. ASSUME NEW x \in LeaveTxns, NEW op, NEW r, Ask(x, op, r)
        PROVE  LeaveTyped'
    BY <1>4 DEF Ask, LeaveTyped
  <1>5. ASSUME NEW x \in LeaveTxns,
               NEW status \in {"pending_approval", "approved", "rejected", "cancelled"},
               Answer(x, status), leaving[x].req \in LeaveRequests, NEW e,
               e.from \in LeaveDays, e.expires = Never,
               ledger' \in {ledger, ledger \cup Post(e)},
               presence' \in EmployeeStates, byHand' \in BOOLEAN
        PROVE  LeaveTyped'
    <2>1. \A d \in ledger' : d.from \in LeaveDays /\ d.expires \in Nat \cup {Never}
      BY <1>5, <1>p DEF LeaveTyped
    <2> DEFINE q == leaving[x].req
    <2>2. /\ leave' = [leave EXCEPT ![q].status = status]
          /\ lateLeave' \in {lateLeave, lateLeave \cup {q}} /\ q \in LeaveRequests
          /\ UNCHANGED <<approvalNeeded, today, carried>>
      BY <1>5 DEF Answer
    <2> HIDE DEF q
    <2>3. leave' \in [LeaveRequests -> LeaveRow]
      BY <2>2 DEF LeaveTyped, LeaveRow
    <2> QED  BY <1>5, <2>1, <2>2, <2>3 DEF LeaveTyped
  <1>d. ASSUME NEW r \in LeaveRequests, NEW kind
        PROVE  /\ Debit(r).from \in LeaveDays /\ Debit(r).expires = Never
               /\ Entry(<<"cancel", r>>, leave[r].units, today, Never).from \in LeaveDays
               /\ Entry(<<"cancel", r>>, leave[r].units, today, Never).expires = Never
    BY <1>e DEF Debit, LeaveTyped, LeaveRow
  <1>6. ASSUME NEW x \in LeaveTxns, SubmitLeaveWrite(x)
        PROVE  LeaveTyped'
    <2>1. leaving[x].req \in LeaveRequests
      BY <1>6 DEF SubmitLeaveWrite, LeaveIInv, LeaveSound, AnswerSound
    <2>2. /\ Answer(x, SubmittedStatus) /\ UNCHANGED <<presence, byHand>>
          /\ ledger' \in {ledger, ledger \cup Post(Debit(leaving[x].req))}
      BY <1>6 DEF SubmitLeaveWrite
    <2>3. SubmittedStatus \in {"pending_approval", "approved", "rejected", "cancelled"}
      BY DEF SubmittedStatus
    <2>4. presence' \in EmployeeStates /\ byHand' \in BOOLEAN
      BY <2>2 DEF LeaveTyped
    <2> QED  BY <1>5, <1>d, <2>1, <2>2, <2>3, <2>4
  <1>7. ASSUME NEW x \in LeaveTxns, CancelLeaveWrite(x)
        PROVE  LeaveTyped'
    <2> DEFINE r == leaving[x].req
               e == Entry(<<"cancel", r>>, leave[r].units, today, Never)
    <2>1. r \in LeaveRequests
      BY <1>7 DEF CancelLeaveWrite, LeaveIInv, LeaveSound, AnswerSound
    <2>2. Answer(x, "cancelled") /\ ledger' \in {ledger, ledger \cup Post(e)}
      BY <1>7 DEF CancelLeaveWrite
    <2>3. presence' \in EmployeeStates /\ byHand' \in BOOLEAN
      BY <1>7 DEF CancelLeaveWrite, StatusBecomes, EmployeeStates, LeaveTyped
    <2>4. e.from \in LeaveDays /\ e.expires = Never
      BY <1>d, <2>1
    <2> HIDE DEF e
    <2> QED  BY <1>5, <2>1, <2>2, <2>3, <2>4
  <1>8. ASSUME NEW x \in LeaveTxns, NEW approve \in BOOLEAN, DecideLeaveWrite(x, approve)
        PROVE  LeaveTyped'
    <2>1. leaving[x].req \in LeaveRequests
      BY <1>8 DEF DecideLeaveWrite, LeaveIInv, LeaveSound, AnswerSound
    <2>2. /\ Answer(x, IF approve THEN "approved" ELSE "rejected")
          /\ ledger' \in {ledger, ledger \cup Post(Debit(leaving[x].req))}
      BY <1>8 DEF DecideLeaveWrite
    <2>3. presence' \in EmployeeStates /\ byHand' \in BOOLEAN
      BY <1>8 DEF DecideLeaveWrite, StatusBecomes, EmployeeStates, LeaveTyped
    <2>4. (IF approve THEN "approved" ELSE "rejected")
             \in {"pending_approval", "approved", "rejected", "cancelled"}
      OBVIOUS
    <2> QED  BY <1>5, <1>d, <2>1, <2>2, <2>3, <2>4
  <1>9. CASE DayPasses
    <2>1. today' = today + 1 /\ today < LastLeaveDay
          /\ UNCHANGED <<leave, ledger, approvalNeeded, presence, byHand, carried, lateLeave>>
      BY <1>9 DEF DayPasses
    <2>2. today' \in LeaveDays
      BY <2>1, LeaveAssumption DEF LeaveTyped, LeaveDays
    <2> QED  BY <2>1, <2>2 DEF LeaveTyped
  <1>10. ASSUME NEW status \in EmployeeStates, WriteEmployeeStatus(status)
         PROVE  LeaveTyped'
    BY <1>10 DEF WriteEmployeeStatus, LeaveTyped
  <1> QED
    BY <1>1, <1>2, <1>3, <1>4, <1>6, <1>7, <1>8, <1>9, <1>10
    DEF LeaveNext, SubmitLeaveRead, CancelLeaveRead, DecideLeaveRead

\* The initial states have the types.
LEMMA LeaveTypesStart == LeaveInit => LeaveTyped
  <1> SUFFICES ASSUME LeaveInit
               PROVE  LeaveTyped
    OBVIOUS
  <1>1. 0 \in LeaveDays
    BY LeaveAssumption DEF LeaveDays
  <1>2. NoLeave \in LeaveRow
    BY <1>1 DEF NoLeave, LeaveRow
  <1>3. leave \in [LeaveRequests -> LeaveRow]
    BY <1>2 DEF LeaveInit
  <1> QED  BY <1>1, <1>3 DEF LeaveInit, LeaveTyped, EmployeeStates

\* A step elsewhere leaves them.
LEMMA LeaveTypesIdle == LeaveTyped /\ UNCHANGED leaveVars => LeaveTyped'
  BY DEF LeaveTyped, leaveVars

\* The invariant and the types together are the type invariant of the module.
LEMMA LeaveIsTyped == LeaveIInv /\ LeaveTyped => LeaveTypeOK
  BY DEF LeaveIInv, LedgerSound, LeaveSound, LeaveTyped, LeaveRow, LeaveTypeOK

(* The types: payroll *)

RunRow == [status : {"none", "draft", "calculated", "in_review", "approved", "paid"},
           gross : Nat, deductions : Nat]
SlipTyped(s) == s.run \in Runs /\ s.emp \in Staff /\ s.gross \in Nat /\ s.deductions \in Nat

RunsTyped ==
    /\ run \in [Runs -> RunRow]
    /\ \A s \in slips : SlipTyped(s)
    /\ situation \in [Staff -> Situations]
    /\ calculations \in 0..MaxCalculations
    /\ journaled \in [Runs -> Nat]
    /\ payOverlapped \subseteq Runs

\* Payslips that no CHECK refuses are those of the run's employees, and sum up
\* to its totals.
LEMMA NewSlipsTyped ==
    ASSUME NEW r \in Runs, situation \in [Staff -> Situations],
           \A n \in NewSlips(r) : ~(n.gross < 0)
    PROVE  /\ \A s \in NewSlips(r) : SlipTyped(s)
           /\ GrossSum(NewSlips(r)) \in Nat /\ DeductionSum(NewSlips(r)) \in Nat
  <1>1. IsFiniteSet(NewSlips(r)) /\ \A s \in NewSlips(r) : SlipRecord(s) /\ s.run = r
    BY NewSlipsSound
  <1>2. \A s \in NewSlips(r) : s.emp \in Staff /\ s.deductions = DeductionsOf(s.gross)
    BY DEF NewSlips
  <1>3. ASSUME NEW s \in NewSlips(r)
        PROVE  s.gross \in Nat /\ s.deductions \in Nat
    <2>1. s.gross \in Nat
      BY <1>1 DEF SlipRecord
    <2> DEFINE t == s.gross * TaxPercent
    <2>2. t \in Nat /\ s.deductions = t \div 100
      BY <1>2, <2>1, PayrollAssumption DEF DeductionsOf
    <2> HIDE DEF t
    <2>3. t \div 100 \in Nat
      BY <2>2
    <2> QED  BY <2>1, <2>2, <2>3
  <1> DEFINE S == NewSlips(r)
             G == [s \in S |-> s.gross]
             D == [s \in S |-> s.deductions]
  <1>4. GrossSum(S) = SumFunctionOnSet(G, S) /\ DeductionSum(S) = SumFunctionOnSet(D, S)
    BY DEF GrossSum, DeductionSum, SumFunction
  <1>5. (\A s \in S : G[s] \in Nat /\ D[s] \in Nat) /\ IsFiniteSet(S)
    BY <1>1, <1>3
  <1> HIDE DEF S, G, D
  <1>6. SumFunctionOnSet(G, S) \in Nat /\ SumFunctionOnSet(D, S) \in Nat
    BY <1>5, SumType
  <1> QED  BY <1>1, <1>2, <1>3, <1>4, <1>6 DEF S, SlipTyped

\* Every step of a payroll run keeps the types.
LEMMA RunsKeepTypes ==
    ASSUME PayrollIInv, TotalsIInv, RunsTyped, PayrollNext
    PROVE  RunsTyped'
  <1>c. ASSUME NEW r \in Runs, CreateRun(r)
        PROVE  RunsTyped'
    BY <1>c DEF CreateRun, RunsTyped, RunRow
  <1>s. ASSUME NEW x \in PayTxns,
               NEW status \in {"calculated", "in_review", "approved", "paid"},
               payWork[x].op # "idle", SetStatus(x, status)
        PROVE  run' \in [Runs -> RunRow]
    <2>1. payWork[x].run \in Runs
      BY <1>s DEF PayrollIInv, RunsSound
    <2> QED  BY <1>s, <2>1 DEF SetStatus, RunsTyped, RunRow
  <1>f. ASSUME UNCHANGED <<run, slips, situation, calculations, journaled, payOverlapped>>
        PROVE  RunsTyped'
    BY <1>f DEF RunsTyped
  <1>1. ASSUME NEW r \in Runs, NEW adjusted \in Runs, AdjustRun(r, adjusted)
        PROVE  RunsTyped'
    BY <1>1, <1>c DEF AdjustRun
  <1>2. ASSUME NEW e \in Staff, NEW s \in Situations, SituationChanges(e, s)
        PROVE  RunsTyped'
    BY <1>2 DEF SituationChanges, RunsTyped
  <1>3. ASSUME NEW x \in PayTxns, NEW r \in Runs,
               CalculateRunRead(x, r) \/ SubmitRunRead(x, r) \/ DecideRunRead(x, r)
                  \/ PayRunRead(x, r)
        PROVE  RunsTyped'
    BY <1>3, <1>f DEF CalculateRunRead, SubmitRunRead, DecideRunRead, PayRunRead, FetchRun
  <1>4. ASSUME NEW x \in PayTxns, NEW approve \in BOOLEAN, DecideRunWrite(x, approve)
        PROVE  RunsTyped'
    <2> DEFINE status == IF approve THEN "approved" ELSE "calculated"
    <2>1. /\ payWork[x].op # "idle" /\ SetStatus(x, status)
          /\ status \in {"calculated", "in_review", "approved", "paid"}
          /\ UNCHANGED <<slips, situation, calculations, journaled, payOverlapped>>
      BY <1>4 DEF DecideRunWrite
    <2> HIDE DEF status
    <2>2. run' \in [Runs -> RunRow]
      BY <1>s, <2>1
    <2> QED  BY <2>1, <2>2 DEF RunsTyped
  <1>5. ASSUME NEW x \in PayTxns, CalculateRunWrite(x)
        PROVE  RunsTyped'
    <2> DEFINE r == payWork[x].run
               new == NewSlips(r)
               total == [status |-> "calculated", gross |-> GrossSum(new), deductions |-> DeductionSum(new)]
    <2>1. /\ r \in Runs /\ calculations < MaxCalculations /\ calculations' = calculations + 1
          /\ slips' = (slips \ SlipsOf(r)) \cup Remaining(x) \cup new
          /\ run' = [run EXCEPT ![r] = total]
          /\ payOverlapped' \subseteq payOverlapped \cup {r}
          /\ UNCHANGED <<situation, journaled>>
      BY <1>5 DEF CalculateRunWrite, PayrollIInv, RunsSound
    <2>2. \A n \in NewSlips(r) : ~(n.gross < 0)
      BY <1>5 DEF CalculateRunWrite, Negative
    <2>3. /\ \A s \in new : SlipTyped(s)
          /\ GrossSum(new) \in Nat /\ DeductionSum(new) \in Nat
      BY <2>1, <2>2, NewSlipsTyped DEF RunsTyped
    <2>4. total \in RunRow
      BY <2>3 DEF RunRow
    <2> HIDE DEF total, new
    <2>5. calculations' \in 0..MaxCalculations
      BY <2>1, PayrollAssumption DEF RunsTyped
    <2>6. \A s \in slips' : s \in slips \/ s \in new
      BY <2>1 DEF Remaining, SlipsOf
    <2>7. \A s \in slips' : SlipTyped(s)
      BY <2>3, <2>6 DEF RunsTyped
    <2>8. run' \in [Runs -> RunRow]
      BY <2>1, <2>4 DEF RunsTyped
    <2>9. (\A s \in slips : SlipTyped(s))'
      BY <2>7 DEF SlipTyped
    <2> HIDE DEF r
    <2> QED  BY <2>1, <2>5, <2>8, <2>9 DEF RunsTyped
  <1>6. ASSUME NEW x \in PayTxns, SubmitRunWrite(x)
        PROVE  RunsTyped'
    <2>1. run' \in [Runs -> RunRow]
      BY <1>6, <1>s DEF SubmitRunWrite
    <2> QED  BY <1>6, <2>1 DEF SubmitRunWrite, RunsTyped
  <1>7. ASSUME NEW x \in PayTxns, PostPayrollJournal(x)
        PROVE  RunsTyped'
    <2> DEFINE r == payWork[x].run
    <2>1. /\ r \in Runs
          /\ journaled' = IF journaled[r] = 0 THEN [journaled EXCEPT ![r] = run[r].gross] ELSE journaled
          /\ UNCHANGED <<run, slips, situation, calculations, payOverlapped>>
      BY <1>7 DEF PostPayrollJournal, PayrollIInv, RunsSound
    <2> HIDE DEF r
    <2> QED  BY <2>1 DEF RunsTyped, RunRow
  <1>8. ASSUME NEW x \in PayTxns, PayRunWrite(x)
        PROVE  RunsTyped'
    <2>1. run' \in [Runs -> RunRow]
      BY <1>8, <1>s DEF PayRunWrite
    <2> DEFINE issue(s) == IF s.run = payWork[x].run THEN [s EXCEPT !.issued = TRUE] ELSE s
    <2>2. slips' = {issue(s) : s \in slips}
          /\ UNCHANGED <<situation, calculations, journaled, payOverlapped>>
      BY <1>8 DEF PayRunWrite
    <2>3. ASSUME NEW s \in slips
          PROVE  /\ issue(s).run = s.run /\ issue(s).emp = s.emp
                 /\ issue(s).gross = s.gross /\ issue(s).deductions = s.deductions
      BY DEF PayrollIInv, RunsSound
    <2> HIDE DEF issue
    <2>4. \A s \in slips' : SlipTyped(s)
      BY <2>2, <2>3 DEF RunsTyped, SlipTyped
    <2>5. (\A s \in slips : SlipTyped(s))'
      BY <2>4 DEF SlipTyped
    <2> QED  BY <2>1, <2>2, <2>5 DEF RunsTyped
  <1>9. ASSUME NEW x \in PayTxns, PayrollFails(x)
        PROVE  RunsTyped'
    BY <1>9, <1>f DEF PayrollFails
  <1> QED
    BY <1>c, <1>1, <1>2, <1>3, <1>4, <1>5, <1>6, <1>7, <1>8, <1>9 DEF PayrollNext

\* The initial states have the types.
LEMMA RunsTypesStart == PayrollInit => RunsTyped
  <1>1. 0 \in 0..MaxCalculations /\ NoRun \in RunRow
    BY PayrollAssumption DEF NoRun, RunRow
  <1> QED  BY <1>1 DEF PayrollInit, RunsTyped

\* A step elsewhere leaves them.
LEMMA RunsTypesIdle == RunsTyped /\ UNCHANGED payrollVars => RunsTyped'
  BY DEF RunsTyped, SlipTyped, payrollVars

\* The invariant and the types together are the type invariant of the module.
LEMMA PayrollIsTyped == PayrollIInv /\ RunsTyped => PayrollTypeOK
  BY DEF PayrollIInv, RunsSound, RunsTyped, RunRow, SlipTyped, PayrollTypeOK

(* The types: employees *)

EmployeeRow == [status : EmployeeStatus, manager : Employees \cup {NoManager}]

EmployeesTyped ==
    /\ employee \in [Employees -> EmployeeRow]
    /\ workflowRun \in [Employees -> {"none", "completed", "compensated"}]
    /\ \A x \in HrTxns : hrWork[x].op \in {"update", "offboard"} =>
          hrWork[x].seen \in EmployeeRow
    /\ loggingIn \in BOOLEAN

\* Every step of an employee keeps the types.
LEMMA EmployeesKeepTypes ==
    ASSUME LifecycleIInv, EmployeesTyped, EmployeeLifecycleNext
    PROVE  EmployeesTyped'
  <1>0. NotAtWork.op = "idle" /\ DOMAIN hrWork = HrTxns
    BY DEF NotAtWork, LifecycleIInv, OffboardingSound
  <1> USE DEF accessVars, hrVars
  <1>f. ASSUME NEW x \in HrTxns, FinishHr(x)
        PROVE  \A y \in HrTxns : hrWork'[y].op \in {"update", "offboard"} =>
                  hrWork'[y].seen \in EmployeeRow
    BY <1>0, <1>f DEF FinishHr, EmployeesTyped
  <1>1. ASSUME NEW e \in Employees, NEW m \in Employees \cup {NoManager},
               NEW status \in EmployeeStatus,
               employee' = [employee EXCEPT ![e] = [status |-> status, manager |-> m]],
               UNCHANGED <<workflowRun, hrWork, loggingIn>>
        PROVE  EmployeesTyped'
    BY <1>1 DEF EmployeesTyped, EmployeeRow
  <1>2. ASSUME NEW e \in Employees, NEW status \in GivenStatuses,
               NEW m \in Employees \cup {NoManager}, CreateEmployee(e, status, m)
        PROVE  EmployeesTyped'
    BY <1>1, <1>2, EmployeeLifecycleAssumption DEF CreateEmployee
  <1>3. ASSUME NEW e \in Employees, NEW m \in Employees \cup {NoManager},
               NEW fail \in FailAfter, Onboard(e, m, fail)
        PROVE  EmployeesTyped'
    BY <1>1, <1>3 DEF Onboard, EmployeeStatus
  <1>4. ASSUME NEW x \in HrTxns, NEW e \in Employees, NEW op, Fetch(x, op, e)
        PROVE  EmployeesTyped'
    <2> DEFINE what == [op |-> op, emp |-> e, seen |-> employee[e]]
    <2>1. hrWork' = [hrWork EXCEPT ![x] = what] /\ UNCHANGED <<employee, workflowRun, loggingIn>>
      BY <1>4 DEF Fetch
    <2>2. what.seen \in EmployeeRow
      BY DEF EmployeesTyped
    <2> HIDE DEF what
    <2> QED  BY <1>0, <2>1, <2>2 DEF EmployeesTyped
  <1>5. ASSUME NEW x \in HrTxns, NEW status \in EmployeeStatus,
               NEW m \in Employees \cup {NoManager}, UpdateEmployeeWrite(x, status, m)
        PROVE  EmployeesTyped'
    <2>1. hrWork[x].emp \in Employees
      BY <1>5 DEF UpdateEmployeeWrite, LifecycleIInv, OffboardingSound
    <2>2. /\ employee' = [employee EXCEPT ![hrWork[x].emp] = [status |-> status, manager |-> m]]
          /\ UNCHANGED <<workflowRun, loggingIn>> /\ FinishHr(x)
      BY <1>5 DEF UpdateEmployeeWrite
    <2>3. employee' \in [Employees -> EmployeeRow]
      BY <2>1, <2>2 DEF EmployeesTyped, EmployeeRow
    <2> QED  BY <1>f, <2>2, <2>3 DEF EmployeesTyped
  <1>6. ASSUME NEW x \in HrTxns, NEW m \in Employees \cup {NoManager},
               NEW fail \in FailAfter, OffboardWrite(x, m, fail)
        PROVE  EmployeesTyped'
    <2> DEFINE e == hrWork[x].emp
               seen == hrWork[x].seen
               failed == fail # NoFailure
               kept(r) == ~(r \in Employees /\ employee[r].manager = e /\ m # NoManager /\ ~failed)
    <2>1. e \in Employees /\ seen \in EmployeeRow
      BY <1>6 DEF OffboardWrite, LifecycleIInv, OffboardingSound, EmployeesTyped
    <2>2. /\ employee' = [r \in Employees |->
                [status |-> IF r # e THEN employee[r].status
                            ELSE IF failed THEN seen.status ELSE "terminated",
                 manager |-> IF kept(r) THEN employee[r].manager ELSE m]]
          /\ workflowRun' = [workflowRun EXCEPT ![e] = IF failed THEN "compensated" ELSE "completed"]
          /\ FinishHr(x) /\ UNCHANGED loggingIn
      BY <1>6 DEF OffboardWrite
    <2> HIDE DEF e, seen, failed, kept
    <2>3. ASSUME NEW r \in Employees
          PROVE  [status |-> IF r # e THEN employee[r].status
                             ELSE IF failed THEN seen.status ELSE "terminated",
                  manager |-> IF kept(r) THEN employee[r].manager ELSE m] \in EmployeeRow
      BY <2>1 DEF EmployeesTyped, EmployeeRow, EmployeeStatus
    <2>4. employee' \in [Employees -> EmployeeRow]
      BY <2>2, <2>3
    <2>5. workflowRun' \in [Employees -> {"none", "completed", "compensated"}]
      BY <2>1, <2>2 DEF EmployeesTyped
    <2> QED  BY <1>f, <2>2, <2>4, <2>5 DEF EmployeesTyped
  <1>7. ASSUME NEW x \in HrTxns, HrRequestFails(x)
        PROVE  EmployeesTyped'
    BY <1>f, <1>7 DEF HrRequestFails, EmployeesTyped
  <1>8. CASE LoginReads \/ LoginCreatesSession \/ SessionsEnd \/ MembershipSuspended
             \/ MembershipRevoked \/ MemberReadmitted
    BY <1>8 DEF LoginReads, LoginCreatesSession, SessionsEnd, MembershipSuspended,
       MembershipRevoked, MembershipBecomes, MemberReadmitted, EmployeesTyped
  <1> QED
    BY <1>2, <1>3, <1>4, <1>5, <1>6, <1>7, <1>8
    DEF EmployeeLifecycleNext, UpdateEmployeeRead, OffboardRead

\* The initial states have the types.
LEMMA EmployeesTypesStart == EmployeeLifecycleInit => EmployeesTyped
  <1> SUFFICES ASSUME EmployeeLifecycleInit
               PROVE  EmployeesTyped
    OBVIOUS
  <1>1. loggingIn \in BOOLEAN
    BY DEF EmployeeLifecycleInit
  <1>2. /\ employee = [e \in Employees |-> [status |-> "none", manager |-> NoManager]]
        /\ workflowRun = [e \in Employees |-> "none"]
        /\ hrWork = [x \in HrTxns |-> NotAtWork]
    BY DEF EmployeeLifecycleInit
  <1> QED  BY <1>1, <1>2 DEF EmployeesTyped, EmployeeRow, EmployeeStatus, NotAtWork

\* A step elsewhere leaves them.
LEMMA EmployeesTypesIdle == EmployeesTyped /\ UNCHANGED employeeLifecycleVars => EmployeesTyped'
  BY DEF EmployeesTyped, employeeLifecycleVars

\* The invariant and the types together are the type invariant of the module.
LEMMA EmployeesAreTyped == LifecycleIInv /\ EmployeesTyped => EmployeeLifecycleTypeOK
  BY DEF LifecycleIInv, OffboardingSound, AccessRecord, EmployeesTyped, EmployeeRow,
         EmployeeLifecycleTypeOK

(* The types: timesheets *)

\* Every step of a timesheet keeps the types.
LEMMA TimesheetsKeepTypes ==
    ASSUME TimesheetsIInv, TimesheetsTypeOK, TimesheetsNext
    PROVE  TimesheetsTypeOK'
  <1>e. ASSUME NEW x \in SheetTxns, EndSheetTxn(x)
        PROVE  DOMAIN sheetTxn' = SheetTxns
    BY <1>e DEF EndSheetTxn, TimesheetsTypeOK
  <1>s. ASSUME NEW from, NEW to \in SheetStatuses, Shift(from, to)
        PROVE  timeEntry' \in [TimeEntries -> [status : SheetStatuses, minutes : Minutes \cup {0}]]
    BY <1>s DEF Shift, TimesheetsTypeOK
  <1>1. CASE CreateTimesheet
    BY <1>1 DEF CreateTimesheet, TimesheetsTypeOK, SheetStatuses
  <1>2. ASSUME NEW x \in SheetTxns, NEW op, NEW e, SheetReads(x, op, e)
        PROVE  TimesheetsTypeOK'
    BY <1>2 DEF SheetReads, TimesheetsTypeOK
  <1>3. ASSUME NEW x \in SheetTxns, NEW m \in Minutes, WriteEntry(x, m)
        PROVE  TimesheetsTypeOK'
    <2> DEFINE e == sheetTxn[x].entry
               insert == sheetTxn[x].op = "insert"
    <2>1. e \in TimeEntries
      BY <1>3 DEF WriteEntry, TimesheetsIInv, SheetSound
    <2>2. /\ timeEntry' = [timeEntry EXCEPT ![e].minutes = m, ![e].status = IF insert THEN "draft" ELSE @]
          /\ lateEntries' \subseteq lateEntries \cup {e}
          /\ EndSheetTxn(x) /\ UNCHANGED <<sheet, signed, lateSheet>>
      BY <1>3 DEF WriteEntry
    <2> HIDE DEF e, insert
    <2>3. timeEntry' \in [TimeEntries -> [status : SheetStatuses, minutes : Minutes \cup {0}]]
      BY <2>1, <2>2 DEF TimesheetsTypeOK, SheetStatuses
    <2> QED  BY <1>e, <2>1, <2>2, <2>3 DEF TimesheetsTypeOK
  <1>4. ASSUME NEW x \in SheetTxns, SubmitTimesheetWrite(x)
        PROVE  TimesheetsTypeOK'
    <2>1. lateSheet' \in BOOLEAN
      BY <1>4 DEF SubmitTimesheetWrite
    <2>2. timeEntry' \in [TimeEntries -> [status : SheetStatuses, minutes : Minutes \cup {0}]]
      BY <1>4, <1>s DEF SubmitTimesheetWrite, SheetStatuses
    <2> QED  BY <1>4, <1>e, <2>1, <2>2 DEF SubmitTimesheetWrite, TimesheetsTypeOK, SheetStatuses
  <1>5. ASSUME NEW x \in SheetTxns, NEW v \in {"approved", "rejected"},
               DecideTimesheetWrite(x, v)
        PROVE  TimesheetsTypeOK'
    <2>1. lateSheet' \in BOOLEAN
      BY <1>5 DEF DecideTimesheetWrite
    <2>2. timeEntry' \in [TimeEntries -> [status : SheetStatuses, minutes : Minutes \cup {0}]]
      BY <1>5, <1>s DEF DecideTimesheetWrite, SheetStatuses
    <2>3. signed' \in [TimeEntries -> Minutes \cup {0}]
      BY <1>5 DEF DecideTimesheetWrite, TimesheetsTypeOK
    <2> QED  BY <1>5, <1>e, <2>1, <2>2, <2>3 DEF DecideTimesheetWrite, TimesheetsTypeOK,
                SheetStatuses
  <1> QED
    BY <1>1, <1>2, <1>3, <1>4, <1>5 DEF TimesheetsNext, InsertEntryRead, PatchEntryRead,
       SubmitTimesheetRead, DecideTimesheetRead

\* The initial states have the types.
LEMMA TimesheetsTypesStart == TimesheetsInit => TimesheetsTypeOK
  <1> SUFFICES ASSUME TimesheetsInit
               PROVE  TimesheetsTypeOK
    OBVIOUS
  <1>1. timeEntry \in [TimeEntries -> [status : SheetStatuses, minutes : Minutes \cup {0}]]
    BY DEF TimesheetsInit, SheetStatuses
  <1>2. /\ signed \in [TimeEntries -> Minutes \cup {0}] /\ DOMAIN sheetTxn = SheetTxns
        /\ sheet = "none" /\ lateEntries = {} /\ lateSheet = FALSE
    BY DEF TimesheetsInit
  <1> QED  BY <1>1, <1>2 DEF TimesheetsTypeOK, SheetStatuses

\* A step elsewhere leaves them.
LEMMA TimesheetsTypesIdle == TimesheetsTypeOK /\ UNCHANGED timesheetsVars => TimesheetsTypeOK'
  BY DEF TimesheetsTypeOK, timesheetsVars

(* The types: projects *)

ProjectRow == [state : {"none", "live", "deleted"}, deal : Deals \cup {NoDeal}]
Filing(k) == {x \in ProjectTxns : projectTxn[x].op = "file" /\ projectTxn[x].kind = k}

\* Every row that is filed under a key is another request's.
ProjectsTyped ==
    /\ project \in [Projects -> ProjectRow]
    /\ taskLive \in BOOLEAN
    /\ \A k \in FiledKinds : filed[k] + Cardinality(Filing(k)) <= Cardinality(ProjectTxns)
    /\ stored \subseteq FiledKinds /\ filedRaces \subseteq FiledKinds
          /\ dealRaces \subseteq Deals

\* Every step of a project keeps the types.
LEMMA ProjectsKeepTypes ==
    ASSUME ProjectsIInv, ProjectsTyped, ProjectsNext
    PROVE  ProjectsTyped'
  <1>0. NoProjectTxn.op = "idle" /\ DOMAIN projectTxn = ProjectTxns
           /\ filed \in [FiledKinds -> Nat]
    BY DEF NoProjectTxn, ProjectsIInv, ProjectsSound
  <1>c. \A S \in SUBSET ProjectTxns : /\ IsFiniteSet(S) /\ Cardinality(S) \in Nat
                                      /\ Cardinality(S) <= Cardinality(ProjectTxns)
    BY ProjectsAssumption, FS_Subset, FS_CardinalityType
  <1>d. Cardinality(ProjectTxns) \in Nat
           /\ \A k \in FiledKinds : Filing(k) \in SUBSET ProjectTxns
    BY <1>c DEF Filing
  <1>e. ASSUME NEW x \in ProjectTxns, EndProjectTxn(x), UNCHANGED filed
        PROVE  (\A k \in FiledKinds : filed[k] + Cardinality(Filing(k)) <= Cardinality(ProjectTxns))'
    <2> SUFFICES ASSUME NEW k \in FiledKinds
                 PROVE  filed'[k] + Cardinality(Filing(k)') <= Cardinality(ProjectTxns)
      OBVIOUS
    <2>1. Filing(k)' \subseteq Filing(k)
      BY <1>0, <1>e DEF EndProjectTxn, Filing
    <2>2. Cardinality(Filing(k)') <= Cardinality(Filing(k)) /\ Cardinality(Filing(k)') \in Nat
          /\ Cardinality(Filing(k)) \in Nat
      BY <1>c, <1>d, <2>1, FS_Subset
    <2> QED  BY <1>0, <1>d, <1>e, <2>2 DEF ProjectsTyped
  <1>1. ASSUME NEW p \in Projects, NEW deal \in Deals \cup {NoDeal},
               CreateProject(p, deal) \/ UpdateProject(p, deal)
        PROVE  ProjectsTyped'
    <2>1. /\ project' \in [Projects -> ProjectRow]
          /\ dealRaces' \subseteq Deals
          /\ UNCHANGED <<taskLive, filed, stored, filedRaces, projectTxn>>
      BY <1>1 DEF CreateProject, UpdateProject, InsertProject, filedRows, ProjectsTyped,
         ProjectRow
    <2> QED  BY <2>1 DEF ProjectsTyped, Filing
  <1>2. ASSUME NEW p \in Projects, DeleteProject(p)
        PROVE  ProjectsTyped'
    <2>1. /\ project' \in [Projects -> ProjectRow]
          /\ UNCHANGED <<taskLive, filed, stored, filedRaces, projectTxn, dealRaces>>
      BY <1>2 DEF DeleteProject, filedRows, ProjectsTyped, ProjectRow
    <2> QED  BY <2>1 DEF ProjectsTyped, Filing
  <1>3. ASSUME NEW x \in ProjectTxns, NEW deal \in Deals, ApplySalesEventRead(x, deal)
        PROVE  ProjectsTyped'
    <2> DEFINE what == [op |-> "won", deal |-> deal, seen |-> ProjectsOf(deal)]
    <2>1. /\ projectTxn[x] = NoProjectTxn /\ projectTxn' = [projectTxn EXCEPT ![x] = what]
          /\ UNCHANGED <<project, dealRaces, taskLive, filed, stored, filedRaces>>
      BY <1>3 DEF ApplySalesEventRead, ProjectReads, filedRows
    <2>2. what.op = "won"
      OBVIOUS
    <2> HIDE DEF what
    <2>3. ASSUME NEW k \in FiledKinds
          PROVE  Filing(k)' = Filing(k)
      BY <1>0, <2>1, <2>2 DEF Filing
    <2> QED  BY <2>1, <2>3 DEF ProjectsTyped
  <1>4. ASSUME NEW x \in ProjectTxns, NEW p \in Projects, ApplySalesEventWrite(x, p)
        PROVE  ProjectsTyped'
    <2> DEFINE deal == projectTxn[x].deal
    <2>1. /\ deal \in Deals
                /\ project' = [project EXCEPT ![p] = [state |-> "live", deal |-> deal]]
          /\ dealRaces' \subseteq dealRaces \cup {deal}
          /\ EndProjectTxn(x) /\ UNCHANGED <<taskLive, filed, stored, filedRaces>>
      BY <1>4 DEF ApplySalesEventWrite, InsertProject, filedRows, ProjectsIInv, ProjectsSound
    <2> HIDE DEF deal
    <2>2. project' \in [Projects -> ProjectRow]
      BY <2>1 DEF ProjectsTyped, ProjectRow
    <2> QED  BY <1>e, <2>1, <2>2 DEF ProjectsTyped
  <1>5. ASSUME NEW x \in ProjectTxns, NEW kind \in FiledKinds, FileReads(x, kind)
        PROVE  ProjectsTyped'
    <2> DEFINE what == [op |-> "file", kind |-> kind]
    <2>1. /\ kind \notin stored /\ projectTxn[x] = NoProjectTxn
          /\ projectTxn' = [projectTxn EXCEPT ![x] = what]
          /\ UNCHANGED <<project, dealRaces, taskLive, filed, stored, filedRaces>>
      BY <1>5 DEF FileReads, ProjectReads, filedRows
    <2>2. what.op = "file" /\ what.kind = kind
      OBVIOUS
    <2> HIDE DEF what
    <2>3. filed[kind] = 0
      BY <2>1 DEF ProjectsIInv, KeysStored
    <2>4. ASSUME NEW k \in FiledKinds
          PROVE  filed[k] + Cardinality(Filing(k)') <= Cardinality(ProjectTxns)
      <3>1. CASE k = kind
        <4>1. Filing(k)' \in SUBSET ProjectTxns
          BY DEF Filing
        <4> QED  BY <1>c, <1>d, <2>3, <3>1, <4>1
      <3>2. CASE k # kind
        <4>1. Filing(k)' = Filing(k)
          BY <1>0, <2>1, <2>2, <3>2 DEF Filing
        <4> QED  BY <4>1 DEF ProjectsTyped
      <3> QED  BY <3>1, <3>2
    <2> QED  BY <2>1, <2>4 DEF ProjectsTyped
  <1>6. ASSUME NEW x \in ProjectTxns, FileRecord(x)
        PROVE  ProjectsTyped'
    <2> DEFINE kind == projectTxn[x].kind
    <2>1. /\ kind \in FiledKinds /\ projectTxn[x].op = "file"
          /\ filed' = [filed EXCEPT ![kind] = @ + 1]
          /\ filedRaces' \subseteq filedRaces \cup {kind} /\ stored' = stored \cup {kind}
          /\ EndProjectTxn(x) /\ UNCHANGED <<project, dealRaces, taskLive>>
      BY <1>6 DEF FileRecord, ProjectsIInv, ProjectsSound
    <2>2. ASSUME NEW k \in FiledKinds
          PROVE  filed'[k] + Cardinality(Filing(k)') <= Cardinality(ProjectTxns)
      <3>1. CASE k = kind
        <4>1. x \in Filing(k) /\ Filing(k)' = Filing(k) \ {x}
          BY <1>0, <2>1, <3>1 DEF EndProjectTxn, Filing
        <4>2. Cardinality(Filing(k)') = Cardinality(Filing(k)) - 1
                 /\ Cardinality(Filing(k)) \in Nat
          BY <1>c, <1>d, <4>1, FS_RemoveElement
        <4>3. filed'[k] = filed[k] + 1 /\ filed[k] \in Nat
          BY <1>0, <2>1, <3>1
        <4> QED  BY <1>d, <4>2, <4>3 DEF ProjectsTyped
      <3>2. CASE k # kind
        <4>1. Filing(k)' = Filing(k) /\ filed'[k] = filed[k]
          BY <1>0, <2>1, <3>2 DEF EndProjectTxn, Filing
        <4> QED  BY <4>1 DEF ProjectsTyped
      <3> QED  BY <3>1, <3>2
    <2> HIDE DEF kind
    <2> QED  BY <2>1, <2>2 DEF ProjectsTyped
  <1>7. CASE TaskIsDeleted
    <2>1. taskLive' = FALSE
             /\ UNCHANGED <<project, dealRaces, projectTxn, filed, stored, filedRaces>>
      BY <1>7 DEF TaskIsDeleted
    <2> QED  BY <2>1 DEF ProjectsTyped, Filing
  <1> QED
    BY <1>1, <1>2, <1>3, <1>4, <1>5, <1>6, <1>7
    DEF ProjectsNext, CreateCommentRead, CreateAttachmentRead, CreateAllocationRead, FiledKinds

\* The initial states have the types.
LEMMA ProjectsTypesStart == ProjectsInit => ProjectsTyped
  <1> SUFFICES ASSUME ProjectsInit
               PROVE  ProjectsTyped
    OBVIOUS
  <1>1. ASSUME NEW k \in FiledKinds
        PROVE  filed[k] + Cardinality(Filing(k)) <= Cardinality(ProjectTxns)
    <2>1. filed[k] = 0 /\ Filing(k) = {}
      BY DEF ProjectsInit, NoProjectTxn, Filing
    <2>2. Cardinality(Filing(k)) = 0 /\ Cardinality(ProjectTxns) \in Nat
      BY <2>1, FS_EmptySet, FS_CardinalityType, ProjectsAssumption
    <2> QED  BY <2>1, <2>2
  <1>2. project \in [Projects -> ProjectRow] /\ taskLive \in BOOLEAN
    BY DEF ProjectsInit, ProjectRow
  <1> QED  BY <1>1, <1>2 DEF ProjectsInit, ProjectsTyped

\* A step elsewhere leaves them.
LEMMA ProjectsTypesIdle == ProjectsTyped /\ UNCHANGED projectsVars => ProjectsTyped'
  BY DEF ProjectsTyped, Filing, projectsVars

\* The invariant and the types together are the type invariant of the module.
LEMMA ProjectsAreTyped == ProjectsIInv /\ ProjectsTyped => ProjectsTypeOK
  <1> SUFFICES ASSUME ProjectsIInv, ProjectsTyped
               PROVE  ProjectsTypeOK
    OBVIOUS
  <1>1. ASSUME NEW k \in FiledKinds
        PROVE  filed[k] \in 0 .. Cardinality(ProjectTxns)
    <2>1. IsFiniteSet(Filing(k)) /\ Cardinality(ProjectTxns) \in Nat
      BY ProjectsAssumption, FS_Subset, FS_CardinalityType DEF Filing
    <2>2. Cardinality(Filing(k)) \in Nat
      BY <2>1, FS_CardinalityType
    <2>3. filed[k] \in Nat
      BY DEF ProjectsIInv, ProjectsSound
    <2> QED  BY <2>1, <2>2, <2>3 DEF ProjectsTyped
  <1>2. filed \in [FiledKinds -> 0 .. Cardinality(ProjectTxns)]
    BY <1>1 DEF ProjectsIInv, ProjectsSound
  <1> QED  BY <1>2 DEF ProjectsIInv, ProjectsSound, ProjectsTyped, ProjectRow, ProjectsTypeOK

(* The types: tasks *)

TasksTyped ==
    /\ blockedBy \in [TaskIds -> SUBSET TaskIds]
    /\ becameDone \in [TaskIds -> 0 .. MaxCompletions]
    /\ taskRaces \subseteq TaskIds

\* Every step of a task keeps the types.
LEMMA TasksKeepTypes ==
    ASSUME TasksIInv, TasksTyped, TasksNext
    PROVE  TasksTyped'
  <1>c. ASSUME NEW t \in TaskIds, NEW was, NEW stamp, NEW status,
               Complete(t, was, stamp, status)
        PROVE  becameDone' \in [TaskIds -> 0 .. MaxCompletions] /\ taskRaces' \subseteq TaskIds
    <2> DEFINE newly == status = "done" /\ task[t].status # "done"
    <2>1. /\ newly => becameDone[t] < MaxCompletions
          /\ becameDone' = [becameDone EXCEPT ![t] = IF newly THEN @ + 1 ELSE @]
          /\ taskRaces' \subseteq taskRaces \cup {t}
      BY <1>c DEF Complete
    <2> HIDE DEF newly
    <2>2. becameDone[t] \in 0 .. MaxCompletions
      BY DEF TasksTyped
    <2>3. (IF newly THEN becameDone[t] + 1 ELSE becameDone[t]) \in 0 .. MaxCompletions
      BY <2>1, <2>2, TasksAssumption
    <2>4. becameDone' \in [TaskIds -> 0 .. MaxCompletions]
      BY <2>1, <2>3 DEF TasksTyped
    <2> QED  BY <2>1, <2>4 DEF TasksTyped
  <1>b. ASSUME NEW t \in TaskIds, NEW b \in SUBSET TaskIds, ReplaceBlockedBy(t, b)
        PROVE  blockedBy' \in [TaskIds -> SUBSET TaskIds]
    BY <1>b DEF ReplaceBlockedBy, TasksTyped
  <1>i. ASSUME UNCHANGED taskRows
        PROVE  TasksTyped'
    BY <1>i DEF taskRows, TasksTyped
  <1>1. ASSUME NEW t \in TaskIds, NEW s \in TaskStatuses, NEW b \in SUBSET TaskIds,
               CreateTask(t, s, b)
        PROVE  TasksTyped'
    <2> DEFINE n == IF s = "done" THEN 1 ELSE 0
    <2>1. /\ completed' = [completed EXCEPT ![t] = n]
          /\ becameDone' = [becameDone EXCEPT ![t] = completed'[t]]
          /\ taskRaces' = taskRaces
      BY <1>1 DEF CreateTask
    <2>2. n \in 0 .. MaxCompletions
      BY TasksAssumption
    <2> HIDE DEF n
    <2>3. completed'[t] = n
      BY <2>1 DEF TasksIInv, TasksSound
    <2>4. becameDone' \in [TaskIds -> 0 .. MaxCompletions]
      BY <2>1, <2>2, <2>3 DEF TasksTyped
    <2>5. blockedBy' \in [TaskIds -> SUBSET TaskIds]
      BY <1>1, <1>b DEF CreateTask
    <2> QED  BY <2>1, <2>4, <2>5 DEF TasksTyped
  <1>2. ASSUME NEW x \in TaskTxns, NEW t \in TaskIds, MoveTaskRead(x, t) \/ UpdateTaskRead(x, t)
        PROVE  TasksTyped'
    BY <1>2, <1>i DEF MoveTaskRead, UpdateTaskRead, TaskReads
  <1>3. ASSUME NEW t \in TaskIds, DeleteTask(t)
        PROVE  TasksTyped'
    BY <1>3 DEF DeleteTask, TasksTyped
  <1>4. ASSUME NEW x \in TaskTxns, NEW s \in TaskStatuses, MoveTaskWrite(x, s)
        PROVE  TasksTyped'
    <2>1. taskTxn[x].task \in TaskIds
      BY <1>4 DEF MoveTaskWrite, TasksIInv, TasksSound
    <2> QED  BY <1>4, <1>c, <2>1 DEF MoveTaskWrite, TasksTyped
  <1>5. ASSUME NEW x \in TaskTxns, NEW s \in TaskStatuses, NEW b \in SUBSET TaskIds,
               UpdateTaskWrite(x, s, b)
        PROVE  TasksTyped'
    <2>1. taskTxn[x].task \in TaskIds
      BY <1>5 DEF UpdateTaskWrite, TasksIInv, TasksSound
    <2> QED  BY <1>5, <1>b, <1>c, <2>1 DEF UpdateTaskWrite, TasksTyped
  <1>6. ASSUME NEW x \in TaskTxns, TaskRequestFails(x)
        PROVE  TasksTyped'
    BY <1>6, <1>i DEF TaskRequestFails
  <1> QED  BY <1>1, <1>2, <1>3, <1>4, <1>5, <1>6 DEF TasksNext

\* The initial states have the types.
LEMMA TasksTypesStart == TasksInit => TasksTyped
  <1>1. 0 \in 0 .. MaxCompletions
    BY TasksAssumption
  <1> QED  BY <1>1 DEF TasksInit, TasksTyped

\* A step elsewhere leaves them.
LEMMA TasksTypesIdle == TasksTyped /\ UNCHANGED tasksVars => TasksTyped'
  BY DEF TasksTyped, tasksVars

\* The invariant and the types together are the type invariant of the module.
LEMMA TasksAreTyped == TasksIInv /\ TasksTyped => TasksTypeOK
  BY DEF TasksIInv, TasksSound, TaskRecord, TasksTyped, TasksTypeOK

-----------------------------------------------------------------------------
(* The components together: each starts in its invariant, and a step of   *)
(* the back office is a step of one of them and leaves the others alone.  *)

BackOfficeIInv ==
    /\ ReceivablesIInv /\ LedgerIInv /\ BillsIInv /\ ExpensesIInv /\ BatchesIInv
    /\ EntitiesIInv /\ IntercompanyIInv /\ TaxRatesIInv /\ RecurringIInv
    /\ BankIInv /\ CardsIInv
    /\ StockIInv /\ ProcurementIInv /\ ReceivedIInv /\ AssetsIInv
    /\ LeaveIInv /\ PayrollIInv /\ TotalsIInv
    /\ LifecycleIInv /\ TimesheetsIInv /\ ProjectsIInv /\ TasksIInv

\* The initial states of the components satisfy their invariants.
LEMMA BackOfficeStarts == BackOfficeInit => BackOfficeIInv
  <1> SUFFICES ASSUME BackOfficeInit
               PROVE  BackOfficeIInv
    OBVIOUS
  <1>1. ReceivablesIInv
    <2> USE DEF BackOfficeInit, ReceivablesInit
    <2>1. InvoicesSound
      <3>1. NoInvoiceRow \in InvoiceRecord
        BY DEF NoInvoiceRow, InvoiceRecord, InvoiceStatus
      <3>2. ASSUME NEW i \in Invoices
            PROVE  RowSound(invoice[i], receivable[i], i \in voided)
        <4>1. invoice[i] = NoInvoiceRow /\ receivable[i] = 0 /\ i \notin voided
          OBVIOUS
        <4>2. RowSound(NoInvoiceRow, 0, i \in voided)
          BY <3>1, <4>1 DEF RowSound, NoInvoiceRow, Unissued
        <4> QED  BY <4>1, <4>2
      <3> QED  BY <3>1, <3>2 DEF InvoicesSound
    <2>2. RequestsSound
      BY DEF RequestsSound, HoldsInvoice, HoldsPayment, IdleRequest
    <2>3. PaymentsSound
      BY ReceivablesAssumption DEF PaymentsSound, PaymentRecord, EventRecordsOnePayment,
         StripeSources
    <2> QED  BY <2>1, <2>2, <2>3 DEF ReceivablesIInv
  <1>2. LedgerIInv
    BY GeneralLedgerAssumption
    DEF BackOfficeInit, GeneralLedgerInit, LedgerIInv, PayrollPostedOnce, Unposted
  <1>3. BillsIInv
    BY VendorBillsAssumption
    DEF BackOfficeInit, VendorBillsInit, BillsIInv, PaymentsFit, BillSettledOnce
  <1>4. ExpensesIInv
    BY DEF BackOfficeInit, ReimbursementsInit, ExpensesIInv, ExpenseRecord, ExpensePostedOnce,
       NotHandling
  <1>5. LifecycleIInv
    <2>1. OffboardingSound
      BY DEF BackOfficeInit, EmployeeLifecycleInit, OffboardingSound, AccessRecord, NotAtWork
    <2>2. OffboardedHasNoAccess
      BY EmployeeLifecycleAssumption DEF BackOfficeInit, EmployeeLifecycleInit,
         OffboardedHasNoAccess
    <2> QED  BY <2>1, <2>2 DEF LifecycleIInv
  <1>6. TimesheetsIInv
    BY DEF BackOfficeInit, TimesheetsInit, TimesheetsIInv, SheetSound, PatchesDrafts,
       EntriesFollowSheet, ApprovedHoursStay, NoSheetTxn
  <1>7. ProjectsIInv
    BY DEF BackOfficeInit, ProjectsInit, ProjectsIInv, ProjectsSound, KeysStored, FiledOnce,
       DealsApart, ProjectsOf, ProjectExists, NoProjectTxn
  <1>8. TasksIInv
    BY DEF BackOfficeInit, TasksInit, TasksIInv, TasksSound, TaskRecord, CompletionIsAnnounced,
       TaskStatuses, NoTaskTxn
  <1>9. BatchesIInv
    BY BatchesStarts DEF BackOfficeInit
  <1>10. EntitiesIInv /\ IntercompanyIInv /\ TaxRatesIInv /\ RecurringIInv
    BY EntitiesStarts, IntercompanyStarts, TaxRatesStarts, RecurringStarts DEF BackOfficeInit
  <1>11. BankIInv /\ CardsIInv
    BY BankStarts, CardsStarts DEF BackOfficeInit
  <1>12. StockIInv /\ ProcurementIInv /\ ReceivedIInv /\ AssetsIInv
    BY StockStarts, ProcurementStarts, ReceivedStarts, AssetsStarts DEF BackOfficeInit
  <1>13. LeaveIInv /\ PayrollIInv /\ TotalsIInv
    BY LeaveBegins, PayrollStarts, TotalsStarts DEF BackOfficeInit
  <1> QED
    BY <1>1, <1>2, <1>3, <1>4, <1>5, <1>6, <1>7, <1>8, <1>9, <1>10, <1>11, <1>12, <1>13
    DEF BackOfficeIInv

\* A step of the back office, seen from each component.
LEMMA BackOfficeStep ==
    ASSUME [BackOfficeNext]_BackOfficeVars
    PROVE  /\ [ReceivablesNext]_receivablesVars /\ [GeneralLedgerNext]_generalLedgerVars
           /\ [VendorBillsNext]_vendorBillsVars /\ [ReimbursementsNext]_reimbursementsVars
           /\ [EmployeeLifecycleNext]_employeeLifecycleVars /\ [TimesheetsNext]_timesheetsVars
           /\ [ProjectsNext]_projectsVars /\ [TasksNext]_tasksVars
           /\ [EntitiesNext]_entitiesVars /\ [TaxRatesNext]_taxRatesVars
           /\ [RecurringInvoicesNext]_recurringInvoicesVars
           /\ [BankReconciliationNext]_bankReconciliationVars
           /\ [CardMatchingNext]_cardMatchingVars
           /\ [StockLedgerNext]_stockLedgerVars /\ [ProcurementNext]_procurementVars
           /\ [FixedAssetsNext]_fixedAssetsVars /\ [LeaveNext]_leaveVars
           /\ [PayrollNext]_payrollVars
           /\ UNCHANGED service
  BY DEF BackOfficeNext, BackOfficeVars, Only

\* A component that does not move keeps its invariant (the others' lemmas say so
\* where their steps are).
LEMMA BackOfficeIdle ==
    /\ ReceivablesIInv /\ UNCHANGED receivablesVars => ReceivablesIInv'
    /\ LedgerIInv /\ UNCHANGED generalLedgerVars => LedgerIInv'
    /\ BillsIInv /\ UNCHANGED vendorBillsVars => BillsIInv'
    /\ ExpensesIInv /\ UNCHANGED reimbursementsVars => ExpensesIInv'
    /\ LifecycleIInv /\ UNCHANGED employeeLifecycleVars => LifecycleIInv'
    /\ TimesheetsIInv /\ UNCHANGED timesheetsVars => TimesheetsIInv'
    /\ ProjectsIInv /\ UNCHANGED projectsVars => ProjectsIInv'
    /\ TasksIInv /\ UNCHANGED tasksVars => TasksIInv'
  <1>1. ReceivablesIInv /\ UNCHANGED receivablesVars => ReceivablesIInv'
    BY DEF receivablesVars, ReceivablesIInv, InvoicesSound, RequestsSound, PaymentsSound,
       HoldsInvoice, HoldsPayment, EventRecordsOnePayment
  <1>2. LedgerIInv /\ UNCHANGED generalLedgerVars => LedgerIInv'
    BY DEF generalLedgerVars, LedgerIInv, PayrollPostedOnce
  <1>3. BillsIInv /\ UNCHANGED vendorBillsVars => BillsIInv'
    BY DEF vendorBillsVars, BillsIInv, PaymentsFit, BillSettledOnce
  <1>4. ExpensesIInv /\ UNCHANGED reimbursementsVars => ExpensesIInv'
    BY DEF reimbursementsVars, ExpensesIInv, ExpensePostedOnce
  <1>5. LifecycleIInv /\ UNCHANGED employeeLifecycleVars => LifecycleIInv'
    BY DEF employeeLifecycleVars, LifecycleIInv, OffboardingSound, OffboardedHasNoAccess
  <1>6. TimesheetsIInv /\ UNCHANGED timesheetsVars => TimesheetsIInv'
    BY DEF timesheetsVars, TimesheetsIInv, SheetSound, PatchesDrafts, EntriesFollowSheet,
       ApprovedHoursStay
  <1>7. ProjectsIInv /\ UNCHANGED projectsVars => ProjectsIInv'
    BY DEF projectsVars, ProjectsIInv, ProjectsSound, KeysStored, FiledOnce, DealsApart,
       ProjectsOf, ProjectExists
  <1>8. TasksIInv /\ UNCHANGED tasksVars => TasksIInv'
    BY DEF tasksVars, TasksIInv, TasksSound, CompletionIsAnnounced
  <1> QED  BY <1>1, <1>2, <1>3, <1>4, <1>5, <1>6, <1>7, <1>8

\* Every step of the back office keeps the invariants of its components.
LEMMA BackOfficeKeeps == BackOfficeIInv /\ [BackOfficeNext]_BackOfficeVars => BackOfficeIInv'
  <1> SUFFICES ASSUME BackOfficeIInv, [BackOfficeNext]_BackOfficeVars
               PROVE  BackOfficeIInv'
    OBVIOUS
  <1> USE BackOfficeStep, BackOfficeIdle
  <1>1. ReceivablesIInv'
    BY ReceivablesStep DEF BackOfficeIInv
  <1>2. LedgerIInv'
    BY LedgerStep DEF BackOfficeIInv
  <1>3. BillsIInv'
    BY BillsStep DEF BackOfficeIInv
  <1>4. ExpensesIInv'
    BY ExpensesStep DEF BackOfficeIInv
  <1>5. LifecycleIInv'
    BY LifecycleStep DEF BackOfficeIInv
  <1>6. TimesheetsIInv'
    BY TimesheetsStep DEF BackOfficeIInv
  <1>7. ProjectsIInv'
    BY ProjectsStep DEF BackOfficeIInv
  <1>8. TasksIInv'
    BY TasksStep DEF BackOfficeIInv
  <1>9. BatchesIInv'
    BY BatchesStep, BatchesIdle DEF BackOfficeIInv
  <1>10. EntitiesIInv' /\ IntercompanyIInv'
    BY EntitiesStep, EntitiesIdle, IntercompanyStep, IntercompanyIdle DEF BackOfficeIInv
  <1>11. TaxRatesIInv' /\ RecurringIInv'
    BY TaxRatesStep, TaxRatesIdle, RecurringStep, RecurringIdle DEF BackOfficeIInv
  <1>12. BankIInv' /\ CardsIInv'
    BY BankStep, BankIdle, CardsStep, CardsIdle DEF BackOfficeIInv
  <1>13. StockIInv' /\ AssetsIInv'
    BY StockStep, StockIdle, AssetsStep, AssetsIdle DEF BackOfficeIInv
  <1>14. ProcurementIInv' /\ ReceivedIInv'
    BY ProcurementStep, ProcurementIdle, ReceivedStep, ReceivedIdle DEF BackOfficeIInv
  <1>15. LeaveIInv'
    BY LeaveStep, LeaveIdle DEF BackOfficeIInv
  <1>16. PayrollIInv' /\ TotalsIInv'
    BY PayrollStep, PayrollIdle, TotalsStep, TotalsIdle DEF BackOfficeIInv
  <1> QED
    BY <1>1, <1>2, <1>3, <1>4, <1>5, <1>6, <1>7, <1>8, <1>9, <1>10, <1>11, <1>12, <1>13,
       <1>14, <1>15, <1>16
    DEF BackOfficeIInv

\* The conjunction of the components' invariants holds in every reachable state,
\* for every set of documents, employees, projects and requests.
THEOREM BackOfficeInvariance == BackOfficeSpec => []BackOfficeIInv
  BY BackOfficeStarts, BackOfficeKeeps, PTL DEF BackOfficeSpec

\* Receivables: the journal and the balances follow from the documents under
\* issues, edits, payments, allocations and credits requested at once, which the
\* lock on the ledger's accounts lets read and write one after another; an issued
\* total is the sum of its lines.  Nothing is said of a voided invoice.
THEOREM InvoicesAccounted == BackOfficeSpec => []InvoicesAreAccounted
  <1>1. ReceivablesIInv => LedgerMatchesDocuments
    BY DEF ReceivablesIInv, InvoicesSound, PaymentsSound, RowSound, Unissued,
       LedgerMatchesDocuments
  <1>2. ReceivablesIInv => IssuedTotalMatchesLines
    BY DEF ReceivablesIInv, InvoicesSound, RowSound, IssuedTotalMatchesLines
  <1>3. BackOfficeIInv => InvoicesAreAccounted
    BY <1>1, <1>2 DEF BackOfficeIInv, InvoicesAreAccounted
  <1> QED  BY <1>3, BackOfficeInvariance, PTL

\* stripe_webhook, post_journal, pay_vendor_bill and decide_expense: what is
\* asked for twice moves money once: the requests hold the ledger's accounts from
\* what they read to what they write.
THEOREM MoneyMoves == BackOfficeSpec => []MoneyMovesOnce
  <1>1. BackOfficeIInv => MoneyMovesOnce
    BY DEF BackOfficeIInv, ReceivablesIInv, PaymentsSound, LedgerIInv, BillsIInv, ExpensesIInv,
       MoneyMovesOnce
  <1> QED  BY <1>1, BackOfficeInvariance, PTL

\* A won deal has one project, each completion of a task is announced, entries
\* follow their sheet and approved hours stay, but for writes from old reads.
THEOREM ProjectWork == BackOfficeSpec => []ProjectWorkIsAccounted
  <1>1. BackOfficeIInv => ProjectWorkIsAccounted
    BY OneProject DEF BackOfficeIInv, TimesheetsIInv, TasksIInv, ProjectWorkIsAccounted
  <1> QED  BY <1>1, BackOfficeInvariance, PTL

\* run_offboarding: as long as it stands as completed, its user has no membership
\* and no live session but one of a login it overtook, unless the user was made a
\* member again.
THEOREM OffboardingEnds == BackOfficeSpec => []OffboardingEndsAccess
  <1>1. BackOfficeIInv => OffboardingEndsAccess
    BY DEF BackOfficeIInv, LifecycleIInv, OffboardingEndsAccess
  <1> QED  BY <1>1, BackOfficeInvariance, PTL

\* auto_match_batch, match_card_transactions and create_reimbursement_batch: the
\* links of bank lines, card transactions and batches stay one to one, and a
\* batch's total is that of its expenses, but for overlapping requests.
THEOREM MatchersAgree == BackOfficeSpec => []MatchesAgree
  <1>1. BackOfficeIInv => MatchesAgree
    BY DEF BackOfficeIInv, BankIInv, CardsIInv, BatchesIInv, MatchesAgree
  <1> QED  BY <1>1, BackOfficeInvariance, PTL

\* update_entity, create_intercompany, upsert_tax_rate and run_due_recurring:
\* the default entity resolves, eliminations net to zero, a superseded rate is
\* retired, and a template bills a period once.
THEOREM FinanceSetUp == BackOfficeSpec => []FinanceSetUpHolds
  <1>1. BackOfficeIInv => FinanceSetUpHolds
    BY EliminationsBalance, Retires
    DEF BackOfficeIInv, EntitiesIInv, RecurringIInv, FinanceSetUpHolds
  <1> QED  BY <1>1, BackOfficeInvariance, PTL

\* post_movement, post_goods_receipt, convert_request and assign_asset: levels,
\* average costs and cost of goods follow from the movements, what an order has
\* received from its receipts, a request becomes one order and an asset has one
\* holder, but for the races that the model records.
THEOREM StockAccounted == BackOfficeSpec => []StockIsAccounted
  <1>1. BackOfficeIInv => StockIsAccounted
    BY RequestConverted, AssetHeld
    DEF BackOfficeIInv, StockIInv, ReceivedIInv, StockIsAccounted
  <1> QED  BY <1>1, BackOfficeInvariance, PTL

\* do_submit, decide and cancel, calculate_run and pay_run: the leave ledger has
\* what the approved requests take, payslips add up to their run, and a run is
\* paid as it was approved, but for the races and the statuses written by hand
\* that the model records.
THEOREM PayAccounted == BackOfficeSpec => []PayIsAccounted
  <1>1. BackOfficeIInv => PayIsAccounted
    BY LeaveLedgerHolds DEF BackOfficeIInv, PayrollIInv, TotalsIInv, PayIsAccounted
  <1> QED  BY <1>1, BackOfficeInvariance, PTL

\* No step changes an issued invoice's number, total or lines, carries forward
\* more leave than the cap, or compensates an offboarding into managers or an
\* access there were not, but for the exceptions that the properties name.
THEOREM StepsHold == BackOfficeSpec => BackOfficeStepsHold
  <1>1. BackOfficeIInv /\ [BackOfficeNext]_BackOfficeVars => [Immutable]_receivablesVars
    BY BackOfficeStep, ReceivablesStep DEF BackOfficeIInv
  <1>2. BackOfficeIInv /\ [BackOfficeNext]_BackOfficeVars => [Restores]_employeeLifecycleVars
    BY BackOfficeStep, LifecycleStep DEF BackOfficeIInv
  <1>3. BackOfficeIInv /\ [BackOfficeNext]_BackOfficeVars
            => [\A y \in carried' \ carried : KeepsTheCap(y)]_leaveVars
    BY BackOfficeStep, CapKeptByAll DEF BackOfficeIInv
  <1> QED
    BY <1>1, <1>2, <1>3, BackOfficeInvariance, PTL DEF BackOfficeSpec, BackOfficeStepsHold,
       IssuedIsImmutable, Immutable, CarryForwardKeepsTheCap, CompensationRestores, Restores

\* What is added to the invariants of the components.
FinanceTypes ==
    /\ ReceivablesTyped /\ LedgerTyped /\ BillsTyped /\ BatchesTyped /\ EntitiesTypeOK
    /\ TaxRatesTypeOK /\ MonthTyped /\ BankTyped /\ CardsTyped

BackOfficeTypes ==
    /\ FinanceTypes
    /\ StockTyped /\ ProcurementTyped /\ AssetsTyped
    /\ LeaveTyped /\ RunsTyped /\ EmployeesTyped
    /\ TimesheetsTypeOK /\ ProjectsTyped /\ TasksTyped

\* The initial states have the types.
LEMMA TypesStart == BackOfficeInit => BackOfficeTypes
  <1> SUFFICES ASSUME BackOfficeInit
               PROVE  BackOfficeTypes
    OBVIOUS
  <1>1. FinanceTypes
    BY ReceivablesTypesStart, LedgerTypesStart, BillsTypesStart, BatchesTypesStart,
       EntitiesTypesStart, TaxRatesTypesStart, MonthTypesStart, BankTypesStart, CardsTypesStart
    DEF BackOfficeInit, FinanceTypes
  <1>2. StockTyped /\ ProcurementTyped /\ AssetsTyped
    BY StockTypesStart, ProcurementTypesStart, AssetsTypesStart DEF BackOfficeInit
  <1>3. /\ LeaveTyped /\ RunsTyped /\ EmployeesTyped
        /\ TimesheetsTypeOK /\ ProjectsTyped /\ TasksTyped
    BY LeaveTypesStart, RunsTypesStart, EmployeesTypesStart, TimesheetsTypesStart,
       ProjectsTypesStart, TasksTypesStart DEF BackOfficeInit
  <1> QED  BY <1>1, <1>2, <1>3 DEF BackOfficeTypes

\* Every step of the back office keeps the types of its components.
LEMMA TypesKeep ==
    BackOfficeIInv /\ BackOfficeTypes /\ [BackOfficeNext]_BackOfficeVars => BackOfficeTypes'
  <1> SUFFICES ASSUME BackOfficeIInv, BackOfficeTypes, [BackOfficeNext]_BackOfficeVars
               PROVE  BackOfficeTypes'
    OBVIOUS
  <1> USE BackOfficeStep
  <1>1. ReceivablesTyped'
    BY ReceivablesKeepTypes, ReceivablesTypesIdle DEF BackOfficeIInv, BackOfficeTypes,
       FinanceTypes
  <1>2. LedgerTyped'
    BY LedgerKeepsTypes, LedgerTypesIdle DEF BackOfficeTypes, FinanceTypes
  <1>3. BillsTyped'
    BY BillsKeepTypes, BillsTypesIdle DEF BackOfficeIInv, BackOfficeTypes, FinanceTypes
  <1>4. BatchesTyped'
    BY BatchesKeepTypes, BatchesTypesIdle DEF BackOfficeIInv, BackOfficeTypes, FinanceTypes
  <1>5. EntitiesTypeOK'
    BY EntitiesKeepTypes, EntitiesTypesIdle DEF BackOfficeTypes, FinanceTypes
  <1>6. TaxRatesTypeOK'
    BY TaxRatesKeepTypes, TaxRatesTypesIdle DEF BackOfficeTypes, FinanceTypes
  <1>7. MonthTyped'
    BY MonthKeepsType, MonthTypesIdle DEF BackOfficeIInv, BackOfficeTypes, FinanceTypes
  <1>8. BankTyped'
    BY BankKeepsTypes, BankTypesIdle DEF BackOfficeIInv, BackOfficeTypes, FinanceTypes
  <1>9. CardsTyped'
    BY CardsKeepTypes, CardsTypesIdle DEF BackOfficeIInv, BackOfficeTypes, FinanceTypes
  <1>10. StockTyped'
    BY StockKeepsTypes, StockTypesIdle DEF BackOfficeIInv, BackOfficeTypes
  <1>11. ProcurementTyped'
    BY ProcurementKeepsTypes, ProcurementTypesIdle DEF BackOfficeIInv, BackOfficeTypes
  <1>12. AssetsTyped'
    BY AssetsKeepTypes, AssetsTypesIdle DEF BackOfficeIInv, BackOfficeTypes
  <1>13. LeaveTyped'
    BY LeaveKeepsTypes, LeaveTypesIdle DEF BackOfficeIInv, BackOfficeTypes
  <1>14. RunsTyped'
    BY RunsKeepTypes, RunsTypesIdle DEF BackOfficeIInv, BackOfficeTypes
  <1>15. EmployeesTyped'
    BY EmployeesKeepTypes, EmployeesTypesIdle DEF BackOfficeIInv, BackOfficeTypes
  <1>16. TimesheetsTypeOK'
    BY TimesheetsKeepTypes, TimesheetsTypesIdle DEF BackOfficeIInv, BackOfficeTypes
  <1>17. ProjectsTyped'
    BY ProjectsKeepTypes, ProjectsTypesIdle DEF BackOfficeIInv, BackOfficeTypes
  <1>18. TasksTyped'
    BY TasksKeepTypes, TasksTypesIdle DEF BackOfficeIInv, BackOfficeTypes
  <1>19. FinanceTypes'
    BY <1>1, <1>2, <1>3, <1>4, <1>5, <1>6, <1>7, <1>8, <1>9 DEF FinanceTypes
  <1> QED
    BY <1>10, <1>11, <1>12, <1>13, <1>14, <1>15, <1>16, <1>17, <1>18, <1>19 DEF BackOfficeTypes

\* The invariants and the types together are the type invariants of the modules.
LEMMA TypesSuffice == BackOfficeIInv /\ BackOfficeTypes => BackOfficeTypeOK
  <1> SUFFICES ASSUME BackOfficeIInv, BackOfficeTypes
               PROVE  BackOfficeTypeOK
    OBVIOUS
  <1>1. ReceivablesTypeOK /\ GeneralLedgerTypeOK /\ EntitiesTypeOK /\ TaxRatesTypeOK
    BY ReceivablesAreTyped DEF BackOfficeIInv, BackOfficeTypes, FinanceTypes, LedgerTyped
  <1>2. VendorBillsTypeOK
    BY DEF BackOfficeIInv, BillsIInv, BackOfficeTypes, FinanceTypes, BillsTyped,
       VendorBillsTypeOK
  <1>3. ReimbursementsTypeOK
    BY DEF BackOfficeIInv, ExpensesIInv, ExpenseRecord, BatchesIInv, BatchesSound,
       BackOfficeTypes, FinanceTypes, BatchesTyped, ReimbursementsTypeOK
  <1>4. RecurringInvoicesTypeOK
    BY DEF BackOfficeIInv, RecurringIInv, TemplatesSound, BackOfficeTypes, FinanceTypes,
       MonthTyped, RecurringInvoicesTypeOK
  <1>5. BankReconciliationTypeOK
    BY DEF BackOfficeIInv, BankIInv, BankSound, BackOfficeTypes, FinanceTypes, BankTyped,
       BankReconciliationTypeOK
  <1>6. CardMatchingTypeOK
    BY DEF BackOfficeIInv, CardsIInv, CardsSound, BackOfficeTypes, FinanceTypes, CardsTyped,
       Imported, CardMatchingTypeOK
  <1>7. StockLedgerTypeOK /\ FixedAssetsTypeOK
    BY StockIsTyped, AssetsAreTyped DEF BackOfficeIInv, BackOfficeTypes
  <1>8. ProcurementTypeOK
    BY DEF BackOfficeIInv, ProcurementIInv, ProcurementSound, BackOfficeTypes, ProcurementTyped,
       OrderRow, ReceiptRow, ProcurementTypeOK
  <1>9. /\ LeaveTypeOK /\ PayrollTypeOK /\ EmployeeLifecycleTypeOK
        /\ TimesheetsTypeOK /\ ProjectsTypeOK /\ TasksTypeOK
    BY LeaveIsTyped, PayrollIsTyped, EmployeesAreTyped, ProjectsAreTyped, TasksAreTyped
    DEF BackOfficeIInv, BackOfficeTypes
  <1> QED
    BY <1>1, <1>2, <1>3, <1>4, <1>5, <1>6, <1>7, <1>8, <1>9 DEF BackOfficeTypeOK

\* Every row, ledger, count and register of the business services keeps its
\* shape: the requests write whole rows computed from what they read, and no
\* interleaving of them leaves one with a status, an amount or an owner that its
\* table does not allow.
THEOREM BackOfficeTyped == BackOfficeSpec => []BackOfficeTypeOK
  <1>1. BackOfficeInit => BackOfficeIInv /\ BackOfficeTypes
    BY BackOfficeStarts, TypesStart
  <1>2. BackOfficeIInv /\ BackOfficeTypes /\ [BackOfficeNext]_BackOfficeVars
           => BackOfficeIInv' /\ BackOfficeTypes'
    BY BackOfficeKeeps, TypesKeep
  <1> QED  BY <1>1, <1>2, TypesSuffice, PTL DEF BackOfficeSpec

=============================================================================
