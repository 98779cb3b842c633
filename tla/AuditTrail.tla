----------------------------- MODULE AuditTrail -----------------------------
(***************************************************************************)
(* The audit trail of one organization: audit rows written on the domain   *)
(* transactions of every service, the trigger that chains their hashes per *)
(* month, audit_verify, and the export that packages the trail.  A hash is *)
(* named by the entry it covers: digests do not collide.                   *)
(***************************************************************************)
EXTENDS Naturals, FiniteSets, FiniteSetsExt

CONSTANTS
    AuditTxns,      \* transactions that write an audit row
    Exports,        \* export jobs
    LastInstant,    \* bound on the clock
    MonthLength,    \* instants in a month (partition_key is the month of created_at)
    NoHash         \* the empty prev_hash

ASSUME AuditTrailAssumption ==
    /\ LastInstant \in Nat /\ MonthLength \in Nat \ {0}
    /\ NoHash \notin 0 .. LastInstant

VARIABLES
    auditClock,     \* the next instant: now() of the next transaction to begin
    auditTxn,       \* each transaction: its start (created_at) and how far it is
    auditLog,       \* committed audit_entry rows, created_at |-> prev_hash
    appended,       \* history: the order of the commits, created_at |-> rank
    exportJob,      \* export_job: what was verified and what was packaged
    exportTxn       \* the verification an export in progress has done so far

auditTrailVars == <<auditClock, auditTxn, auditLog, appended, exportJob, exportTxn>>

Instants == 0 .. LastInstant
NoAuditTxn == [op |-> "idle"]
NoExport == [state |-> "none"]
Partition(at) == at \div MonthLength

AuditTrailTypeOK ==
    /\ auditClock \in 0 .. LastInstant + 1
    /\ DOMAIN auditLog \subseteq Instants
    /\ \A e \in DOMAIN auditLog : auditLog[e] \in DOMAIN auditLog \cup {NoHash}
    /\ DOMAIN appended = DOMAIN auditLog
    /\ DOMAIN auditTxn = AuditTxns /\ DOMAIN exportJob = Exports /\ DOMAIN exportTxn = Exports

AuditTrailInit ==
    /\ auditClock = 0
    /\ auditTxn = [x \in AuditTxns |-> NoAuditTxn]
    /\ auditLog = [e \in {} |-> NoHash] /\ appended = [e \in {} |-> 0]
    /\ exportJob = [j \in Exports |-> NoExport] /\ exportTxn = [j \in Exports |-> NoExport]

InPartition(log, p) == {e \in DOMAIN log : Partition(e) = p}
Partitions(log) == {Partition(e) : e \in DOMAIN log}
Newest(entries) == IF entries = {} THEN NoHash ELSE Max(entries)
Before(entries, e) == Newest({f \in entries : f < e})

-----------------------------------------------------------------------------

AuditTxnBecomes(x, what) == auditTxn' = [auditTxn EXCEPT ![x] = what]

\* now() is the start of the transaction, also of a row it inserts much later.
AuditTxnBegin(x) ==
    /\ auditTxn[x] = NoAuditTxn
    /\ auditClock \in Instants
    /\ AuditTxnBecomes(x, [op |-> "begun", at |-> auditClock])
    /\ auditClock' = auditClock + 1
    /\ UNCHANGED <<auditLog, appended, exportJob, exportTxn>>

\* The advisory lock of the partition is held until the transaction ends.
PartitionLocked(p) == \E x \in AuditTxns : auditTxn[x].op = "inserted" /\ Partition(auditTxn[x].at) = p

\* insert_audit, audit_mutation and the trigger: under the lock, prev_hash is
\* the hash of the partition's newest row by created_at.
InsertAudit(x) ==
    LET p == Partition(auditTxn[x].at)
    IN  /\ auditTxn[x].op = "begun"
        /\ ~PartitionLocked(p)
        /\ AuditTxnBecomes(x, [op |-> "inserted", at |-> auditTxn[x].at, prev |-> Newest(InPartition(auditLog, p))])
        /\ UNCHANGED <<auditClock, auditLog, appended, exportJob, exportTxn>>

AuditTxnCommit(x) ==
    LET e == auditTxn[x].at
    IN  /\ auditTxn[x].op = "inserted"
        /\ auditLog' = [f \in DOMAIN auditLog \cup {e} |-> IF f = e THEN auditTxn[x].prev ELSE auditLog[f]]
        /\ appended' = [f \in DOMAIN appended \cup {e} |->
                           IF f = e THEN Cardinality(DOMAIN appended) ELSE appended[f]]
        /\ AuditTxnBecomes(x, NoAuditTxn)
        /\ UNCHANGED <<auditClock, exportJob, exportTxn>>

\* A rollback, or audit_mutation ignoring its error: the row never was.
AuditTxnAbort(x) ==
    /\ auditTxn[x].op # "idle"
    /\ AuditTxnBecomes(x, NoAuditTxn)
    /\ UNCHANGED <<auditClock, auditLog, appended, exportJob, exportTxn>>

-----------------------------------------------------------------------------

\* check_partition: in order of created_at every row carries the hash of the
\* row before it (LAG); content_ok holds for rows nobody edited.
ChainOk(log, p) ==
    \A e \in InPartition(log, p) : log[e] = Before(InPartition(log, p), e)

\* create_export first runs verify_all, which lists the partitions and checks
\* one after another, each in a transaction of its own.
VerifyAllStart(j) ==
    /\ exportJob[j] = NoExport /\ exportTxn[j] = NoExport
    /\ exportTxn' = [exportTxn EXCEPT ![j] =
          [state |-> "verifying", left |-> Partitions(auditLog), ok |-> TRUE, rows |-> {}]]
    /\ UNCHANGED <<auditClock, auditTxn, auditLog, appended, exportJob>>

CheckPartition(j) ==
    LET v == exportTxn[j]
        p == Min(v.left)
    IN  /\ v.state = "verifying" /\ v.left # {}
        /\ exportTxn' = [exportTxn EXCEPT ![j] =
              [v EXCEPT !.left = @ \ {p}, !.ok = @ /\ ChainOk(auditLog, p), !.rows = @ \cup InPartition(auditLog, p)]]
        /\ UNCHANGED <<auditClock, auditTxn, auditLog, appended, exportJob>>

\* The rows are packaged in a later transaction, whatever the result.
CreateExport(j) ==
    LET v == exportTxn[j]
    IN  /\ v.state = "verifying" /\ v.left = {}
        /\ exportJob' = [exportJob EXCEPT ![j] =
              [state |-> "completed", hash_chain_ok |-> v.ok, verified |-> v.rows, pack |-> auditLog]]
        /\ exportTxn' = [exportTxn EXCEPT ![j] = NoExport]
        /\ UNCHANGED <<auditClock, auditTxn, auditLog, appended>>

AuditTrailNext ==
    \/ \E x \in AuditTxns : AuditTxnBegin(x) \/ InsertAudit(x) \/ AuditTxnCommit(x) \/ AuditTxnAbort(x)
    \/ \E j \in Exports : VerifyAllStart(j) \/ CheckPartition(j) \/ CreateExport(j)

AuditTrailSpec == AuditTrailInit /\ [][AuditTrailNext]_auditTrailVars

-----------------------------------------------------------------------------

\* A row that was chained after a row of its partition that began later.
Overtaken(p) ==
    \E e, f \in InPartition(auditLog, p) : e < f /\ appended[f] < appended[e]

\* A partition that nobody edited verifies, unless transactions wrote their
\* rows in another order than they began; and an export that says its chain
\* was verified packages every row verified, and breaks only through rows that
\* came after the verification.
AuditBreaksExplained ==
    /\ \A p \in Partitions(auditLog) : ChainOk(auditLog, p) \/ Overtaken(p)
    /\ \A j \in Exports : exportJob[j] # NoExport =>
          /\ exportJob[j].verified \subseteq DOMAIN exportJob[j].pack
          /\ exportJob[j].hash_chain_ok /\ (\E p \in Partitions(exportJob[j].pack) : ~ChainOk(exportJob[j].pack, p)) =>
                exportJob[j].verified # DOMAIN exportJob[j].pack

\* "Serialize writers per org+partition so the chain stays linear": no two
\* rows follow the same row.
ChainStaysLinear ==
    \A e, f \in DOMAIN auditLog : auditLog[e] = auditLog[f] /\ Partition(e) = Partition(f) => e = f
=============================================================================
