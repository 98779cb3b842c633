------------------------------- MODULE Projects -------------------------------
(***************************************************************************)
(* Projects of the project service: the project a won deal asks for, and   *)
(* the records (comments, attachments, capacity allocations) filed under   *)
(* an Idempotency-Key.  Handlers read without a lock and write by id.      *)
(***************************************************************************)
EXTENDS Naturals, FiniteSets

CONSTANTS
    Projects, Deals, ProjectTxns,
    NoDeal           \* deal_id IS NULL

ASSUME ProjectsAssumption == NoDeal \notin Deals /\ IsFiniteSet(ProjectTxns)

VARIABLES
    project,      \* operations_project: live (not deleted), deal_id
    taskLive,     \* whether the task commented on is there (not deleted)
    filed,        \* rows of each kind inserted under one Idempotency-Key
    stored,       \* kinds whose key is in operations_idempotency
    projectTxn,   \* what each request has read
    dealRaces,    \* history: deals given a project other than by an unraced event
    filedRaces    \* history: kinds whose key was stored between a read of it and the write

projectsVars == <<project, taskLive, filed, stored, projectTxn, dealRaces, filedRaces>>
filedRows == <<taskLive, filed, stored, filedRaces>>

FiledKinds == {"comment", "attachment", "allocation"}
NoProjectTxn == [op |-> "idle"]

ProjectsTypeOK ==
    /\ project \in [Projects -> [state : {"none", "live", "deleted"}, deal : Deals \cup {NoDeal}]]
    /\ taskLive \in BOOLEAN
    /\ filed \in [FiledKinds -> 0 .. Cardinality(ProjectTxns)]
    /\ stored \subseteq FiledKinds /\ filedRaces \subseteq FiledKinds
    /\ DOMAIN projectTxn = ProjectTxns
    /\ dealRaces \subseteq Deals

ProjectsInit ==
    /\ project = [p \in Projects |-> [state |-> "none", deal |-> NoDeal]]
    /\ taskLive = TRUE
    /\ filed = [k \in FiledKinds |-> 0] /\ stored = {} /\ filedRaces = {}
    /\ projectTxn = [x \in ProjectTxns |-> NoProjectTxn]
    /\ dealRaces = {}

ProjectExists(p) == project[p].state = "live"
ProjectsOf(d) == {p \in Projects : ProjectExists(p) /\ project[p].deal = d}

ProjectReads(x, what) ==
    /\ projectTxn[x] = NoProjectTxn
    /\ projectTxn' = [projectTxn EXCEPT ![x] = what]
    /\ UNCHANGED <<project, dealRaces, filedRows>>

EndProjectTxn(x) == projectTxn' = [projectTxn EXCEPT ![x] = NoProjectTxn]

InsertProject(p, d) == project' = [project EXCEPT ![p] = [state |-> "live", deal |-> d]]

-----------------------------------------------------------------------------

CreateProject(p, d) ==
    /\ project[p].state = "none"
    /\ InsertProject(p, d)
    /\ dealRaces' = dealRaces \cup ({d} \ {NoDeal})
    /\ UNCHANGED <<filedRows, projectTxn>>

\* update_project may give a project any deal, or none.
UpdateProject(p, d) ==
    /\ ProjectExists(p)
    /\ project' = [project EXCEPT ![p].deal = d]
    /\ dealRaces' = dealRaces \cup ({d} \ {NoDeal, project[p].deal})
    /\ UNCHANGED <<filedRows, projectTxn>>

\* Its tasks stay as they are.
DeleteProject(p) ==
    /\ ProjectExists(p)
    /\ project' = [project EXCEPT ![p].state = "deleted"]
    /\ UNCHANGED <<filedRows, projectTxn, dealRaces>>

\* apply_sales_event, delivered any number of times: a deal that has a project
\* is answered with it.
ApplySalesEventRead(x, d) ==
    /\ ProjectsOf(d) = {}
    /\ ProjectReads(x, [op |-> "won", deal |-> d, seen |-> ProjectsOf(d)])

ApplySalesEventWrite(x, p) ==
    LET d == projectTxn[x].deal
    IN  /\ projectTxn[x].op = "won"
        /\ project[p].state = "none"
        /\ InsertProject(p, d)
        /\ dealRaces' = IF ProjectsOf(d) \ projectTxn[x].seen # {} THEN dealRaces \cup {d} ELSE dealRaces
        /\ EndProjectTxn(x)
        /\ UNCHANGED filedRows

-----------------------------------------------------------------------------
(* Records filed under an Idempotency-Key: a comment or an attachment of a *)
(* task, an allocation of capacity                                         *)

FileReads(x, kind) ==
    /\ kind \notin stored
    /\ ProjectReads(x, [op |-> "file", kind |-> kind])

\* The mentions it notifies are filtered by read scope before the insert.
CreateCommentRead(x) == taskLive /\ FileReads(x, "comment")
CreateAttachmentRead(x) == taskLive /\ FileReads(x, "attachment")
CreateAllocationRead(x) == FileReads(x, "allocation")

\* Mutant: the key is not stored with the row.
FileRecordKeyless(x) ==
    LET k == projectTxn[x].kind
    IN  /\ projectTxn[x].op = "file"
        /\ filed' = [filed EXCEPT ![k] = @ + 1]
        /\ filedRaces' = IF k \in stored THEN filedRaces \cup {k} ELSE filedRaces
        /\ EndProjectTxn(x)
        /\ UNCHANGED <<project, dealRaces, taskLive, stored>>

\* The row is inserted and the key stored (ON CONFLICT DO NOTHING) in one commit.
FileRecord(x) ==
    LET k == projectTxn[x].kind
    IN  /\ projectTxn[x].op = "file"
        /\ filed' = [filed EXCEPT ![k] = @ + 1]
        /\ filedRaces' = IF k \in stored THEN filedRaces \cup {k} ELSE filedRaces
        /\ stored' = stored \cup {k}
        /\ EndProjectTxn(x)
        /\ UNCHANGED <<project, dealRaces, taskLive>>

TaskIsDeleted ==
    /\ taskLive
    /\ taskLive' = FALSE
    /\ UNCHANGED <<project, dealRaces, projectTxn, filed, stored, filedRaces>>

ProjectsNext ==
    \/ \E p \in Projects, d \in Deals \cup {NoDeal} : CreateProject(p, d) \/ UpdateProject(p, d)
    \/ \E p \in Projects : DeleteProject(p)
    \/ \E x \in ProjectTxns, d \in Deals : ApplySalesEventRead(x, d)
    \/ \E x \in ProjectTxns, p \in Projects : ApplySalesEventWrite(x, p)
    \/ \E x \in ProjectTxns :
          CreateCommentRead(x) \/ CreateAttachmentRead(x) \/ CreateAllocationRead(x) \/ FileRecord(x)
    \/ TaskIsDeleted

ProjectsSpec == ProjectsInit /\ [][ProjectsNext]_projectsVars

-----------------------------------------------------------------------------

\* "never create a second project for the same deal": a won deal has one live
\* project, unless two deliveries of the event raced or a user linked one; and
\* a record sent again under its key is not filed again, unless the requests
\* looked the key up before either stored it.
OneProjectPerDeal ==
    /\ \A d \in Deals \ dealRaces : Cardinality(ProjectsOf(d)) <= 1
    /\ \A k \in FiledKinds \ filedRaces : filed[k] <= 1
=============================================================================
