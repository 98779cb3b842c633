------------------------------ MODULE Timesheets ------------------------------
(***************************************************************************)
(* One weekly timesheet of the project service and its entries.  Every     *)
(* handler reads the sheet without a lock, decides on what it read and     *)
(* writes by id; submitting and deciding also move the entries by status.  *)
(***************************************************************************)
EXTENDS Naturals, FiniteSets

CONSTANTS
    TimeEntries,   \* operations_time_entry ids
    Minutes,       \* durations an entry can be given
    SheetTxns,     \* concurrent requests
    OwnerManages   \* whether the sheet's member is an owner, admin or manager

ASSUME TimesheetsAssumption == 0 \notin Minutes /\ OwnerManages \in BOOLEAN

VARIABLES
    sheet,         \* operations_timesheet.status
    timeEntry,     \* operations_time_entry: status and minutes
    signed,        \* history: the minutes of each entry when it was approved
    sheetTxn,      \* what each request has read
    lateEntries,   \* history: entries written from an old read of the sheet
    lateSheet      \* history: the sheet's status was written from an old read

timesheetsVars == <<sheet, timeEntry, signed, sheetTxn, lateEntries, lateSheet>>

SheetStatuses == {"none", "draft", "submitted", "approved", "rejected"}
Actors == {"member", "manager"}
NoSheetTxn == [op |-> "idle"]

TimesheetsTypeOK ==
    /\ sheet \in SheetStatuses
    /\ timeEntry \in [TimeEntries -> [status : SheetStatuses, minutes : Minutes \cup {0}]]
    /\ signed \in [TimeEntries -> Minutes \cup {0}]
    /\ DOMAIN sheetTxn = SheetTxns
    /\ lateEntries \subseteq TimeEntries /\ lateSheet \in BOOLEAN

TimesheetsInit ==
    /\ sheet = "none"
    /\ timeEntry = [e \in TimeEntries |-> [status |-> "none", minutes |-> 0]]
    /\ signed = [e \in TimeEntries |-> 0]
    /\ sheetTxn = [x \in SheetTxns |-> NoSheetTxn]
    /\ lateEntries = {} /\ lateSheet = FALSE

CanManageOthers(actor) == actor = "manager" \/ OwnerManages
CanSelfApprove == OwnerManages

\* A draft is edited by its member or a manager, any other sheet only by an
\* approver who is not its member.
CanEditDraft(actor, status) ==
    IF status = "draft" THEN actor = "member" \/ CanManageOthers(actor)
                        ELSE actor # "member" /\ CanManageOthers(actor)

\* A request that is about no entry has "none".
SheetReads(x, op, e) ==
    /\ sheet # "none"
    /\ sheetTxn[x] = NoSheetTxn
    /\ sheetTxn' = [sheetTxn EXCEPT ![x] = [op |-> op, entry |-> e, read |-> sheet]]
    /\ UNCHANGED <<sheet, timeEntry, signed, lateEntries, lateSheet>>

EndSheetTxn(x) == sheetTxn' = [sheetTxn EXCEPT ![x] = NoSheetTxn]

\* All entries of the sheet in one status move to another.
Shift(from, to) ==
    timeEntry' = [e \in TimeEntries |->
        IF timeEntry[e].status = from THEN [timeEntry[e] EXCEPT !.status = to] ELSE timeEntry[e]]

-----------------------------------------------------------------------------

\* One sheet per member and week: a second request gets the existing one.
CreateTimesheet ==
    /\ sheet = "none"
    /\ sheet' = "draft"
    /\ UNCHANGED <<timeEntry, signed, sheetTxn, lateEntries, lateSheet>>

InsertEntryRead(x, actor, e) ==
    /\ timeEntry[e].status = "none"
    /\ CanEditDraft(actor, sheet)
    /\ SheetReads(x, "insert", e)

\* upsert_entry with an id, and patch_entry.
PatchEntryRead(x, actor, e) ==
    /\ timeEntry[e].status # "none"
    /\ CanEditDraft(actor, sheet)
    /\ timeEntry[e].status = "draft" \/ sheet = "draft"
    /\ SheetReads(x, "patch", e)

\* A request reads and writes in one transaction, but nothing holds the row.
\* The minutes of its body first matter here.
WriteEntry(x, m) ==
    LET t == sheetTxn[x]
        e == t.entry
    IN  /\ t.op \in {"insert", "patch"}
        /\ t.op = "insert" => timeEntry[e].status = "none"
        /\ timeEntry' = [timeEntry EXCEPT ![e].minutes = m,
                                          ![e].status = IF t.op = "insert" THEN "draft" ELSE @]
        /\ lateEntries' = IF sheet # t.read THEN lateEntries \cup {e} ELSE lateEntries
        /\ EndSheetTxn(x)
        /\ UNCHANGED <<sheet, signed, lateSheet>>

SubmitTimesheetRead(x, actor) ==
    /\ actor = "member" \/ CanManageOthers(actor)
    /\ sheet \in {"draft", "rejected"}
    /\ SheetReads(x, "submit", "none")

\* Only draft entries are submitted: a rejected entry stays rejected.
SubmitTimesheetWrite(x) ==
    /\ sheetTxn[x].op = "submit"
    /\ sheet' = "submitted"
    /\ Shift("draft", "submitted")
    /\ lateSheet' = (lateSheet \/ sheet # sheetTxn[x].read)
    /\ EndSheetTxn(x)
    /\ UNCHANGED <<signed, lateEntries>>

DecideTimesheetRead(x, actor) ==
    /\ actor = "member" => CanSelfApprove
    /\ sheet = "submitted"
    /\ SheetReads(x, "decide", "none")

DecideTimesheetWrite(x, verdict) ==
    /\ sheetTxn[x].op = "decide"
    /\ sheet' = verdict
    /\ Shift("submitted", verdict)
    /\ signed' = [e \in TimeEntries |->
           IF verdict = "approved" /\ timeEntry[e].status = "submitted" THEN timeEntry[e].minutes ELSE signed[e]]
    /\ lateSheet' = (lateSheet \/ sheet # sheetTxn[x].read)
    /\ EndSheetTxn(x)
    /\ UNCHANGED lateEntries

TimesheetsNext ==
    \/ CreateTimesheet
    \/ \E x \in SheetTxns, actor \in Actors, e \in TimeEntries :
          InsertEntryRead(x, actor, e) \/ PatchEntryRead(x, actor, e)
    \/ \E x \in SheetTxns, actor \in Actors : SubmitTimesheetRead(x, actor) \/ DecideTimesheetRead(x, actor)
    \/ \E x \in SheetTxns, m \in Minutes : WriteEntry(x, m)
    \/ \E x \in SheetTxns : SubmitTimesheetWrite(x)
    \/ \E x \in SheetTxns, v \in {"approved", "rejected"} : DecideTimesheetWrite(x, v)

TimesheetsSpec == TimesheetsInit /\ [][TimesheetsNext]_timesheetsVars

-----------------------------------------------------------------------------

\* Entries keep step with their sheet: while it is a draft they all are; once
\* it is decided none is still submitted and none carries the other verdict's
\* approval.  decide_timesheet and submit_timesheet move the entries by their
\* own status, so this rests on every writer; a request that wrote the sheet
\* from an old read is the excuse.
EntriesFollowSheet ==
    lateSheet \/
    \A e \in TimeEntries :
        /\ sheet = "draft" => timeEntry[e].status \in {"none", "draft"}
        /\ sheet \in {"approved", "rejected"} => timeEntry[e].status # "submitted"
        /\ timeEntry[e].status = "approved" => sheet = "approved"

\* The minutes of an approved entry are the ones that were approved, unless
\* the edit read the sheet before it was submitted (upsert_entry and
\* patch_entry do not lock the sheet they checked) or the sheet itself was
\* written from an old read.
ApprovedHoursStay ==
    lateSheet \/
    \A e \in TimeEntries :
        timeEntry[e].status = "approved" /\ e \notin lateEntries => timeEntry[e].minutes = signed[e]
=============================================================================
