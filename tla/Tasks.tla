--------------------------------- MODULE Tasks ---------------------------------
(***************************************************************************)
(* Tasks of one project: their status, the completion event and their      *)
(* dependencies.  Handlers read without a lock and write by id.            *)
(***************************************************************************)
EXTENDS Naturals, FiniteSets

CONSTANTS
    TaskIds, TaskTxns,
    MaxCompletions   \* bound on the times a task becomes done

ASSUME TasksAssumption == MaxCompletions \in Nat \ {0}

VARIABLES
    task,        \* operations_task: live or deleted, status, completed_at set or not
    blockedBy,   \* operations_task_dependency rows that are not deleted
    completed,   \* operations.task.completed events per task
    becameDone,  \* history: times the stored status became done
    taskTxn,     \* what each request has read
    taskRaces    \* history: tasks written from an old read

tasksVars == <<task, blockedBy, completed, becameDone, taskTxn, taskRaces>>
taskRows == <<task, blockedBy, completed, becameDone, taskRaces>>

TaskStatuses == {"backlog", "done"}   \* every status but done behaves like backlog
NoTaskTxn == [op |-> "idle"]

TasksTypeOK ==
    /\ task \in [TaskIds -> [state : {"none", "live", "deleted"}, status : TaskStatuses, stamped : BOOLEAN]]
    /\ blockedBy \in [TaskIds -> SUBSET TaskIds]
    /\ completed \in [TaskIds -> Nat] /\ becameDone \in [TaskIds -> 0 .. MaxCompletions]
    /\ DOMAIN taskTxn = TaskTxns
    /\ taskRaces \subseteq TaskIds

TasksInit ==
    /\ task = [t \in TaskIds |-> [state |-> "none", status |-> "backlog", stamped |-> FALSE]]
    /\ blockedBy = [t \in TaskIds |-> {}]
    /\ completed = [t \in TaskIds |-> 0] /\ becameDone = [t \in TaskIds |-> 0]
    /\ taskTxn = [x \in TaskTxns |-> NoTaskTxn]
    /\ taskRaces = {}

TaskExists(t) == task[t].state = "live"

TaskReads(x, what) ==
    /\ taskTxn[x] = NoTaskTxn
    /\ taskTxn' = [taskTxn EXCEPT ![x] = what]
    /\ UNCHANGED taskRows

EndTaskTxn(x) == taskTxn' = [taskTxn EXCEPT ![x] = NoTaskTxn]

-----------------------------------------------------------------------------
(* Tasks *)

\* replace_blocked_by: live tasks other than the task itself; cycles are not
\* looked for.
ReplaceBlockedBy(t, blockers) ==
    /\ t \notin blockers
    /\ \A b \in blockers : TaskExists(b)
    /\ blockedBy' = [blockedBy EXCEPT ![t] = blockers]

\* completed_at and the event follow from the row the request read.
Complete(t, was, stamp, status) ==
    LET becoming == status = "done" /\ was # "done"
        newly == status = "done" /\ task[t].status # "done"
    IN  /\ newly => becameDone[t] < MaxCompletions
        /\ task' = [task EXCEPT ![t].status = status,
                                ![t].stamped = status = "done" /\ (becoming \/ stamp)]
        /\ completed' = [completed EXCEPT ![t] = IF becoming THEN @ + 1 ELSE @]
        /\ becameDone' = [becameDone EXCEPT ![t] = IF newly THEN @ + 1 ELSE @]
        /\ taskRaces' = IF task[t].status # was THEN taskRaces \cup {t} ELSE taskRaces

\* In a project that exists (project_exists); a done task is announced at once.
CreateTask(t, status, blockers) ==
    /\ task[t].state = "none"
    /\ ReplaceBlockedBy(t, blockers)
    /\ task' = [task EXCEPT ![t] = [state |-> "live", status |-> status, stamped |-> status = "done"]]
    /\ completed' = [completed EXCEPT ![t] = IF status = "done" THEN 1 ELSE 0]
    /\ becameDone' = [becameDone EXCEPT ![t] = completed'[t]]
    /\ UNCHANGED <<taskTxn, taskRaces>>

\* A body without a status keeps the one that was read.  The body first matters
\* to the write, and is chosen there.
UpdateTaskRead(x, t) ==
    /\ TaskExists(t)
    /\ TaskReads(x, [op |-> "update", task |-> t, was |-> task[t].status, stamp |-> task[t].stamped])

UpdateTaskWrite(x, status, blockers) ==
    LET r == taskTxn[x]
    IN  /\ r.op = "update"
        /\ TaskExists(r.task)
        /\ ReplaceBlockedBy(r.task, blockers)
        /\ Complete(r.task, r.was, r.stamp, status)
        /\ EndTaskTxn(x)

MoveTaskRead(x, t) ==
    /\ TaskExists(t)
    /\ TaskReads(x, [op |-> "move", task |-> t, was |-> task[t].status, stamp |-> task[t].stamped])

MoveTaskWrite(x, status) ==
    LET r == taskTxn[x]
    IN  /\ r.op = "move"
        /\ TaskExists(r.task)
        /\ Complete(r.task, r.was, r.stamp, status)
        /\ EndTaskTxn(x)
        /\ UNCHANGED <<blockedBy>>

DeleteTask(t) ==
    /\ TaskExists(t)
    /\ task' = [task EXCEPT ![t].state = "deleted"]
    /\ UNCHANGED <<taskTxn, blockedBy, completed, becameDone, taskRaces>>

\* A refused write: the row is gone, or the body names a blocker that is.
TaskRequestFails(x) ==
    LET r == taskTxn[x]
    IN  /\ r.op \in {"update", "move"}
        /\ ~TaskExists(r.task) \/ (r.op = "update" /\ \E b \in TaskIds \ {r.task} : ~TaskExists(b))
        /\ EndTaskTxn(x)
        /\ UNCHANGED taskRows

TasksNext ==
    \/ \E t \in TaskIds, s \in TaskStatuses, b \in SUBSET TaskIds : CreateTask(t, s, b)
    \/ \E x \in TaskTxns, t \in TaskIds : MoveTaskRead(x, t) \/ UpdateTaskRead(x, t)
    \/ \E t \in TaskIds : DeleteTask(t)
    \/ \E x \in TaskTxns :
          \/ \E s \in TaskStatuses : MoveTaskWrite(x, s) \/ \E b \in SUBSET TaskIds : UpdateTaskWrite(x, s, b)
          \/ TaskRequestFails(x)

TasksSpec == TasksInit /\ [][TasksNext]_tasksVars

-----------------------------------------------------------------------------

\* Completing a task is announced once each time it becomes done, unless a
\* write decided `becoming_done` on a status that had changed since it was
\* read; and completed_at is set exactly on the tasks that are done, races
\* included (update_task and move_task copy the stamp they read).
CompletionIsAnnounced ==
    \A t \in TaskIds :
        /\ t \notin taskRaces => completed[t] = becameDone[t]
        /\ task[t].stamped <=> task[t].status = "done"
=============================================================================
