---------------------------- MODULE WorkflowEngine ----------------------------
(***************************************************************************)
(* The workflow service: one definition with its draft and its published   *)
(* versions, instances started by a user or by a domain event, the engine  *)
(* that drives an instance node by node, cancelling, the monitor's SLA     *)
(* sweep and the organization's bounds.                                    *)
(*                                                                         *)
(* advance_instance does everything under a row lock in one transaction,   *)
(* except the call of the action.  Where it fails the instance it returns  *)
(* before its COMMIT, so the transaction is rolled back.                   *)
(***************************************************************************)
EXTENDS Naturals, Sequences, FiniteSets

CONSTANTS
    Graphs,          \* graphs a user may save: [entry, sla, event, nodes], a node [kind, path, next, alt]
    Payloads,        \* payloads a run may be started with: what each path finds in them
    Instances,       \* workflow_instance ids
    StartTxns,       \* concurrent requests that start an instance
    ConcurrentCaps,  \* values of max_concurrent
    StepCaps,        \* values of max_steps_per_instance
    RunLimit,        \* iterations of run_until_idle (DEFAULT_MAX_STEPS + 5)
    SimulateLimit,   \* the most steps simulate walks (DEFAULT_MAX_STEPS * 2)
    MaxVersions,     \* bound on the published versions
    NoNode           \* current_node_id IS NULL

ASSUME WorkflowEngineAssumption ==
    /\ RunLimit \in Nat \ {0} /\ SimulateLimit \in Nat /\ RunLimit <= SimulateLimit
    /\ MaxVersions \in Nat /\ IsFiniteSet(Instances)
    /\ ConcurrentCaps \subseteq Nat \ {0} /\ StepCaps \subseteq Nat \ {0}
    /\ \A g \in Graphs : g.entry \in DOMAIN g.nodes /\ NoNode \notin DOMAIN g.nodes

VARIABLES
    draft,          \* the graph of version 0
    versions,       \* the published graphs, version n at n
    instance,       \* workflow_instance rows
    steps,          \* workflow_instance_step rows per instance
    calls,          \* actions called, per instance
    bounds,         \* workflow_org_bounds
    starting,       \* what each starting request has read
    driver,         \* iterations run_until_idle has left for each instance
    lostSteps,      \* history: instances with a failed action that was rolled back
    crashed,        \* history: instances whose driver died
    startRaces,     \* history: the cap was reached between the count and the insert
    boundsMoved     \* history: the bounds were changed

workflowEngineVars ==
    <<draft, versions, instance, steps, calls, bounds, starting, driver,
      lostSteps, crashed, startRaces, boundsMoved>>
definitionRows == <<draft, versions>>
runRows == <<instance, steps, calls, driver, lostSteps, crashed>>
startRows == <<starting, startRaces>>

InstanceStatuses == {"none", "running", "waiting", "completed", "cancelled", "sla_breached"}
NoPayload == "none"
NoInstance == [status |-> "none", version |-> 0, node |-> NoNode, stepCount |-> 0,
               payload |-> NoPayload, due |-> FALSE]
NotStarting == [op |-> "idle"]

WorkflowEngineTypeOK ==
    /\ draft \in Graphs /\ Len(versions) <= MaxVersions /\ \A v \in 1 .. Len(versions) : versions[v] \in Graphs
    /\ \A i \in Instances :
          /\ instance[i].status \in InstanceStatuses
          /\ instance[i].version \in 0 .. Len(versions)
          /\ {steps[i], calls[i], instance[i].stepCount} \subseteq Nat
          /\ driver[i] \in 0 .. RunLimit
    /\ bounds \in [concurrent : ConcurrentCaps, steps : StepCaps]
    /\ DOMAIN starting = StartTxns
    /\ lostSteps \subseteq Instances /\ crashed \subseteq Instances
    /\ {startRaces, boundsMoved} \subseteq BOOLEAN

WorkflowEngineInit ==
    /\ draft \in Graphs
    /\ versions = <<>>
    /\ instance = [i \in Instances |-> NoInstance]
    /\ steps = [i \in Instances |-> 0] /\ calls = [i \in Instances |-> 0]
    /\ bounds \in [concurrent : ConcurrentCaps, steps : StepCaps]
    /\ starting = [x \in StartTxns |-> NotStarting]
    /\ driver = [i \in Instances |-> 0]
    /\ lostSteps = {} /\ crashed = {} /\ startRaces = FALSE /\ boundsMoved = FALSE

-----------------------------------------------------------------------------
(* Definitions *)

\* validate: the entry is a node; the successors need not be.
Valid(g) == g.entry \in DOMAIN g.nodes

UpdateDefinition(g) ==
    /\ Valid(g) /\ g # draft
    /\ Len(versions) < MaxVersions   \* a draft that a version can still take
    /\ draft' = g
    /\ UNCHANGED <<versions, runRows, startRows, bounds, boundsMoved>>

\* The draft is copied to the next version and goes on as the draft.
PublishDefinition ==
    /\ Valid(draft)
    /\ Len(versions) < MaxVersions
    /\ versions' = Append(versions, draft)
    /\ UNCHANGED <<draft, runRows, startRows, bounds, boundsMoved>>

UpdateBounds(c, s) ==
    /\ bounds # [concurrent |-> c, steps |-> s]
    /\ bounds' = [concurrent |-> c, steps |-> s]
    /\ boundsMoved' = TRUE
    /\ UNCHANGED <<definitionRows, runRows, startRows>>

-----------------------------------------------------------------------------
(* Starting: the count and the insert are one transaction without a lock *)

ActiveInstances == {i \in Instances : instance[i].status \in {"running", "waiting"}}

\* Mutant: one instance too many.
BelowCapInclusive == Cardinality(ActiveInstances) <= bounds.concurrent

BelowCap == Cardinality(ActiveInstances) < bounds.concurrent

\* A start is refused unless the creator may own every action key of the graph,
\* start_approval included; the principal that passed drives the whole run, so
\* the engine's own checks of the keys never deny.
ReadStart(x, v, due) ==
    /\ starting[x] = NotStarting
    /\ BelowCap
    /\ starting' = [starting EXCEPT ![x] = [op |-> "start", version |-> v, due |-> due]]
    /\ UNCHANGED <<definitionRows, runRows, startRaces, bounds, boundsMoved>>

\* The published version; the instance has a deadline if the graph has an SLA.
StartInstanceRead(x) ==
    /\ versions # <<>>
    /\ ReadStart(x, Len(versions), versions[Len(versions)].sla)

\* ingest_trigger_event lists the published versions before it counts, so v may
\* have been succeeded; only one whose trigger is that event, and no deadline.
TriggerEventRead(x, v) ==
    /\ versions[v].event
    /\ ReadStart(x, v, FALSE)

\* The insert, with the payload of the request, commits; then run_until_idle
\* drives the instance.
StartInstanceWrite(x, i, payload) ==
    LET s == starting[x]
    IN  /\ s.op = "start"
        /\ instance[i].status = "none"
        /\ instance' = [instance EXCEPT ![i] =
               [status |-> "running", version |-> s.version, node |-> versions[s.version].entry,
                stepCount |-> 0, payload |-> payload, due |-> s.due]]
        /\ driver' = [driver EXCEPT ![i] = RunLimit]
        /\ starting' = [starting EXCEPT ![x] = NotStarting]
        /\ startRaces' = (startRaces \/ ~BelowCap)
        /\ UNCHANGED <<definitionRows, steps, calls, lostSteps, crashed, bounds, boundsMoved>>

-----------------------------------------------------------------------------
(* Driving *)

GraphOf(i) == versions[instance[i].version]
NodeOf(i) == GraphOf(i).nodes[instance[i].node]
AtNode(i, kinds) ==
    /\ driver[i] > 0
    /\ instance[i].status = "running"
    /\ instance[i].node \in DOMAIN GraphOf(i).nodes
    /\ instance[i].stepCount < bounds.steps
    /\ NodeOf(i).kind \in kinds

Tick(i) == driver' = [driver EXCEPT ![i] = @ - 1]

\* A committed step: record_step, and the instance moves on.
Recorded(i, status, node) ==
    /\ steps' = [steps EXCEPT ![i] = @ + 1]
    /\ instance' = [instance EXCEPT ![i].status = status, ![i].node = node, ![i].stepCount = @ + 1]
    /\ Tick(i)
    /\ UNCHANGED <<definitionRows, startRows, lostSteps, crashed, bounds, boundsMoved>>

\* complete_instance leaves step_count as it was.
EndStep(i) ==
    /\ AtNode(i, {"end"})
    /\ steps' = [steps EXCEPT ![i] = @ + 1]
    /\ instance' = [instance EXCEPT ![i].status = "completed", ![i].node = NoNode]
    /\ Tick(i)
    /\ UNCHANGED <<definitionRows, startRows, calls, lostSteps, crashed, bounds, boundsMoved>>

ActionStep(i) ==
    /\ AtNode(i, {"action"})
    /\ calls' = [calls EXCEPT ![i] = @ + 1]
    /\ Recorded(i, "running", NodeOf(i).next)

\* What the path of a test finds is "none", "equal" or another value, by three
\* ways to read the path: `literal` as a JSON pointer of one key, `split` at
\* every dot, `dropped` split at the dots without the empty parts.
ConditionHolds(found) == (IF found.literal # "none" THEN found.literal ELSE found.split) = "equal"
ArmMatches(found) == found.split = "equal"
SimulatedMatch(found) == found.dropped = "equal"

ConditionStep(i) ==
    /\ AtNode(i, {"condition"})
    /\ Recorded(i, "running", IF ConditionHolds(instance[i].payload[NodeOf(i).path])
                              THEN NodeOf(i).next ELSE NodeOf(i).alt)
    /\ UNCHANGED calls

BranchStep(i) ==
    /\ AtNode(i, {"branch"})
    /\ Recorded(i, "running", IF ArmMatches(instance[i].payload[NodeOf(i).path])
                              THEN NodeOf(i).next ELSE NodeOf(i).alt)
    /\ UNCHANGED calls

TimerStep(i) ==
    /\ AtNode(i, {"timer"})
    /\ Recorded(i, "waiting", NodeOf(i).next)
    /\ UNCHANGED calls

\* An approval is asked for; its error is dropped.
HumanStep(i) ==
    /\ AtNode(i, {"approval", "inbox"})
    /\ calls' = [calls EXCEPT ![i] = IF NodeOf(i).kind = "approval" THEN @ + 1 ELSE @]
    /\ Recorded(i, "waiting", NodeOf(i).next)

\* fail_instance writes status, step and event and advance_instance returns
\* without a COMMIT: what is left is the call that may have been made, and one
\* iteration fewer.
RolledBack(i) ==
    /\ Tick(i)
    /\ UNCHANGED <<definitionRows, startRows, instance, steps, crashed, bounds, boundsMoved>>

FailActionStep(i) ==
    /\ AtNode(i, {"action"})
    /\ calls' = [calls EXCEPT ![i] = @ + 1]
    /\ lostSteps' = lostSteps \cup {i}
    /\ RolledBack(i)

CannotAdvance(i) ==
    \/ instance[i].node = NoNode
    \/ instance[i].stepCount >= bounds.steps
    \/ instance[i].node \notin DOMAIN GraphOf(i).nodes

FailInstance(i) ==
    /\ driver[i] > 0 /\ instance[i].status = "running"
    /\ CannotAdvance(i)
    /\ RolledBack(i)
    /\ UNCHANGED <<calls, lostSteps>>

\* run_until_idle stops at any other status.
DriverStops(i) ==
    /\ driver[i] > 0 /\ instance[i].status # "running"
    /\ driver' = [driver EXCEPT ![i] = 0]
    /\ UNCHANGED <<definitionRows, startRows, instance, steps, calls, lostSteps, crashed, bounds, boundsMoved>>

\* The process dies, before or after it made the call of an action step.
DriverCrashes(i, called) ==
    /\ driver[i] > 0 /\ instance[i].status = "running"
    /\ called => AtNode(i, {"action", "approval"})
    /\ calls' = [calls EXCEPT ![i] = IF called THEN @ + 1 ELSE @]
    /\ driver' = [driver EXCEPT ![i] = 0]
    /\ crashed' = crashed \cup {i}
    /\ UNCHANGED <<definitionRows, startRows, instance, steps, lostSteps, bounds, boundsMoved>>

-----------------------------------------------------------------------------

CancelInstance(i) ==
    /\ i \in ActiveInstances
    /\ instance' = [instance EXCEPT ![i].status = "cancelled"]
    /\ UNCHANGED <<definitionRows, startRows, steps, calls, driver, lostSteps, crashed, bounds, boundsMoved>>

\* monitor (a GET) marks the instances whose deadline has passed.
Monitor ==
    LET late == {i \in ActiveInstances : instance[i].due}
    IN  /\ late # {}
        /\ \E breached \in SUBSET late \ {{}} :
              instance' = [i \in Instances |->
                  IF i \in breached THEN [instance[i] EXCEPT !.status = "sla_breached"] ELSE instance[i]]
        /\ UNCHANGED <<definitionRows, startRows, steps, calls, driver, lostSteps, crashed, bounds, boundsMoved>>

WorkflowEngineNext ==
    \/ \E g \in Graphs : UpdateDefinition(g)
    \/ PublishDefinition
    \/ \E c \in ConcurrentCaps, s \in StepCaps : UpdateBounds(c, s)
    \/ \E x \in StartTxns :
          \/ StartInstanceRead(x)
          \/ \E v \in 1 .. Len(versions) : TriggerEventRead(x, v)
          \/ \E i \in Instances, p \in Payloads : StartInstanceWrite(x, i, p)
    \/ \E i \in Instances :
          \/ EndStep(i) \/ ActionStep(i) \/ ConditionStep(i) \/ BranchStep(i) \/ TimerStep(i) \/ HumanStep(i)
          \/ FailActionStep(i) \/ FailInstance(i) \/ DriverStops(i) \/ CancelInstance(i)
          \/ \E called \in BOOLEAN : DriverCrashes(i, called)
    \/ Monitor

WorkflowEngineSpec == WorkflowEngineInit /\ [][WorkflowEngineNext]_workflowEngineVars

-----------------------------------------------------------------------------
(* The dry run (simulate.rs) over the same graph.  Its handler refuses the    *)
(* graph unless the caller may own every action key, so no step is denied.    *)

\* The node after this one: the simulation assumes approval and does not wait.
SimulatedNext(g, payload, at) ==
    IF at \notin DOMAIN g.nodes THEN NoNode
    ELSE IF g.nodes[at].kind \in {"condition", "branch"} /\ ~SimulatedMatch(payload[g.nodes[at].path])
         THEN g.nodes[at].alt
    ELSE g.nodes[at].next

\* The node the simulation is at after n steps.
SimulateWalk(g, payload, max) ==
    LET walk[n \in 0 .. max] == IF n = 0 THEN g.entry ELSE SimulatedNext(g, payload, walk[n - 1])
    IN  walk

\* max_steps.clamp(1, DEFAULT_MAX_STEPS * 2)
Clamped(max) == IF max < 1 THEN 1 ELSE IF max > SimulateLimit THEN SimulateLimit ELSE max

\* ok: an End node is reached before the cap.
Simulate(g, payload, maxSteps) ==
    LET max == Clamped(maxSteps)
        walk == SimulateWalk(g, payload, max)
    IN  \E n \in 0 .. max - 1 : walk[n] \in DOMAIN g.nodes /\ g.nodes[walk[n]].kind = "end"

-----------------------------------------------------------------------------

\* The iterations a run really has: the bound of the organization, or the
\* driver's own limit where that is lower.
RunCap == IF bounds.steps < RunLimit THEN bounds.steps ELSE RunLimit

\* The engine and the simulator read every path of the graph alike: not a key
\* that is spelled with a dot, nor a path with an empty part.
PathsReadAlike(g, payload) ==
    \A n \in DOMAIN g.nodes :
        LET found == payload[g.nodes[n].path]
        IN  /\ g.nodes[n].kind = "condition" => (ConditionHolds(found) <=> SimulatedMatch(found))
            /\ g.nodes[n].kind = "branch" => (ArmMatches(found) <=> SimulatedMatch(found))

\* The dry run tells what a run does ("Caps steps the same as production"),
\* asked for as many steps as the driver has iterations: where both read the
\* paths alike, an instance completes only if its simulation does, and one the
\* simulation completes is left running only by a failed action, a crash or a
\* bound that was changed meanwhile.
SimulationPredicts ==
    boundsMoved \/
    \A i \in Instances :
        instance[i].status # "none" /\ PathsReadAlike(GraphOf(i), instance[i].payload) =>
        LET predicted == Simulate(GraphOf(i), instance[i].payload, RunCap)
        IN  /\ instance[i].status = "completed" => predicted
            /\ instance[i].status = "running" /\ driver[i] = 0 => ~predicted \/ i \in lostSteps \cup crashed

\* What is recorded is what happened: the steps of an instance are its
\* step_count (and the End step), and an action was called without a recorded
\* step only where the failure was rolled back or the driver crashed.
StepsAreRecorded ==
    \A i \in Instances :
        /\ steps[i] = instance[i].stepCount + (IF instance[i].status = "completed" THEN 1 ELSE 0)
        /\ calls[i] > steps[i] => i \in lostSteps \cup crashed

\* enforce_concurrency_cap: no more active instances than the cap, unless two
\* starts counted before either inserted, or the cap was lowered.
ConcurrencyCapHolds ==
    startRaces \/ boundsMoved \/ Cardinality(ActiveInstances) <= bounds.concurrent

\* "Drive an instance until waiting/terminal (bounded by max steps)": when
\* run_until_idle has returned, the instance is no longer running.
DrivenUntilIdle ==
    \A i \in Instances \ crashed : driver[i] = 0 => instance[i].status # "running"
=============================================================================
