----------------------------- MODULE StockLedger -----------------------------
(***************************************************************************)
(* Stock movements of the inventory service and the stock level cached for *)
(* one item in one warehouse.  post_movement reads the level without a     *)
(* lock and upserts the level it computed: a read step and a write step.   *)
(* create_movement posts the cost of goods sold to the finance service     *)
(* between its write and its commit.  Unit costs are assumed not to be     *)
(* negative, which the handlers do not check.                              *)
(***************************************************************************)
EXTENDS Integers, FiniteSets, FiniteSetsExt

CONSTANTS
    Movements,   \* inventory_stock_movement ids
    MoveKeys,    \* idempotency keys
    StockTxns,   \* concurrent requests
    UnitCosts,   \* unit_cost_minor values
    MaxDelta,    \* largest quantity of one movement
    Keyless      \* no idempotency key

ASSUME StockLedgerAssumption ==
    /\ UnitCosts \subseteq Nat /\ IsFiniteSet(UnitCosts)
    /\ MaxDelta \in Nat \ {0} /\ Keyless \notin MoveKeys

VARIABLES
    warehouse,   \* whether the warehouse exists
    stockItem,   \* inventory_item: exists, is_active, allow_negative_stock
    movements,   \* inventory_stock_movement rows
    level,       \* inventory_stock_level: quantity and average cost
    cogs,        \* finance: movements with a cost-of-goods journal
    alerts,      \* inventory_drift_alert: <<cached, movement sum>>
    stockPosting,     \* what each request has read
    levelDrifted,     \* history: a level was written over one it had not read
    backordered, \* history: the item was allowed to go negative
    uncommitted, \* history: movements that were journaled and then rolled back
    falseAlarm   \* history: an alert compared values from before and after a movement

stockLedgerVars == <<warehouse, stockItem, movements, level, cogs, alerts, stockPosting,
                     levelDrifted, backordered, uncommitted, falseAlarm>>

catalogue == <<warehouse, stockItem, backordered>>
NotPosting == [op |-> "idle"]
MovementSum == SumFunction([m \in movements |-> m.delta])

StockLedgerTypeOK ==
    /\ warehouse \in BOOLEAN
    /\ stockItem \in [exists : BOOLEAN, active : BOOLEAN, negative : BOOLEAN]
    /\ \A m \in movements : m.id \in Movements /\ m.delta \in Int /\ m.key \in MoveKeys \cup {Keyless}
    /\ level.qty \in Int /\ level.avg \in Int
    /\ cogs \subseteq Movements /\ uncommitted \subseteq Movements
    /\ alerts \subseteq Int \X Int
    /\ DOMAIN stockPosting = StockTxns
    /\ {levelDrifted, backordered, falseAlarm} \subseteq BOOLEAN

StockLedgerInit ==
    /\ warehouse = FALSE
    /\ stockItem = [exists |-> FALSE, active |-> FALSE, negative |-> FALSE]
    /\ movements = {}
    /\ level = [qty |-> 0, avg |-> 0]
    /\ cogs = {} /\ alerts = {} /\ uncommitted = {}
    /\ stockPosting = [x \in StockTxns |-> NotPosting]
    /\ levelDrifted = FALSE /\ backordered = FALSE /\ falseAlarm = FALSE

CreateWarehouse ==
    /\ ~warehouse /\ warehouse' = TRUE
    /\ UNCHANGED <<stockItem, movements, level, cogs, alerts, stockPosting, levelDrifted, backordered, uncommitted, falseAlarm>>

CreateItem(negative) ==
    /\ ~stockItem.exists
    /\ stockItem' = [exists |-> TRUE, active |-> TRUE, negative |-> negative]
    /\ backordered' = negative
    /\ UNCHANGED <<warehouse, movements, level, cogs, alerts, stockPosting, levelDrifted, uncommitted, falseAlarm>>

UpdateItem(active, negative) ==
    /\ stockItem.exists
    /\ stockItem' = [exists |-> TRUE, active |-> active, negative |-> negative]
    /\ backordered' = (backordered \/ negative)
    /\ UNCHANGED <<warehouse, movements, level, cogs, alerts, stockPosting, levelDrifted, uncommitted, falseAlarm>>

-----------------------------------------------------------------------------
(* Valuation *)

Magnitude(n) == IF n < 0 THEN -n ELSE n

\* Money::round_half_up: halves away from zero.
RoundHalfUp(n, d) ==
    LET q == Magnitude(n) \div Magnitude(d)
        r == Magnitude(n) % Magnitude(d)
        rounded == IF 2 * r >= Magnitude(d) THEN q + 1 ELSE q
    IN  IF (n < 0) # (d < 0) THEN -rounded ELSE rounded

\* weighted_average_receipt
WeightedAverageReceipt(at, qty, cost) ==
    LET new == at.qty + qty
    IN  [qty |-> new,
         avg |-> IF new = 0 THEN at.avg ELSE RoundHalfUp(at.qty * at.avg + qty * cost, new)]

\* issue_cost_minor
IssueCost(at, delta) == (-delta) * at.avg

NewLevel(at, delta, cost) ==
    IF delta > 0 THEN WeightedAverageReceipt(at, delta, cost)
    ELSE [qty |-> at.qty + delta, avg |-> at.avg]

-----------------------------------------------------------------------------
(* Movements *)

\* post_movement up to its INSERT.  A known key is answered from the movement
\* that has it.
PostMovementRead(x, m, delta, cost, key) ==
    LET new == NewLevel(level, delta, cost)
    IN  /\ stockPosting[x] = NotPosting
        /\ \A r \in movements : r.id # m /\ (key # Keyless => r.key # key)
        /\ \A y \in StockTxns : stockPosting[y].op = "post" => stockPosting[y].row.id # m
        /\ m \notin uncommitted
        /\ warehouse /\ stockItem.exists /\ stockItem.active
        /\ new.qty < 0 => stockItem.negative
        /\ stockPosting' = [stockPosting EXCEPT ![x] = [op |-> "post", read |-> level, new |-> new,
                           row |-> [id |-> m, delta |-> delta, key |-> key]]]
        /\ UNCHANGED <<catalogue, movements, level, cogs, alerts, levelDrifted, uncommitted, falseAlarm>>

\* Mutant: no unique index on the key.
NothingPostedUnindexed(x) == TRUE

NothingPosted(x) == \A r \in movements : stockPosting[x].row.key = Keyless \/ r.key # stockPosting[x].row.key
Cost(x) == IssueCost(stockPosting[x].read, stockPosting[x].row.delta)

\* The INSERT, the upsert of the level, the journal of an issue, which the
\* finance service may refuse, and the commit.
PostMovementWrite(x, journaled) ==
    LET row == stockPosting[x].row
    IN  /\ stockPosting[x].op = "post" /\ NothingPosted(x)
        /\ journaled => row.delta < 0 /\ Cost(x) > 0
        /\ movements' = movements \cup {row}
        /\ level' = stockPosting[x].new
        /\ cogs' = IF journaled THEN cogs \cup {row.id} ELSE cogs
        /\ levelDrifted' = (levelDrifted \/ level.qty # stockPosting[x].read.qty)
        /\ stockPosting' = [y \in StockTxns |->
               CASE y = x -> NotPosting
                 [] stockPosting[y].op = "reconcile" -> [stockPosting[y] EXCEPT !.moved = TRUE]
                 [] OTHER -> stockPosting[y]]
        /\ UNCHANGED <<catalogue, alerts, uncommitted, falseAlarm>>

\* The unique key refuses the INSERT, or the transaction is lost; a lost one
\* may have posted its journal already.
PostMovementFails(x, journaled) ==
    LET row == stockPosting[x].row
    IN  /\ stockPosting[x].op = "post"
        /\ journaled => NothingPosted(x) /\ row.delta < 0 /\ Cost(x) > 0
        /\ cogs' = IF journaled THEN cogs \cup {row.id} ELSE cogs
        /\ uncommitted' = IF journaled THEN uncommitted \cup {row.id} ELSE uncommitted
        /\ stockPosting' = [stockPosting EXCEPT ![x] = NotPosting]
        /\ UNCHANGED <<catalogue, movements, level, alerts, levelDrifted, falseAlarm>>

\* reconcile_stock and reconcile_all: the cached level, then the movements.
ReconcileRead(x) ==
    /\ stockPosting[x] = NotPosting
    /\ movements # {}
    /\ stockPosting' = [stockPosting EXCEPT ![x] = [op |-> "reconcile", cached |-> level.qty, moved |-> FALSE]]
    /\ UNCHANGED <<catalogue, movements, level, cogs, alerts, levelDrifted, uncommitted, falseAlarm>>

ReconcileWrite(x) ==
    /\ stockPosting[x].op = "reconcile"
    /\ LET drift == stockPosting[x].cached # MovementSum
       IN  /\ alerts' = IF drift THEN alerts \cup {<<stockPosting[x].cached, MovementSum>>} ELSE alerts
           /\ falseAlarm' = (falseAlarm \/ (drift /\ stockPosting[x].moved))
    /\ stockPosting' = [stockPosting EXCEPT ![x] = NotPosting]
    /\ UNCHANGED <<catalogue, movements, level, cogs, levelDrifted, uncommitted>>

StockLedgerNext ==
    \/ CreateWarehouse
    \/ \E negative \in BOOLEAN : CreateItem(negative)
    \/ \E active, negative \in BOOLEAN : UpdateItem(active, negative)
    \/ \E x \in StockTxns, m \in Movements, delta \in (-MaxDelta..MaxDelta) \ {0}, key \in MoveKeys \cup {Keyless} :
           \E cost \in IF delta > 0 THEN UnitCosts ELSE {0} : PostMovementRead(x, m, delta, cost, key)
    \/ \E x \in StockTxns, journaled \in BOOLEAN :
           PostMovementWrite(x, journaled) \/ PostMovementFails(x, journaled)
    \/ \E x \in StockTxns : ReconcileRead(x) \/ ReconcileWrite(x)

-----------------------------------------------------------------------------
(* Properties *)

\* The cached quantity is the sum of the movements, a key moves stock once, and
\* an alert reports a real difference, unless two movements overlapped (and the
\* second wrote over the first) or one fell between the two reads of a reconcile.
LevelMatchesMovements ==
    /\ ~levelDrifted => level.qty = MovementSum
    /\ \A r, s \in movements : r # s => r.key = Keyless \/ r.key # s.key
    /\ alerts # {} => levelDrifted \/ falseAlarm

\* Stock that may not go negative stays at or above zero and is valued between
\* the lowest and the highest cost it was bought at, rounding and lost updates
\* included.  Once negative stock is allowed neither holds.
StockIsValuedAtCost ==
    ~backordered => /\ level.qty >= 0
                    /\ level.qty > 0 => level.avg \in Min(UnitCosts)..Max(UnitCosts)

\* A cost of goods sold in the ledger has its movement, unless the transaction
\* was lost after the finance service had answered.
CogsHasMovement ==
    cogs \ uncommitted \subseteq {m.id : m \in movements}

=============================================================================
