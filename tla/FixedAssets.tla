----------------------------- MODULE FixedAssets -----------------------------
(***************************************************************************)
(* Fixed assets of the inventory service: assignment, return and           *)
(* straight-line depreciation.  The handlers read the asset without a lock *)
(* and write it later.  depreciate_asset posts its journal under the id of *)
(* the asset, and the finance service answers a source it knows with the   *)
(* entry it has.                                                           *)
(***************************************************************************)
EXTENDS Integers, FiniteSets, FiniteSetsExt, Functions

CONSTANTS
    Assignments,   \* inventory_asset_assignment ids
    AssetTxns,     \* concurrent requests
    AcquisitionCost,
    Salvages,      \* salvage_minor values
    UsefulLives,   \* useful_life_months values
    LastMonthDay   \* bound: as_of dates are months 0..LastMonthDay after acquisition

ASSUME FixedAssetsAssumption ==
    /\ AcquisitionCost \in Nat /\ LastMonthDay \in Nat
    /\ Salvages \subseteq Nat /\ UsefulLives \subseteq Nat \ {0} /\ IsFiniteSet(Assignments)

VARIABLES
    asset,         \* inventory_asset: status, salvage, life, accumulated, last
    assignment,    \* inventory_asset_assignment: "none", "open" or "returned"
    assignedOrder, \* assigned_at: the order of the assignments
    depreciation,  \* finance: amount of the entry of the asset, 0 without one
    assetWork,     \* what each request has read
    raced          \* history: the asset was written from an old read

fixedAssetsVars == <<asset, assignment, assignedOrder, depreciation, assetWork, raced>>

NotWorking == [op |-> "idle"]
Open == {a \in Assignments : assignment[a] = "open"}

FixedAssetsTypeOK ==
    /\ asset \in [status : {"none", "in_stock", "assigned"}, salvage : Salvages \cup {0},
                  life : UsefulLives \cup {1}, accumulated : Nat, last : 0..LastMonthDay]
    /\ assignment \in [Assignments -> {"none", "open", "returned"}]
    /\ assignedOrder \in [Assignments -> 0..Cardinality(Assignments)]
    /\ depreciation \in Nat
    /\ DOMAIN assetWork = AssetTxns
    /\ raced \in BOOLEAN

FixedAssetsInit ==
    /\ asset = [status |-> "none", salvage |-> 0, life |-> 1, accumulated |-> 0, last |-> 0]
    /\ assignment = [a \in Assignments |-> "none"]
    /\ assignedOrder = [a \in Assignments |-> 0]
    /\ depreciation = 0
    /\ assetWork = [x \in AssetTxns |-> NotWorking]
    /\ raced = FALSE

Work(x, what) ==
    /\ assetWork[x] = NotWorking
    /\ assetWork' = [assetWork EXCEPT ![x] = what]

Worked(x) == assetWork' = [assetWork EXCEPT ![x] = NotWorking]

CreateAsset(salvage, life) ==
    /\ asset.status = "none"
    /\ asset' = [asset EXCEPT !.status = "in_stock", !.salvage = salvage, !.life = life]
    /\ UNCHANGED <<assignment, assignedOrder, depreciation, assetWork, raced>>

\* update_asset writes only the fields of the request.
UpdateAsset(salvage, life) ==
    /\ asset.status # "none"
    /\ asset' = [asset EXCEPT !.salvage = salvage, !.life = life]
    /\ UNCHANGED <<assignment, assignedOrder, depreciation, assetWork, raced>>

AssignAssetRead(x) ==
    /\ asset.status = "in_stock"
    /\ Work(x, [op |-> "assign", seen |-> asset.status])
    /\ UNCHANGED <<asset, assignment, assignedOrder, depreciation, raced>>

AssignAssetWrite(x, a) ==
    /\ assetWork[x].op = "assign"
    /\ assignment[a] = "none"
    /\ assignment' = [assignment EXCEPT ![a] = "open"]
    /\ assignedOrder' = [assignedOrder EXCEPT ![a] = 1 + Max(Range(assignedOrder))]
    /\ asset' = [asset EXCEPT !.status = "assigned"]
    /\ raced' = (raced \/ asset.status # assetWork[x].seen)
    /\ Worked(x)
    /\ UNCHANGED depreciation

\* return_asset: the open assignment that was made last.
ReturnAssetRead(x, a) ==
    /\ asset.status = "assigned"
    /\ a \in Open /\ \A b \in Open : assignedOrder[b] <= assignedOrder[a]
    /\ Work(x, [op |-> "return", assignment |-> a, seen |-> <<asset.status, assignment[a]>>])
    /\ UNCHANGED <<asset, assignment, assignedOrder, depreciation, raced>>

ReturnAssetWrite(x) ==
    /\ assetWork[x].op = "return"
    /\ assignment' = [assignment EXCEPT ![assetWork[x].assignment] = "returned"]
    /\ asset' = [asset EXCEPT !.status = "in_stock"]
    /\ raced' = (raced \/ <<asset.status, assignment[assetWork[x].assignment]>> # assetWork[x].seen)
    /\ Worked(x)
    /\ UNCHANGED <<assignedOrder, depreciation>>

-----------------------------------------------------------------------------
(* Depreciation *)

AtLeastZero(n) == IF n < 0 THEN 0 ELSE n
RoundedShare(n, parts) == (2 * n + parts) \div (2 * parts)

\* straight_line_depreciation_minor
StraightLine(row, months) ==
    LET base == AtLeastZero(AcquisitionCost - row.salvage)
        raw == months * RoundedShare(base, row.life)
        remaining == AtLeastZero(base - row.accumulated)
    IN  IF months <= 0 THEN 0 ELSE IF raw < remaining THEN raw ELSE remaining

DepreciateRead(x, asOf) ==
    LET amount == StraightLine(asset, asOf - asset.last)
    IN  /\ asset.status # "none"
        /\ amount > 0
        /\ Work(x, [op |-> "depreciate", amount |-> amount, asOf |-> asOf, seen |-> asset.accumulated])
        /\ UNCHANGED <<asset, assignment, assignedOrder, depreciation, raced>>

\* The update and the journal.  An entry of the same source stands for the new one.
DepreciateWrite(x) ==
    LET w == assetWork[x]
    IN  /\ w.op = "depreciate"
        /\ asset' = [asset EXCEPT !.accumulated = w.seen + w.amount, !.last = w.asOf]
        /\ depreciation' = IF depreciation > 0 THEN depreciation ELSE w.amount
        /\ raced' = (raced \/ asset.accumulated # w.seen)
        /\ Worked(x)
        /\ UNCHANGED <<assignment, assignedOrder>>

\* Refused, or lost after the finance service has answered.
DepreciateFails(x, journaled) ==
    /\ assetWork[x].op = "depreciate"
    /\ depreciation' = IF journaled /\ depreciation = 0 THEN assetWork[x].amount ELSE depreciation
    /\ Worked(x)
    /\ UNCHANGED <<asset, assignment, assignedOrder, raced>>

FixedAssetsNext ==
    \/ \E salvage \in Salvages, life \in UsefulLives : CreateAsset(salvage, life) \/ UpdateAsset(salvage, life)
    \/ \E x \in AssetTxns : AssignAssetRead(x) \/ ReturnAssetWrite(x) \/ DepreciateWrite(x)
    \/ \E x \in AssetTxns, a \in Assignments : AssignAssetWrite(x, a) \/ ReturnAssetRead(x, a)
    \/ \E x \in AssetTxns, asOf \in 0..LastMonthDay : DepreciateRead(x, asOf)
    \/ \E x \in AssetTxns, journaled \in BOOLEAN : DepreciateFails(x, journaled)

-----------------------------------------------------------------------------
(* Properties *)

\* An asset is assigned exactly when one assignment of it is open, unless two
\* requests wrote it from the same read; and however salvage and life are
\* changed between runs it is never depreciated below zero, nor without an entry
\* in the ledger.
AssetHasOneHolder ==
    /\ ~raced => Cardinality(Open) = IF asset.status = "assigned" THEN 1 ELSE 0
    /\ asset.accumulated <= AcquisitionCost
    /\ asset.accumulated > 0 => depreciation > 0

=============================================================================
