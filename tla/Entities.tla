------------------------------ MODULE Entities ------------------------------
(***************************************************************************)
(* Finance entities (the default one, which every document falls back to), *)
(* intercompany transactions and their elimination in a consolidation      *)
(* (finance service).                                                      *)
(***************************************************************************)
EXTENDS Naturals, FiniteSets, FiniteSetsExt

CONSTANTS
    Entities,        \* finance entities
    DefaultEntity,   \* the one that ensure_default_entity inserts, with code DEFAULT
    MaxIntercompany  \* bound on the amount that one entity owes another

ASSUME EntitiesAssumption ==
    DefaultEntity \in Entities /\ IsFiniteSet(Entities) /\ MaxIntercompany \in Nat

VARIABLES
    entity,        \* finance_entity: whether it exists and is_default
    intercompany,  \* finance_intercompany_txn, summed per pair of entities
    entityAccess,        \* finance_entity_access of one user
    undefaulted    \* history: update_entity took the default away

entitiesVars == <<entity, intercompany, entityAccess, undefaulted>>

EntitiesTypeOK ==
    /\ entity \in [Entities -> {"none", "plain", "default"}]
    /\ intercompany \in [Entities \X Entities -> 0..MaxIntercompany]
    /\ entityAccess \subseteq Entities
    /\ undefaulted \in BOOLEAN

EntitiesInit ==
    /\ entity = [n \in Entities |-> "none"]
    /\ intercompany = [p \in Entities \X Entities |-> 0]
    /\ entityAccess = {}
    /\ undefaulted = FALSE

\* ensure_default_entity, on the first request that needs one.  The code DEFAULT
\* is unique: the INSERT fails when an entity that is no longer the default has it.
EnsureDefaultEntity ==
    /\ \A n \in Entities : entity[n] # "default"
    /\ entity[DefaultEntity] = "none"
    /\ entity' = [entity EXCEPT ![DefaultEntity] = "default"]
    /\ UNCHANGED <<intercompany, entityAccess, undefaulted>>

\* create_entity and update_entity: a new default replaces the old one.
MakeDefault(n) == [m \in Entities |-> IF m = n THEN "default"
                                      ELSE IF entity[m] = "default" THEN "plain" ELSE entity[m]]

CreateEntity(n, isDefault) ==
    /\ n # DefaultEntity /\ entity[n] = "none"
    /\ entity' = IF isDefault THEN MakeDefault(n) ELSE [entity EXCEPT ![n] = "plain"]
    /\ undefaulted' = (undefaulted /\ ~isDefault)
    /\ UNCHANGED <<intercompany, entityAccess>>

UpdateEntity(n, isDefault) ==
    /\ entity[n] # "none"
    /\ entity' = IF isDefault THEN MakeDefault(n) ELSE [entity EXCEPT ![n] = "plain"]
    /\ undefaulted' = (~isDefault /\ (undefaulted \/ entity[n] = "default"))
    /\ UNCHANGED <<intercompany, entityAccess>>

\* create_intercompany posts both entities' entries in one transaction.
CreateIntercompany(m, n, a) ==
    /\ m # n /\ entity[m] # "none" /\ entity[n] # "none"
    /\ intercompany[<<m, n>>] + a <= MaxIntercompany
    /\ intercompany' = [intercompany EXCEPT ![<<m, n>>] = @ + a]
    /\ UNCHANGED <<entity, entityAccess, undefaulted>>

GrantEntityAccess(n) ==
    /\ entity[n] # "none"
    /\ entityAccess' = entityAccess \cup {n}
    /\ UNCHANGED <<entity, intercompany, undefaulted>>

\* run_consolidation: what a set of entities holds on the intercompany accounts,
\* and what the elimination leaves of it.
Receivable(S) == SumFunctionOnSet(intercompany, {p \in Entities \X Entities : p[2] \in S})
Payable(S) == SumFunctionOnSet(intercompany, {p \in Entities \X Entities : p[1] \in S})
Eliminated(S) == IF Receivable(S) <= Payable(S) THEN Receivable(S) ELSE Payable(S)
Consolidates(S) == Receivable(S) - Eliminated(S) = 0 /\ Payable(S) - Eliminated(S) = 0

EntitiesNext ==
    \/ EnsureDefaultEntity
    \/ \E n \in Entities, isDefault \in BOOLEAN : CreateEntity(n, isDefault)
    \/ \E n \in Entities, isDefault \in BOOLEAN : UpdateEntity(n, isDefault)
    \/ \E m, n \in Entities, a \in 1..MaxIntercompany : CreateIntercompany(m, n, a)
    \/ \E n \in Entities : GrantEntityAccess(n)

-----------------------------------------------------------------------------
(* Properties *)

\* A document that names no entity finds one: there is a default, or the one
\* that ensure_default_entity would insert does not exist yet, unless an
\* update_entity took the default away.
DefaultEntityResolves ==
    undefaulted \/ (\E n \in Entities : entity[n] = "default") \/ entity[DefaultEntity] = "none"

\* The consolidation of all the entities nets the intercompany accounts to zero,
\* and so does that of any set that nobody outside trades with.
EliminationsNet ==
    \A S \in SUBSET Entities :
        (\A p \in Entities \X Entities : intercompany[p] > 0 => (p[1] \in S) = (p[2] \in S))
            => Consolidates(S)

=============================================================================
