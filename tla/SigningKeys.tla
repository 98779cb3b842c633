----------------------------- MODULE SigningKeys -----------------------------
(***************************************************************************)
(* The HS256 keys that sign access tokens.  Core mints with the active key *)
(* of its in-memory ring; rotate_jwks switches that ring first and stores  *)
(* the key afterwards.  The gateway fetches core's JWKS document at most   *)
(* once a minute; every other service reads the jwks_signing_key table     *)
(* once, when it starts.  Several core replicas may run.                   *)
(***************************************************************************)
EXTENDS Naturals, FiniteSets

CONSTANTS
    Replicas,      \* core processes
    KeyReaders,    \* the services that verify tokens
    NewKids,       \* kids rotate_jwks may create
    BootstrapKid   \* the kid of AUTH_JWT_SECRET, which every process is given

ASSUME SigningKeysAssumption == BootstrapKid \notin NewKids /\ "gateway" \notin KeyReaders

KnownKids == {BootstrapKid} \cup NewKids

VARIABLES
    keyTable,   \* jwks_signing_key: kid -> "none", "active" or "inactive"
    coreRings,  \* each replica's ring: the kids it holds, and the one it mints with
    storing,    \* rotations between the ring and the INSERT: <<replica, kid>>
    reader,     \* the service observed (services share nothing but the table)
    keyRings,   \* kids held by the gateway and by that service
    signed,     \* kids of the unexpired tokens
    unstored    \* kids whose INSERT failed or whose replica stopped before it (history)

signingKeysVars == <<keyTable, coreRings, storing, reader, keyRings, signed, unstored>>

SigningKeysTypeOK ==
    /\ keyTable \in [KnownKids -> {"none", "active", "inactive"}]
    /\ coreRings \in [Replicas -> [kids : SUBSET KnownKids, active : KnownKids]]
    /\ storing \subseteq Replicas \X KnownKids
    /\ reader \in KeyReaders
    /\ keyRings \in [{reader, "gateway"} -> SUBSET KnownKids]
    /\ signed \subseteq KnownKids
    /\ unstored \subseteq NewKids

SigningKeysInit ==
    /\ keyTable = [k \in KnownKids |-> IF k = BootstrapKid THEN "active" ELSE "none"]
    /\ coreRings = [c \in Replicas |-> [kids |-> {BootstrapKid}, active |-> BootstrapKid]]
    /\ storing = {}
    /\ reader \in KeyReaders
    /\ keyRings = [s \in {reader, "gateway"} |-> {BootstrapKid}]
    /\ signed = {}
    /\ unstored = {}

StoredKids == {k \in KnownKids : keyTable[k] # "none"}

(* KeyRing::upsert of an active key *)
Upsert(ring, k) == [kids |-> ring.kids \cup {k}, active |-> k]

MintAccessToken(c) ==
    /\ signed' = signed \cup {coreRings[c].active}
    /\ UNCHANGED <<keyTable, coreRings, storing, reader, keyRings, unstored>>

TokensExpire(k) ==
    /\ signed' = signed \ {k}
    /\ UNCHANGED <<keyTable, coreRings, storing, reader, keyRings, unstored>>

RotateJwks(c, k) ==
    /\ keyTable[k] = "none"
    /\ \A d \in Replicas : k \notin coreRings[d].kids
    /\ k \notin signed \cup unstored
    /\ coreRings' = [coreRings EXCEPT ![c] = Upsert(@, k)]
    /\ storing' = storing \cup {<<c, k>>}
    /\ UNCHANGED <<keyTable, reader, keyRings, signed, unstored>>

(* The UPDATE's error is ignored; the INSERT's ends the request. *)
StoreKey(c, k, updated, inserted) ==
    /\ <<c, k>> \in storing
    /\ storing' = storing \ {<<c, k>>}
    /\ keyTable' = [o \in KnownKids |->
                      IF o = k THEN (IF inserted THEN "active" ELSE "none")
                      ELSE IF updated /\ keyTable[o] = "active" THEN "inactive" ELSE keyTable[o]]
    /\ unstored' = IF inserted THEN unstored ELSE unstored \cup {k}
    /\ UNCHANGED <<coreRings, reader, keyRings, signed>>

(* build_keyring and ensure_bootstrap_key: the bootstrap row is made       *)
(* active again, so that the table may name several active keys; the last  *)
(* one loaded is the one the replica mints with.                           *)
RestartCore(c, k) ==
    /\ keyTable' = [keyTable EXCEPT ![BootstrapKid] = "active"]
    /\ keyTable'[k] = "active"
    /\ coreRings' = [coreRings EXCEPT ![c] = [kids |-> StoredKids, active |-> k]]
    /\ storing' = {x \in storing : x[1] # c}
    /\ unstored' = unstored \cup {x[2] : x \in storing \ storing'}
    /\ UNCHANGED <<reader, keyRings, signed>>

(* build_keyring and load_rotated_keys.  Where the error is ignored, the   *)
(* service runs with the bootstrap key alone.                              *)
Start(s, kids) ==
    /\ reader = s
    /\ keyRings' = [keyRings EXCEPT ![s] = {BootstrapKid} \cup kids]
    /\ UNCHANGED <<keyTable, coreRings, storing, reader, signed, unstored>>

CrmLoadRotatedKeys == Start("crm", StoredKids)
FinanceLoadRotatedKeys == Start("finance", StoredKids)
HrLoadRotatedKeys == Start("hr", StoredKids)
ProjectLoadRotatedKeys == Start("project", StoredKids)
InventoryLoadRotatedKeys == Start("inventory", StoredKids)
WorkflowLoadRotatedKeys == Start("workflow", StoredKids)
CustomLoadRotatedKeys == Start("custom", StoredKids)
AnalyticsLoadRotatedKeys == \E kids \in {StoredKids, {}} : Start("analytics", kids)
NotificationLoadRotatedKeys == \E kids \in {StoredKids, {}} : Start("notification", kids)
FileLoadRotatedKeys == \E kids \in {StoredKids, {}} : Start("file", kids)
SearchLoadRotatedKeys == \E kids \in {StoredKids, {}} : Start("search", kids)
AiLoadRotatedKeys == \E kids \in {StoredKids, {}} : Start("ai", kids)
(* The integration service has the function and never calls it. *)
IntegrationBuildKeyring == Start("integration", {})

(* A fetch adds every key the answering replica holds, and drops none. *)
RefreshJwks(c) ==
    /\ keyRings' = [keyRings EXCEPT !["gateway"] = @ \cup coreRings[c].kids]
    /\ UNCHANGED <<keyTable, coreRings, storing, reader, signed, unstored>>

Lenient == {"analytics", "notification", "file", "search", "ai"}

SigningKeysNext ==
    \/ \E c \in Replicas : MintAccessToken(c) \/ RefreshJwks(c)
    \/ \E k \in signed : TokensExpire(k)
    \/ \E c \in Replicas, k \in NewKids : RotateJwks(c, k)
    \/ \E c \in Replicas, k \in NewKids, u, i \in BOOLEAN : StoreKey(c, k, u, i)
    \/ \E c \in Replicas, k \in KnownKids : RestartCore(c, k)
    \/ CrmLoadRotatedKeys
    \/ FinanceLoadRotatedKeys
    \/ HrLoadRotatedKeys
    \/ ProjectLoadRotatedKeys
    \/ InventoryLoadRotatedKeys
    \/ WorkflowLoadRotatedKeys
    \/ CustomLoadRotatedKeys
    \/ AnalyticsLoadRotatedKeys
    \/ NotificationLoadRotatedKeys
    \/ FileLoadRotatedKeys
    \/ SearchLoadRotatedKeys
    \/ AiLoadRotatedKeys
    \/ IntegrationBuildKeyring

-----------------------------------------------------------------------------
(* Restarting costs no token: a process that verifies a token keeps doing  *)
(* so when it restarts or refreshes, unless the signing key never reached  *)
(* the table or the service ignored the error of reading it.               *)
RestartKeepsVerifying ==
    [][/\ \A c \in Replicas : coreRings[c].kids \cap signed \subseteq coreRings'[c].kids \cup unstored'
       /\ \A s \in DOMAIN keyRings :
              \/ keyRings[s] \cap signed \subseteq keyRings'[s] \cup unstored'
              \/ keyRings'[s] = {BootstrapKid} /\ s \in Lenient]_signingKeysVars

(* Every key that signs is in the table, on its way there, or known lost.  *)
SigningKeysAreStored ==
    \A k \in signed : k \in StoredKids \cup unstored \/ \E c \in Replicas : <<c, k>> \in storing
=============================================================================
