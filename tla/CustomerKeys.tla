---------------------------- MODULE CustomerKeys ----------------------------
(***************************************************************************)
(* Customer-managed keys of core: one organization's data key (DEK), the   *)
(* key of the KMS that wraps it, and provision, rotate, revoke.  The KMS   *)
(* is MockKms: a map in the memory of each process of core, empty when the *)
(* process starts.  Each handler calls the one of its own process, which   *)
(* no transaction covers, between its reads and its commit.  A DEK is      *)
(* named by the key it was created under.                                  *)
(***************************************************************************)
EXTENDS Naturals, FiniteSets

CONSTANTS
    KmsKeys,       \* identities the KMS can give out
    KeyTxns,       \* requests in progress
    CoreProcesses, \* the processes of core, each with a KMS of its own
    NoKmsKey, NoProcess

ASSUME CustomerKeysAssumption == NoKmsKey \notin KmsKeys /\ NoProcess \notin CoreProcesses

VARIABLES
    kmsKeys,       \* identities given out so far
    kmsHolder,     \* the process whose KMS has each key
    kmsRevoked,    \* keys revoked in the KMS: wrap and unwrap fail
    orgCmk,        \* org_cmk.status of each key, "none" without a row
    dataKey,       \* org_data_key: the wrapping key and the DEK inside
    keyTxn,        \* what each request has read
    sealed,        \* history: DEKs that data was encrypted under
    shredded,      \* history: keys revoked in the KMS while they wrapped the data key
    lostKeys       \* history: keys that a restart took while they wrapped it

customerKeysVars == <<kmsKeys, kmsHolder, kmsRevoked, orgCmk, dataKey, keyTxn, sealed, shredded, lostKeys>>
keyRows == <<orgCmk, dataKey, sealed, shredded, lostKeys>>
kmsState == <<kmsKeys, kmsHolder, kmsRevoked>>

NoDataKey == [key |-> NoKmsKey, dek |-> NoKmsKey]
NoKeyTxn == [op |-> "idle"]

CustomerKeysTypeOK ==
    /\ kmsKeys \subseteq KmsKeys /\ kmsRevoked \subseteq kmsKeys
    /\ kmsHolder \in [KmsKeys -> CoreProcesses \cup {NoProcess}]
    /\ orgCmk \in [KmsKeys -> {"none", "active", "rotating", "revoked"}]
    /\ dataKey \in [key : KmsKeys, dek : KmsKeys] \cup {NoDataKey}
    /\ \A k \in KmsKeys : orgCmk[k] # "none" => k \in kmsKeys
    /\ sealed \subseteq KmsKeys /\ shredded \subseteq kmsRevoked /\ lostKeys \subseteq kmsKeys
    /\ DOMAIN keyTxn = KeyTxns

CustomerKeysInit ==
    /\ kmsKeys = {} /\ kmsRevoked = {} /\ kmsHolder = [k \in KmsKeys |-> NoProcess]
    /\ orgCmk = [k \in KmsKeys |-> "none"]
    /\ dataKey = NoDataKey
    /\ keyTxn = [x \in KeyTxns |-> NoKeyTxn]
    /\ sealed = {} /\ shredded = {} /\ lostKeys = {}

KeysIn(status) == {k \in KmsKeys : orgCmk[k] = status}
KeyTxnIs(x, op) == keyTxn[x].op = op
KeyTxnBecomes(x, what) == keyTxn' = [keyTxn EXCEPT ![x] = what]

\* Mutant: the key is used and never created.
CreateKmsKeyNever(p, k) == k \in KmsKeys \ kmsKeys /\ UNCHANGED <<kmsKeys, kmsHolder>>

\* MockKms::create_key: a key with an identity never used before, in the
\* process's own map.
CreateKmsKey(p, k) ==
    /\ k \in KmsKeys \ kmsKeys
    /\ kmsKeys' = kmsKeys \cup {k}
    /\ kmsHolder' = [kmsHolder EXCEPT ![k] = p]

\* load_wrapped_dek joins the data key with its key, which must be active.
DataKeyLoads == dataKey # NoDataKey /\ orgCmk[dataKey.key] = "active"

\* MockKms::unwrap, and wrap: a key of the process's own map that is not revoked.
Unwraps(p, wrapped) == kmsHolder[wrapped.key] = p /\ wrapped.key \notin kmsRevoked
Wrapped(k, dek) == [key |-> k, dek |-> dek]

-----------------------------------------------------------------------------

\* provision_cmk looks for an active key, creates one in the KMS and wraps a
\* fresh DEK.
ProvisionCmkRead(x, p, k) ==
    /\ KeyTxnIs(x, "idle")
    /\ KeysIn("active") = {}
    /\ CreateKmsKey(p, k)
    /\ KeyTxnBecomes(x, [op |-> "provision", at |-> p, wrapped |-> Wrapped(k, k)])
    /\ UNCHANGED <<kmsRevoked, keyRows>>

\* Mutant: ON CONFLICT (org_id) DO UPDATE, a second provision replaces the DEK.
ProvisionCmkWriteUpserts(x) ==
    /\ KeyTxnIs(x, "provision")
    /\ dataKey' = keyTxn[x].wrapped
    /\ orgCmk' = [orgCmk EXCEPT ![keyTxn[x].wrapped.key] = "active"]
    /\ KeyTxnBecomes(x, NoKeyTxn)
    /\ UNCHANGED <<kmsState, sealed, shredded, lostKeys>>

\* org_data_key is UNIQUE (org_id): where there is a data key already the
\* transaction fails, and the new key stays in the KMS without a row.
ProvisionCmkWrite(x) ==
    /\ KeyTxnIs(x, "provision")
    /\ IF dataKey = NoDataKey
       THEN /\ dataKey' = keyTxn[x].wrapped
            /\ orgCmk' = [orgCmk EXCEPT ![keyTxn[x].wrapped.key] = "active"]
       ELSE UNCHANGED <<dataKey, orgCmk>>
    /\ KeyTxnBecomes(x, NoKeyTxn)
    /\ UNCHANGED <<kmsState, sealed, shredded, lostKeys>>

RotateCmkLoad(x, p) ==
    /\ KeyTxnIs(x, "idle")
    /\ DataKeyLoads
    /\ KeyTxnBecomes(x, [op |-> "loaded", at |-> p, wrapped |-> dataKey])
    /\ UNCHANGED <<kmsState, keyRows>>

\* rotate_org_key creates the new key first, then re-wraps the DEK under it; in
\* a process whose KMS does not have the old key the rotation fails there.
RotateOrgKey(x, k) ==
    LET old == keyTxn[x].wrapped
        p == keyTxn[x].at
    IN  /\ KeyTxnIs(x, "loaded")
        /\ CreateKmsKey(p, k)
        /\ KeyTxnBecomes(x, IF Unwraps(p, old) THEN [op |-> "rewrapped", at |-> p, wrapped |-> Wrapped(k, old.dek)]
                                               ELSE NoKeyTxn)
        /\ UNCHANGED <<kmsRevoked, keyRows>>

\* The first UPDATE of the transaction sees the keys active when it starts; it
\* may wait for another rotation's lock and does not see the key that inserts.
RotateCmkSnapshot(x) ==
    /\ KeyTxnIs(x, "rewrapped")
    /\ KeyTxnBecomes(x, [op |-> "rotate", at |-> keyTxn[x].at, wrapped |-> keyTxn[x].wrapped, seen |-> KeysIn("active")])
    /\ UNCHANGED <<kmsState, keyRows>>

RotateCmkWrite(x) ==
    LET new == keyTxn[x].wrapped
    IN  /\ KeyTxnIs(x, "rotate")
        /\ orgCmk' = [k \in KmsKeys |->
              CASE k = new.key -> "active"
                [] k \in keyTxn[x].seen /\ orgCmk[k] = "active" -> "rotating"
                [] OTHER -> orgCmk[k]]
        /\ dataKey' = new
        /\ KeyTxnBecomes(x, NoKeyTxn)
        /\ UNCHANGED <<kmsState, sealed, shredded, lostKeys>>

\* The key named in the request, else a rotating one, else an active one (the
\* newest; any of them here).
RevokeTargets(named) ==
    CASE named -> {k \in KmsKeys : orgCmk[k] # "none"}
      [] ~named /\ KeysIn("rotating") # {} -> KeysIn("rotating")
      [] OTHER -> KeysIn("active")

RevokeCmkRead(x, p, named) ==
    /\ KeyTxnIs(x, "idle")
    /\ \E k \in RevokeTargets(named) :
          KeyTxnBecomes(x, [op |-> "revoke", at |-> p, key |-> k, old |-> ~named /\ orgCmk[k] = "rotating"])
    /\ UNCHANGED <<kmsState, keyRows>>

\* MockKms::revoke of a key that the process's map does not have fails, and so
\* does the request.
RevokeInKms(x) ==
    LET k == keyTxn[x].key
    IN  /\ KeyTxnIs(x, "revoke")
        /\ kmsHolder[k] = keyTxn[x].at
        /\ kmsRevoked' = kmsRevoked \cup {k}
        /\ shredded' = IF dataKey.key = k THEN shredded \cup {k} ELSE shredded
        /\ KeyTxnBecomes(x, [op |-> "revoked", at |-> keyTxn[x].at, key |-> k])
        /\ UNCHANGED <<kmsKeys, kmsHolder, orgCmk, dataKey, sealed, lostKeys>>

RevokeCmkWrite(x) ==
    /\ KeyTxnIs(x, "revoked")
    /\ orgCmk' = [orgCmk EXCEPT ![keyTxn[x].key] = "revoked"]
    /\ KeyTxnBecomes(x, NoKeyTxn)
    /\ UNCHANGED <<kmsState, dataKey, sealed, shredded, lostKeys>>

\* org_data_key and OrgDataKey::encrypt: data is sealed under the current DEK.
EncryptWithDataKey(p) ==
    /\ DataKeyLoads /\ Unwraps(p, dataKey)
    /\ sealed' = sealed \cup {dataKey.dek}
    /\ UNCHANGED <<kmsState, orgCmk, dataKey, keyTxn, shredded, lostKeys>>

\* A request that fails, at the KMS or at its commit: what the KMS did stays done.
KeyRequestFails(x) ==
    /\ ~KeyTxnIs(x, "idle")
    /\ KeyTxnBecomes(x, NoKeyTxn)
    /\ UNCHANGED <<kmsState, keyRows>>

\* A process restarts: its requests die, and AppState::new makes an empty KMS.
CoreRestarts(p) ==
    /\ kmsHolder' = [k \in KmsKeys |-> IF kmsHolder[k] = p THEN NoProcess ELSE kmsHolder[k]]
    /\ keyTxn' = [x \in KeyTxns |-> IF ~KeyTxnIs(x, "idle") /\ keyTxn[x].at = p THEN NoKeyTxn ELSE keyTxn[x]]
    /\ lostKeys' = IF dataKey # NoDataKey /\ kmsHolder[dataKey.key] = p THEN lostKeys \cup {dataKey.key} ELSE lostKeys
    /\ UNCHANGED <<kmsKeys, kmsRevoked, orgCmk, dataKey, sealed, shredded>>

CustomerKeysNext ==
    \/ \E p \in CoreProcesses : EncryptWithDataKey(p) \/ CoreRestarts(p)
    \/ \E x \in KeyTxns, p \in CoreProcesses, k \in KmsKeys : ProvisionCmkRead(x, p, k)
    \/ \E x \in KeyTxns, k \in KmsKeys : RotateOrgKey(x, k)
    \/ \E x \in KeyTxns, p \in CoreProcesses, named \in BOOLEAN : RevokeCmkRead(x, p, named)
    \/ \E x \in KeyTxns, p \in CoreProcesses : RotateCmkLoad(x, p)
    \/ \E x \in KeyTxns :
          \/ ProvisionCmkWrite(x) \/ RotateCmkSnapshot(x) \/ RotateCmkWrite(x)
          \/ RevokeInKms(x) \/ RevokeCmkWrite(x) \/ KeyRequestFails(x)

CustomerKeysSpec == CustomerKeysInit /\ [][CustomerKeysNext]_customerKeysVars

-----------------------------------------------------------------------------

\* Rotations, revocations and failing requests in any order, in any process,
\* keep encrypted data readable: everything is sealed under the current DEK, a
\* key on its way out never wraps it, so that the default revocation of an old
\* key is harmless, and the wrapping key is alive in the KMS of some process.
\* The exceptions: it was itself revoked while it wrapped the DEK, or the
\* process that had it in memory has restarted since.
DataKeyOutlivesRotation ==
    /\ sealed \subseteq {dataKey.dek}
    /\ dataKey # NoDataKey => orgCmk[dataKey.key] # "rotating"
    /\ \A x \in KeyTxns : KeyTxnIs(x, "revoke") => ~(keyTxn[x].old /\ dataKey.key = keyTxn[x].key)
    /\ dataKey # NoDataKey =>
          \/ kmsHolder[dataKey.key] # NoProcess /\ dataKey.key \notin kmsRevoked
          \/ dataKey.key \in shredded \cup lostKeys
=============================================================================
