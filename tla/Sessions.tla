------------------------------ MODULE Sessions ------------------------------
(***************************************************************************)
(* Sessions and refresh tokens of one user (core, auth/sessions.rs): a     *)
(* login creates a session with its first refresh token, each refresh      *)
(* exchanges the presented token for a new one, a token presented twice    *)
(* revokes its whole family, switch-org moves a session to another         *)
(* membership of the user, and sessions are revoked by their user, by a    *)
(* password reset, and when their membership is suspended, revoked or      *)
(* deprovisioned.                                                          *)
(*                                                                         *)
(* Every operation is one READ COMMITTED transaction whose statements      *)
(* interleave with those of the others: a statement reads what is          *)
(* committed, a row that another transaction has locked is waited for and  *)
(* then read again, and the writes of a transaction are seen at its        *)
(* commit.  An UPDATE of several rows takes the rows of its snapshot one   *)
(* at a time.  A family is its session: family_id is drawn with the        *)
(* session and never shared.  An expired token is refused without a write, *)
(* as a revoked one is, and is not told apart.  The offboarding saga of    *)
(* the HR service, which writes these tables too, is not part of it.       *)
(***************************************************************************)
EXTENDS TLC

CONSTANTS
    SessionIds,  \* auth_session ids that logins draw
    Tokens,      \* refresh_token ids that logins and rotations draw
    Txns,        \* concurrent requests
    Orgs,        \* organizations, each with a membership row of the user
    NoSession,   \* a token that is not in the table
    NoToken,     \* a request that presents no refresh token
    NoOrg        \* a request that is about no membership

ASSUME SessionsAssumption ==
    /\ SessionIds \cap Tokens = {}
    /\ Orgs \cap (SessionIds \cup Tokens) = {}
    /\ NoSession \notin SessionIds
    /\ NoToken \notin Tokens
    /\ NoOrg \notin Orgs

VARIABLES
    member,     \* membership.status, by organization
    session,    \* auth_session: not there, live, or revoked_at set
    org_id,     \* auth_session.org_id
    family,     \* refresh_token.session_id
    rotated,    \* tokens with rotated_at set
    revoked,    \* tokens with revoked_at set
    pc,         \* the statement each request is at
    token,      \* the token it presented
    org,        \* the membership it is about
    held,       \* its row locks
    families,   \* sessions it still has to revoke
    current,    \* the session that revoke_family or switch_org is at
    rows,       \* rows of its UPDATE refresh_token that it has not reached
    kill,       \* tokens and sessions that it revokes at its commit
    status,     \* membership.status that it sets at its commit
    reused,     \* history: sessions whose refresh answered ReuseDetected
    late        \* history: sessions that came to a membership after its change
                \* away from active had begun

vars == <<member, session, org_id, family, rotated, revoked, pc, token, org,
          held, families, current, rows, kill, status, reused, late>>

database == <<member, session, org_id, family, rotated, revoked>>
history == <<reused, late>>

Rows == SessionIds \cup Tokens \cup Orgs

TypeOK ==
    /\ member \in [Orgs -> {"active", "suspended", "revoked"}]
    /\ session \in [SessionIds -> {"none", "live", "revoked"}]
    /\ org_id \in [SessionIds -> Orgs \cup {NoOrg}]
    /\ \A s \in SessionIds : session[s] = "none" <=> org_id[s] = NoOrg
    /\ family \in [Tokens -> SessionIds \cup {NoSession}]
    /\ rotated \subseteq Tokens
    /\ revoked \subseteq Tokens
    /\ pc \in [Txns -> {"idle", "login", "session", "membership", "issue",
                        "select", "family", "tokens", "scim", "sessions",
                        "switch", "commit"}]
    /\ token \in [Txns -> Tokens \cup {NoToken}]
    /\ org \in [Txns -> Orgs \cup {NoOrg}]
    /\ held \in [Txns -> SUBSET Rows]
    /\ families \in [Txns -> SUBSET SessionIds]
    /\ current \in [Txns -> SessionIds \cup {NoSession}]
    /\ rows \in [Txns -> SUBSET Tokens]
    /\ kill \in [Txns -> SUBSET (SessionIds \cup Tokens)]
    /\ status \in [Txns -> {"same", "suspended", "revoked"}]
    /\ reused \subseteq SessionIds
    /\ late \subseteq SessionIds

Init ==
    /\ member = [o \in Orgs |-> "active"]
    /\ session = [s \in SessionIds |-> "none"]
    /\ org_id = [s \in SessionIds |-> NoOrg]
    /\ family = [t \in Tokens |-> NoSession]
    /\ rotated = {}
    /\ revoked = {}
    /\ pc = [x \in Txns |-> "idle"]
    /\ token = [x \in Txns |-> NoToken]
    /\ org = [x \in Txns |-> NoOrg]
    /\ held = [x \in Txns |-> {}]
    /\ families = [x \in Txns |-> {}]
    /\ current = [x \in Txns |-> NoSession]
    /\ rows = [x \in Txns |-> {}]
    /\ kill = [x \in Txns |-> {}]
    /\ status = [x \in Txns |-> "same"]
    /\ reused = {}
    /\ late = {}

-----------------------------------------------------------------------------
(* Transactions *)

\* The row is not locked by another transaction.
Free(x, r) == \A y \in Txns \ {x} : r \notin held[y]

Goto(x, label) == pc' = [pc EXCEPT ![x] = label]

Lock(x, r) == held' = [held EXCEPT ![x] = @ \cup {r}]

\* The transaction ends: its locks are released, its local state is gone.
End(x) ==
    /\ pc' = [pc EXCEPT ![x] = "idle"]
    /\ token' = [token EXCEPT ![x] = NoToken]
    /\ org' = [org EXCEPT ![x] = NoOrg]
    /\ held' = [held EXCEPT ![x] = {}]
    /\ families' = [families EXCEPT ![x] = {}]
    /\ current' = [current EXCEPT ![x] = NoSession]
    /\ rows' = [rows EXCEPT ![x] = {}]
    /\ kill' = [kill EXCEPT ![x] = {}]
    /\ status' = [status EXCEPT ![x] = "same"]

\* An error, a deadlock that Postgres breaks, or a crash: rollback.
Abort(x) ==
    /\ pc[x] # "idle"
    /\ End(x)
    /\ UNCHANGED <<database, history>>

Live(s) == session[s] = "live"

FamilyOf(s) == {t \in Tokens : family[t] = s}

-----------------------------------------------------------------------------
(* Login: the membership is read first, the session is created later, by     *)
(* another transaction or after an MFA challenge that carries what was read. *)

LoginRead(x, o) ==
    /\ pc[x] = "idle"
    /\ member[o] = "active"
    /\ org' = [org EXCEPT ![x] = o]
    /\ Goto(x, "login")
    /\ UNCHANGED <<database, token, held, families, current, rows, kill, status,
                   history>>

\* The membership of o is not active, or a transaction is changing it.
Leaving(o) == member[o] # "active" \/ \E y \in Txns : org[y] = o /\ status[y] # "same"

\* Mutant: the challenge loses its membership_id and the nil id is used.
LoginCommitNil(x, s, t) ==
    /\ pc[x] = "login"
    /\ session[s] = "none"
    /\ family[t] = NoSession
    /\ session' = [session EXCEPT ![s] = "live"]
    /\ org_id' = [org_id EXCEPT ![s] = NoOrg]
    /\ family' = [family EXCEPT ![t] = s]
    /\ late' = IF Leaving(org[x]) THEN late \cup {s} ELSE late
    /\ End(x)
    /\ UNCHANGED <<member, rotated, revoked, reused>>

\* create_session_with_tokens and commit; nothing is read again.
LoginCommit(x, s, t) ==
    /\ pc[x] = "login"
    /\ session[s] = "none"
    /\ family[t] = NoSession
    /\ session' = [session EXCEPT ![s] = "live"]
    /\ org_id' = [org_id EXCEPT ![s] = org[x]]
    /\ family' = [family EXCEPT ![t] = s]
    /\ late' = IF Leaving(org[x]) THEN late \cup {s} ELSE late
    /\ End(x)
    /\ UNCHANGED <<member, rotated, revoked, reused>>

\* switch_org: the request is authenticated (extract.rs) and the membership of
\* the other organization is read ...
SwitchRead(x, s, o) ==
    /\ pc[x] = "idle"
    /\ session[s] = "live"
    /\ member[org_id[s]] = "active"
    /\ member[o] = "active"
    /\ org' = [org EXCEPT ![x] = o]
    /\ current' = [current EXCEPT ![x] = s]
    /\ Goto(x, "switch")
    /\ UNCHANGED <<database, token, held, families, rows, kill, status, history>>

\* ... and the session's row is moved by its id, whatever it is by then.
SwitchCommit(x) ==
    LET s == current[x] IN
    /\ pc[x] = "switch"
    /\ Free(x, s)
    /\ org_id' = [org_id EXCEPT ![s] = org[x]]
    /\ late' = IF Leaving(org[x]) THEN late \cup {s} ELSE late \ {s}
    /\ End(x)
    /\ UNCHANGED <<member, session, family, rotated, revoked, reused>>

-----------------------------------------------------------------------------
(* rotate_refresh *)

\* Mutant: the token is read without FOR UPDATE.
RotateTokenUnlocked(x, t) ==
    /\ pc[x] = "idle"
    /\ family[t] # NoSession
    /\ t \notin revoked
    /\ token' = [token EXCEPT ![x] = t]
    /\ IF t \in rotated
       THEN families' = [families EXCEPT ![x] = {family[t]}] /\ Goto(x, "family")
       ELSE families' = families /\ Goto(x, "session")
    /\ UNCHANGED <<database, org, held, current, rows, kill, status, history>>

\* SELECT ... FROM refresh_token ... FOR UPDATE; a rotated token is a reuse.
RotateToken(x, t) ==
    /\ pc[x] = "idle"
    /\ family[t] # NoSession
    /\ Free(x, t)
    /\ t \notin revoked
    /\ token' = [token EXCEPT ![x] = t]
    /\ Lock(x, t)
    /\ IF t \in rotated
       THEN families' = [families EXCEPT ![x] = {family[t]}] /\ Goto(x, "family")
       ELSE families' = families /\ Goto(x, "session")
    /\ UNCHANGED <<database, org, current, rows, kill, status, history>>

\* Mutant: the session is read without FOR UPDATE.
RotateSessionUnlocked(x) ==
    /\ pc[x] = "session"
    /\ IF Live(family[token[x]])
       THEN /\ Goto(x, "membership")
            /\ UNCHANGED <<token, org, held, families, current, rows, kill, status>>
       ELSE End(x)
    /\ UNCHANGED <<database, history>>

\* SELECT ... FROM auth_session ... FOR UPDATE; a revoked session is refused.
RotateSession(x) ==
    LET s == family[token[x]] IN
    /\ pc[x] = "session"
    /\ Free(x, s)
    /\ IF Live(s)
       THEN /\ Lock(x, s)
            /\ Goto(x, "membership")
            /\ UNCHANGED <<token, org, families, current, rows, kill, status>>
       ELSE End(x)
    /\ UNCHANGED <<database, history>>

\* The membership is read without a lock; the family of a member who is not
\* active is revoked.
RotateMembership(x) ==
    /\ pc[x] = "membership"
    /\ IF member[org_id[family[token[x]]]] = "active"
       THEN families' = families /\ Goto(x, "issue")
       ELSE families' = [families EXCEPT ![x] = {family[token[x]]}] /\ Goto(x, "family")
    /\ UNCHANGED <<database, token, org, held, current, rows, kill, status, history>>

\* The new token is inserted, the presented one marked, and both committed.
RotateCommit(x, t) ==
    /\ pc[x] = "issue"
    /\ family[t] = NoSession
    /\ family' = [family EXCEPT ![t] = family[token[x]]]
    /\ rotated' = rotated \cup {token[x]}
    /\ End(x)
    /\ UNCHANGED <<member, session, org_id, revoked, reused, late>>

-----------------------------------------------------------------------------
(* Revocation *)

\* revoke_session: of a device, and of logout.
RevokeSession(x, s) ==
    /\ pc[x] = "idle"
    /\ Live(s)
    /\ families' = [families EXCEPT ![x] = {s}]
    /\ Goto(x, "family")
    /\ UNCHANGED <<database, token, org, held, current, rows, kill, status, history>>

\* revoke_all_sessions: of the user, and of a password reset.
RevokeAllSessions(x) ==
    /\ pc[x] = "idle"
    /\ \E s \in SessionIds : Live(s)
    /\ families' = [families EXCEPT ![x] = {s \in SessionIds : Live(s)}]
    /\ Goto(x, "family")
    /\ UNCHANGED <<database, token, org, held, current, rows, kill, status, history>>

\* suspend_member, revoke_member and revoke_membership: the row is locked by
\* the UPDATE of its status; a suspension needs an active membership.
UpdateMembership(x, o, new) ==
    /\ pc[x] = "idle"
    /\ Free(x, o)
    /\ member[o] = "active" \/ (member[o] = "suspended" /\ new = "revoked")
    /\ org' = [org EXCEPT ![x] = o]
    /\ status' = [status EXCEPT ![x] = new]
    /\ Lock(x, o)
    /\ Goto(x, "select")
    /\ UNCHANGED <<database, token, families, current, rows, kill, history>>

\* The user's live sessions in the organization that the request is about.
SessionsOf(x) == {s \in SessionIds : Live(s) /\ org_id[s] = org[x]}

\* Mutant: fetch_optional, only one of the families.
RevokeOrgUserSessionsOne(x) ==
    LET live == SessionsOf(x) IN
    /\ pc[x] = "select"
    /\ families' = [families EXCEPT ![x] = IF live = {} THEN {} ELSE {CHOOSE s \in live : TRUE}]
    /\ Goto(x, IF live = {} THEN "commit" ELSE "family")
    /\ UNCHANGED <<database, token, org, held, current, rows, kill, status, history>>

\* revoke_org_user_sessions: the families to revoke.
RevokeOrgUserSessions(x) ==
    LET live == SessionsOf(x) IN
    /\ pc[x] = "select"
    /\ families' = [families EXCEPT ![x] = live]
    /\ Goto(x, IF live = {} THEN "commit" ELSE "family")
    /\ UNCHANGED <<database, token, org, held, current, rows, kill, status, history>>

\* revoke_family, UPDATE refresh_token: the rows of the statement's snapshot.
RevokeFamily(x, s) ==
    /\ pc[x] = "family"
    /\ s \in families[x]
    /\ current' = [current EXCEPT ![x] = s]
    /\ families' = [families EXCEPT ![x] = @ \ {s}]
    /\ rows' = [rows EXCEPT ![x] = FamilyOf(s) \ revoked]
    /\ Goto(x, "tokens")
    /\ UNCHANGED <<database, token, org, held, kill, status, history>>

\* One row of that UPDATE, when it is free; a row that was revoked meanwhile no
\* longer matches revoked_at IS NULL.
RevokeToken(x, t) ==
    /\ pc[x] = "tokens"
    /\ t \in rows[x]
    /\ Free(x, t)
    /\ rows' = [rows EXCEPT ![x] = @ \ {t}]
    /\ IF t \in revoked
       THEN UNCHANGED <<held, kill>>
       ELSE Lock(x, t) /\ kill' = [kill EXCEPT ![x] = @ \cup {t}]
    /\ UNCHANGED <<database, pc, token, org, families, current, status, history>>

\* Mutant: the session stays, only its tokens are revoked.
RevokeSessionRowNever(x) ==
    /\ pc[x] = "tokens"
    /\ rows[x] = {}
    /\ Goto(x, IF families[x] = {} THEN "commit" ELSE "family")
    /\ UNCHANGED <<database, token, org, held, families, current, rows, kill, status,
                   history>>

\* revoke_family, UPDATE auth_session.
RevokeSessionRow(x) ==
    LET s == current[x] IN
    /\ pc[x] = "tokens"
    /\ rows[x] = {}
    /\ Free(x, s)
    /\ IF Live(s)
       THEN Lock(x, s) /\ kill' = [kill EXCEPT ![x] = @ \cup {s}]
       ELSE UNCHANGED <<held, kill>>
    /\ Goto(x, IF families[x] = {} THEN "commit" ELSE "family")
    /\ UNCHANGED <<database, token, org, families, current, rows, status, history>>

\* A refresh that got here with a rotated token answers ReuseDetected.
Commit(x) ==
    /\ pc[x] = "commit"
    /\ member' = [o \in Orgs |-> IF o = org[x] THEN status[x] ELSE member[o]]
    /\ session' = [s \in SessionIds |-> IF s \in kill[x] THEN "revoked" ELSE session[s]]
    /\ revoked' = revoked \cup (kill[x] \cap Tokens)
    /\ reused' = IF token[x] \in rotated THEN reused \cup {family[token[x]]} ELSE reused
    /\ End(x)
    /\ UNCHANGED <<org_id, family, rotated, late>>

-----------------------------------------------------------------------------
(* SCIM *)

\* patch_user_inner with active = false locks the membership and revokes the
\* sessions in one UPDATE, and leaves their tokens alone.
ScimDeprovision(x, o) ==
    /\ pc[x] = "idle"
    /\ Free(x, o)
    /\ member[o] # "revoked"
    /\ org' = [org EXCEPT ![x] = o]
    /\ status' = [status EXCEPT ![x] = "revoked"]
    /\ Lock(x, o)
    /\ Goto(x, "scim")
    /\ UNCHANGED <<database, token, families, current, rows, kill, history>>

\* UPDATE auth_session: the rows of the statement's snapshot.
ScimRevokeSessions(x) ==
    LET live == SessionsOf(x) IN
    /\ pc[x] = "scim"
    /\ families' = [families EXCEPT ![x] = live]
    /\ Goto(x, IF live = {} THEN "commit" ELSE "sessions")
    /\ UNCHANGED <<database, token, org, held, current, rows, kill, status, history>>

\* One row of that UPDATE.
ScimRevokeSession(x, s) ==
    /\ pc[x] = "sessions"
    /\ s \in families[x]
    /\ Free(x, s)
    /\ families' = [families EXCEPT ![x] = @ \ {s}]
    /\ IF Live(s)
       THEN Lock(x, s) /\ kill' = [kill EXCEPT ![x] = @ \cup {s}]
       ELSE UNCHANGED <<held, kill>>
    /\ Goto(x, IF families[x] = {s} THEN "commit" ELSE "sessions")
    /\ UNCHANGED <<database, token, org, current, rows, status, history>>

\* patch_user_inner with active = true, and an invitation accepted again.
Reactivate(x, o) ==
    /\ pc[x] = "idle"
    /\ Free(x, o)
    /\ member[o] # "active"
    /\ member' = [member EXCEPT ![o] = "active"]
    /\ UNCHANGED <<session, org_id, family, rotated, revoked, pc, token, org, held,
                   families, current, rows, kill, status, history>>

-----------------------------------------------------------------------------

Next ==
    \E x \in Txns :
        \/ \E o \in Orgs :
              \/ LoginRead(x, o)
              \/ \E s \in SessionIds : SwitchRead(x, s, o)
              \/ \E new \in {"suspended", "revoked"} : UpdateMembership(x, o, new)
              \/ ScimDeprovision(x, o)
              \/ Reactivate(x, o)
        \/ \E s \in SessionIds, t \in Tokens : LoginCommit(x, s, t)
        \/ \E t \in Tokens : RotateToken(x, t) \/ RotateCommit(x, t) \/ RevokeToken(x, t)
        \/ \E s \in SessionIds :
              RevokeSession(x, s) \/ RevokeFamily(x, s) \/ ScimRevokeSession(x, s)
        \/ SwitchCommit(x)
        \/ RotateSession(x)
        \/ RotateMembership(x)
        \/ RevokeAllSessions(x)
        \/ RevokeOrgUserSessions(x)
        \/ RevokeSessionRow(x)
        \/ Commit(x)
        \/ ScimRevokeSessions(x)
        \/ Abort(x)

Spec == Init /\ [][Next]_vars

\* Sessions, tokens, requests and memberships are interchangeable.
Symmetry == UNION {Permutations(S) : S \in {SessionIds, Tokens, Txns, Orgs}}

-----------------------------------------------------------------------------
(* Properties *)

\* Of the tokens of a session at most one can still be exchanged, so a family
\* is a chain: also when two requests present the same token at once (they
\* serialise on its row, and the second is a reuse), and when a rotation crosses
\* a revocation of the family.
OneUsableToken ==
    \A s \in SessionIds : \A t, u \in FamilyOf(s) \ (rotated \cup revoked) : t = u

\* Once the revocation of a session is committed no refresh adds a token to
\* it, although revoke_family misses the token of a rotation that it crosses.
RevokedSessionIsClosed ==
    [][\A s \in SessionIds :
          session[s] = "revoked" => FamilyOf(s)' = FamilyOf(s) /\ session'[s] = "revoked"]_vars

\* Whoever is told that a reuse was detected left a revoked session behind.
ReuseEndsSession == \A s \in reused : session[s] = "revoked"

\* A member who is suspended, revoked or deprovisioned has no live session in
\* the organization but those of logins and switches that were past their
\* check of the membership.
InactiveMemberHasNoSession ==
    \A s \in SessionIds :
        Live(s) /\ member[org_id[s]] # "active" => s \in late

=============================================================================
