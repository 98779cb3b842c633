------------------------------- MODULE Accounts -------------------------------
(***************************************************************************)
(* One user account of the core service: registration, email verification, *)
(* password login with lockout, password reset, magic links, MFA, OAuth    *)
(* and OIDC single sign-on.  Every one-time token (email_token rows,       *)
(* oauth_state, sso_login_state) is looked up in one statement and marked  *)
(* used by id in a later one.  Tokens are handed on by mail or redirect;   *)
(* the session a login ends in is the one module Sessions starts from.     *)
(***************************************************************************)
EXTENDS Naturals, FiniteSets

CONSTANTS
    OneTimeTokens,   \* ids of one-time tokens
    AuthTxns,        \* concurrent requests
    MaxFailures      \* lockout::MAX_FAILURES

ASSUME AccountsAssumption == MaxFailures \in Nat \ {0} /\ IsFiniteSet(AuthTxns)

VARIABLES
    account,     \* user_identity: exists, password, verified, failures, locked, secret, mfa
    role,        \* the membership's role: "admin" requires MFA (owner or admin)
    recovery,    \* the recovery codes: none, unused or used
    oneTime,     \* one-time tokens: purpose, state and the role in an MFA challenge
    uses,        \* history: times each token had its effect and was marked for it
    unmarked,    \* history: MFA challenges that had their effect while marking them failed
    authTxn,     \* what each request has read
    opened,      \* history: sessions opened, by way and role
    tokenRaces,  \* history: tokens used by a request that had read them before they were
    lockRaces    \* history: the lock was set, or lapsed, around a login

accountsVars == <<account, role, recovery, oneTime, uses, unmarked, authTxn, opened, tokenRaces, lockRaces>>

Purposes == {"email_verify", "magic_link", "password_reset", "mfa_pending", "oauth", "sso"}
Unissued == [purpose |-> "none", used |-> FALSE, role |-> "none"]
NoAuthTxn == [op |-> "idle"]

AccountsTypeOK ==
    /\ account \in [exists : BOOLEAN, password : BOOLEAN, verified : BOOLEAN, failures : 0 .. MaxFailures,
                    locked : BOOLEAN, secret : BOOLEAN, mfa : BOOLEAN]
    /\ role \in {"admin", "member"} /\ recovery \in {"none", "unused", "used"}
    /\ oneTime \in [OneTimeTokens -> [purpose : Purposes \cup {"none"}, used : BOOLEAN, role : {"admin", "member", "none"}]]
    /\ uses \in [OneTimeTokens -> 0 .. Cardinality(AuthTxns)]
    /\ DOMAIN authTxn = AuthTxns
    /\ opened \subseteq [via : {"password", "magic_link", "mfa_pending", "oauth", "sso"}, role : {"admin", "member"}]
    /\ tokenRaces \subseteq OneTimeTokens /\ unmarked \subseteq OneTimeTokens /\ lockRaces \in BOOLEAN

AccountsInit ==
    /\ account = [exists |-> FALSE, password |-> FALSE, verified |-> FALSE, failures |-> 0,
                  locked |-> FALSE, secret |-> FALSE, mfa |-> FALSE]
    /\ role = "admin" /\ recovery = "none"
    /\ oneTime = [t \in OneTimeTokens |-> Unissued]
    /\ uses = [t \in OneTimeTokens |-> 0]
    /\ authTxn = [x \in AuthTxns |-> NoAuthTxn]
    /\ opened = {} /\ tokenRaces = {} /\ unmarked = {} /\ lockRaces = FALSE

Usable(t, purpose) == oneTime[t].purpose = purpose /\ ~oneTime[t].used

Issue(t, purpose, r) ==
    /\ oneTime[t] = Unissued
    /\ oneTime' = [oneTime EXCEPT ![t] = [purpose |-> purpose, used |-> FALSE, role |-> r]]

AuthReads(x, what) ==
    /\ authTxn[x] = NoAuthTxn
    /\ authTxn' = [authTxn EXCEPT ![x] = what]
    /\ UNCHANGED <<account, role, recovery, oneTime, uses, unmarked, opened, tokenRaces, lockRaces>>

EndAuth(x) == authTxn' = [authTxn EXCEPT ![x] = NoAuthTxn]

\* Mutant: consumed_at is never set.
ConsumeUnmarked(t) ==
    /\ uses' = [uses EXCEPT ![t] = @ + 1]
    /\ UNCHANGED <<oneTime, unmarked, tokenRaces>>

\* UPDATE ... SET consumed_at WHERE id, or DELETE ... WHERE id: the row count is
\* not looked at.
Consume(t) ==
    /\ oneTime' = [oneTime EXCEPT ![t].used = TRUE]
    /\ uses' = [uses EXCEPT ![t] = @ + 1]
    /\ tokenRaces' = IF oneTime[t].used THEN tokenRaces \cup {t} ELSE tokenRaces
    /\ UNCHANGED unmarked

\* A token is looked up: unused, not expired.
TokenRead(x, t, purpose) ==
    /\ account.exists \/ purpose = "oauth"
    /\ Usable(t, purpose)
    /\ AuthReads(x, [op |-> purpose, token |-> t, recoveryCode |-> FALSE])

-----------------------------------------------------------------------------
(* Registration and verification *)

\* The owner of a new organization, with a verification token in the mail.
Register(t) ==
    /\ ~account.exists
    /\ account' = [account EXCEPT !.exists = TRUE, !.password = TRUE]
    /\ Issue(t, "email_verify", "none")
    /\ UNCHANGED <<role, recovery, uses, unmarked, authTxn, opened, tokenRaces, lockRaces>>

ResendVerification(t) ==
    /\ account.exists /\ ~account.verified
    /\ Issue(t, "email_verify", "none")
    /\ UNCHANGED <<account, role, recovery, uses, unmarked, authTxn, opened, tokenRaces, lockRaces>>

VerifyEmail(x) ==
    /\ authTxn[x].op = "email_verify"
    /\ Consume(authTxn[x].token)
    /\ account' = [account EXCEPT !.verified = TRUE]
    /\ EndAuth(x)
    /\ UNCHANGED <<role, recovery, opened, lockRaces>>

-----------------------------------------------------------------------------
(* Passwords *)

LoginFails ==
    /\ account.password /\ ~account.locked
    /\ account.failures < MaxFailures   \* a bound: the count goes on after a lapsed lock
    /\ account' = [account EXCEPT !.failures = @ + 1, !.locked = account.failures + 1 >= MaxFailures]
    /\ UNCHANGED <<role, recovery, oneTime, uses, unmarked, authTxn, opened, tokenRaces, lockRaces>>

\* locked_until passes; the count stays.
LockLapses ==
    /\ account.locked
    /\ account' = [account EXCEPT !.locked = FALSE]
    /\ lockRaces' = TRUE
    /\ UNCHANGED <<role, recovery, oneTime, uses, unmarked, authTxn, opened, tokenRaces>>

LoginRead(x) ==
    /\ account.password /\ account.verified /\ ~account.locked
    /\ AuthReads(x, [op |-> "password", role |-> role])

RequiresMfa(r) == r = "admin"

\* A role that requires MFA gets a challenge and no session.
LoginChallenge(x, t) ==
    /\ authTxn[x].op = "password"
    /\ RequiresMfa(authTxn[x].role)
    /\ Issue(t, "mfa_pending", authTxn[x].role)
    /\ EndAuth(x)
    /\ UNCHANGED <<account, role, recovery, uses, unmarked, opened, tokenRaces, lockRaces>>

LoginOpens(x) ==
    /\ authTxn[x].op = "password"
    /\ ~RequiresMfa(authTxn[x].role)
    /\ account' = [account EXCEPT !.failures = 0, !.locked = FALSE]
    /\ opened' = opened \cup {[via |-> "password", role |-> authTxn[x].role]}
    /\ lockRaces' = (lockRaces \/ account.locked)
    /\ EndAuth(x)
    /\ UNCHANGED <<role, recovery, oneTime, uses, unmarked, tokenRaces>>

RequestPasswordReset(t) ==
    /\ account.exists
    /\ Issue(t, "password_reset", "none")
    /\ UNCHANGED <<account, role, recovery, uses, unmarked, authTxn, opened, tokenRaces, lockRaces>>

ConfirmPasswordReset(x) ==
    /\ authTxn[x].op = "password_reset"
    /\ Consume(authTxn[x].token)
    /\ account' = [account EXCEPT !.password = TRUE, !.failures = 0, !.locked = FALSE]
    /\ EndAuth(x)
    /\ UNCHANGED <<role, recovery, opened, lockRaces>>

-----------------------------------------------------------------------------
(* Magic links, OAuth and single sign-on *)

RequestMagicLink(t) ==
    /\ account.exists
    /\ Issue(t, "magic_link", "none")
    /\ UNCHANGED <<account, role, recovery, uses, unmarked, authTxn, opened, tokenRaces, lockRaces>>

OauthStart(t) ==
    /\ Issue(t, "oauth", "none")
    /\ UNCHANGED <<account, role, recovery, uses, unmarked, authTxn, opened, tokenRaces, lockRaces>>

StartOidcLogin(t) ==
    /\ account.exists
    /\ Issue(t, "sso", "none")
    /\ UNCHANGED <<account, role, recovery, uses, unmarked, authTxn, opened, tokenRaces, lockRaces>>

\* The token is used in a statement of its own, then the session is issued.
ConsumeMagicLink(x) ==
    /\ authTxn[x].op = "magic_link"
    /\ Consume(authTxn[x].token)
    /\ authTxn' = [authTxn EXCEPT ![x] = [op |-> "issue", via |-> "magic_link"]]
    /\ UNCHANGED <<account, role, recovery, opened, lockRaces>>

\* The account the identity provider names is verified, and created if need be.
OauthCallback(x) ==
    /\ authTxn[x].op = "oauth"
    /\ Consume(authTxn[x].token)
    /\ account' = [account EXCEPT !.exists = TRUE, !.verified = TRUE]
    /\ authTxn' = [authTxn EXCEPT ![x] = [op |-> "issue", via |-> "oauth"]]
    /\ UNCHANGED <<role, recovery, opened, lockRaces>>

\* Membership is read and the session opened in one transaction, without MFA.
CompleteOidcLogin(x) ==
    /\ authTxn[x].op = "sso"
    /\ Consume(authTxn[x].token)
    /\ opened' = opened \cup {[via |-> "sso", role |-> role]}
    /\ EndAuth(x)
    /\ UNCHANGED <<account, role, recovery, lockRaces>>

IssueForUser(x, t) ==
    /\ authTxn[x].op = "issue"
    /\ IF RequiresMfa(role)
       THEN Issue(t, "mfa_pending", role) /\ UNCHANGED opened
       ELSE opened' = opened \cup {[via |-> authTxn[x].via, role |-> role]} /\ UNCHANGED oneTime
    /\ EndAuth(x)
    /\ UNCHANGED <<account, role, recovery, uses, unmarked, tokenRaces, lockRaces>>

-----------------------------------------------------------------------------
(* MFA *)

HasChallenge == \E t \in OneTimeTokens : Usable(t, "mfa_pending")

\* A new secret, whether or not MFA is already on.
MfaSetup ==
    /\ HasChallenge \/ opened # {}
    /\ account' = [account EXCEPT !.secret = TRUE]
    /\ UNCHANGED <<role, recovery, oneTime, uses, unmarked, authTxn, opened, tokenRaces, lockRaces>>

MfaConfirm ==
    /\ HasChallenge \/ opened # {}
    /\ account.secret
    /\ account' = [account EXCEPT !.mfa = TRUE]
    /\ recovery' = "unused"
    /\ UNCHANGED <<role, oneTime, uses, unmarked, authTxn, opened, tokenRaces, lockRaces>>

\* A recovery code that is unused when mfa_verify lists the codes.
RecoveryCodeRead(x) ==
    /\ authTxn[x].op = "mfa_pending" /\ ~authTxn[x].recoveryCode
    /\ recovery = "unused"
    /\ authTxn' = [authTxn EXCEPT ![x].recoveryCode = TRUE]
    /\ UNCHANGED <<account, role, recovery, oneTime, uses, unmarked, opened, tokenRaces, lockRaces>>

\* The statement that would mark the challenge fails.
LeaveUnmarked(t) ==
    /\ unmarked' = unmarked \cup {t}
    /\ UNCHANGED <<oneTime, uses, tokenRaces>>

\* By code or by a recovery code.  The UPDATE that marks the recovery code and
\* the one that marks the challenge are on their own, and their errors are
\* dropped: `failed` holds those that fail, or find the code's row replaced.
MfaVerify(x, failed) ==
    LET t == authTxn[x].token
    IN  /\ authTxn[x].op = "mfa_pending"
        /\ authTxn[x].recoveryCode \/ account.secret
        /\ recovery' = IF authTxn[x].recoveryCode /\ "code" \notin failed THEN "used" ELSE recovery
        /\ IF "challenge" \in failed THEN LeaveUnmarked(t) ELSE Consume(t)
        /\ authTxn' = [authTxn EXCEPT ![x] = [op |-> "verified", role |-> oneTime[t].role]]
        /\ UNCHANGED <<account, role, opened, lockRaces>>

\* The session has the role of the challenge; clearing the failures may fail.
MfaOpens(x, failed) ==
    /\ authTxn[x].op = "verified"
    /\ account' = IF "failures" \in failed THEN account
                  ELSE [account EXCEPT !.failures = 0, !.locked = FALSE]
    /\ opened' = opened \cup {[via |-> "mfa_pending", role |-> authTxn[x].role]}
    /\ EndAuth(x)
    /\ UNCHANGED <<role, recovery, oneTime, uses, unmarked, tokenRaces, lockRaces>>

\* The membership's role changes meanwhile (module Ownership).
RoleChanges ==
    /\ role' = IF role = "admin" THEN "member" ELSE "admin"
    /\ UNCHANGED <<account, recovery, oneTime, uses, unmarked, authTxn, opened, tokenRaces, lockRaces>>

AccountsNext ==
    \/ \E t \in OneTimeTokens :
          \/ Register(t) \/ ResendVerification(t) \/ RequestPasswordReset(t)
          \/ RequestMagicLink(t) \/ OauthStart(t) \/ StartOidcLogin(t)
    \/ \E x \in AuthTxns, t \in OneTimeTokens :
          \/ LoginChallenge(x, t) \/ IssueForUser(x, t)
          \/ \E purpose \in Purposes : TokenRead(x, t, purpose)
    \/ \E x \in AuthTxns :
          \/ VerifyEmail(x) \/ LoginRead(x) \/ LoginOpens(x) \/ ConfirmPasswordReset(x)
          \/ ConsumeMagicLink(x) \/ OauthCallback(x) \/ CompleteOidcLogin(x)
          \/ RecoveryCodeRead(x)
          \/ \E failed \in SUBSET {"code", "challenge"} : MfaVerify(x, failed)
          \/ \E failed \in SUBSET {"failures"} : MfaOpens(x, failed)
    \/ LoginFails \/ LockLapses \/ MfaSetup \/ MfaConfirm \/ RoleChanges

AccountsSpec == AccountsInit /\ [][AccountsNext]_accountsVars

-----------------------------------------------------------------------------

\* A verification, reset or login token has its effect once, unless a second
\* request had looked it up before the first marked it; only an MFA challenge
\* can have it and stay usable, where the statement that marks it failed.
TokensWorkOnce ==
    \A t \in OneTimeTokens :
        /\ t \notin tokenRaces \cup unmarked => uses[t] <= 1
        /\ t \in unmarked => oneTime[t].purpose = "mfa_pending"

\* A session of a role that requires MFA was opened by mfa_verify or by single
\* sign-on, on whichever of the five ways in; and MFA is on only for an account
\* that has a secret.
AdminSessionsPassedMfa ==
    /\ \A s \in opened : RequiresMfa(s.role) => s.via \in {"mfa_pending", "sso"}
    /\ account.mfa => account.secret

\* Consecutive wrong passwords lock the account, and nothing but time, a reset
\* or a completed login unlocks it.
FailuresLock == account.failures >= MaxFailures => account.locked \/ lockRaces
=============================================================================
