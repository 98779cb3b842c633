------------------------- MODULE RequestAuthorization -------------------------
(***************************************************************************)
(* One member's requests from the gateway to the services.  Core mints     *)
(* access tokens (sessions, and API keys through the exchange); every      *)
(* service has its own copy of from_jwt, which re-checks membership,       *)
(* session and policy version in one transaction, and of load_principal,   *)
(* which reads the grants in a later one.  The copies are modelled one by  *)
(* one, because they do not all check or read the same things.  Signatures *)
(* and the keys that verify them are module SigningKeys.                   *)
(*                                                                         *)
(* The grants are those that bear on ONE permission.  Conditions of a      *)
(* role_permission row are left out: no code writes that column.           *)
(***************************************************************************)
EXTENDS Naturals, FiniteSets

CONSTANTS
    ApiKeys,       \* ids of org_api_key rows
    MaxPolicy,     \* bound on policy_version
    MaxTokens      \* bound on the unexpired tokens considered

AuthServices == {"core", "crm", "finance", "hr", "project", "inventory", "workflow", "analytics",
                 "notification", "custom", "file", "search", "ai", "integration"}

ASSUME RequestAuthorizationAssumption ==
    /\ MaxPolicy \in Nat \ {0}
    /\ MaxTokens \in Nat \ {0}

VARIABLES
    member,       \* the membership row and the grants that reach it
    liveSession,  \* auth_session.revoked_at IS NULL
    apiKeys,      \* org_api_key rows
    tokens,       \* unexpired access tokens
    exchanging,   \* an exchange is between its key lookup and its mint
    inflight      \* one request on its way through a service

requestAuthorizationVars ==
    <<member, liveSession, apiKeys, tokens, exchanging, inflight>>

Token == [kind : {"session", "api"}, version : 1..MaxPolicy, scoped : BOOLEAN]
Idle == <<>>
Header == [org : {"absent", "same", "other"}, ai : {"none", "self", "other"}]
Request == [service : AuthServices, token : Token, moved : BOOLEAN]

RequestAuthorizationTypeOK ==
    /\ member \in [status : {"active", "suspended", "revoked"}, version : 1..MaxPolicy,
                   owner : BOOLEAN, default : BOOLEAN, role : SUBSET {"allow", "deny"},
                   inherited : SUBSET {"allow", "deny"}, delegated : BOOLEAN, lapsed : BOOLEAN]
    /\ liveSession \in BOOLEAN
    /\ apiKeys \in [ApiKeys -> {"none", "live", "revoked"}]
    /\ tokens \subseteq Token
    /\ exchanging \in BOOLEAN
    /\ inflight = Idle \/ inflight \in Request

RequestAuthorizationInit ==
    /\ \E d, o, delegate \in BOOLEAN :
          /\ o => d
          /\ member = [status |-> "active", version |-> 1, owner |-> o, default |-> d, role |-> {},
                       inherited |-> {}, delegated |-> delegate, lapsed |-> FALSE]
    /\ liveSession = TRUE
    /\ apiKeys = [k \in ApiKeys |-> "none"]
    /\ tokens = {}
    /\ exchanging = FALSE
    /\ inflight = Idle

-----------------------------------------------------------------------------
(* The decision point: an explicit deny wins, then an explicit allow, then *)
(* the role's defaults.  Every caller below asks at organization scope.    *)

Decide(p) == "deny" \notin p.statements /\ ("allow" \in p.statements \/ p.default)

(* load_principal, service by service. *)

RolePrincipal == [default |-> member.default, statements |-> member.role]
FullPrincipal ==
    [default |-> member.default,
     statements |-> member.role \cup member.inherited
                     \cup (IF member.delegated THEN {"allow"} ELSE {})]

CorePrincipal == FullPrincipal
FinancePrincipal == FullPrincipal
CrmPrincipal == RolePrincipal
HrPrincipal == RolePrincipal
ProjectPrincipal == RolePrincipal
InventoryPrincipal == RolePrincipal
WorkflowPrincipal == RolePrincipal
AnalyticsPrincipal == RolePrincipal
NotificationPrincipal == RolePrincipal
CustomPrincipal == RolePrincipal
FilePrincipal == RolePrincipal
SearchPrincipal == RolePrincipal
AiPrincipal == RolePrincipal
IntegrationPrincipal == RolePrincipal

PrincipalAt ==
    [core |-> CorePrincipal, finance |-> FinancePrincipal, crm |-> CrmPrincipal, hr |-> HrPrincipal,
     project |-> ProjectPrincipal, inventory |-> InventoryPrincipal, workflow |-> WorkflowPrincipal,
     analytics |-> AnalyticsPrincipal, notification |-> NotificationPrincipal,
     custom |-> CustomPrincipal, file |-> FilePrincipal, search |-> SearchPrincipal,
     ai |-> AiPrincipal, integration |-> IntegrationPrincipal]

-----------------------------------------------------------------------------
(* from_jwt, service by service.  An API-key token has no auth_session     *)
(* row, so a copy without a branch for it finds nothing and refuses.       *)

SessionAdmits(t) ==
    /\ t.kind = "session"
    /\ member.status = "active"
    /\ liveSession
    /\ t.version = member.version

HeadersAgree(h) == h.org # "other"

(* actor_from_headers: an AI caller may only act for the token's own user. *)
ActorFromHeaders(h) == h.ai # "other"

CoreFromJwt(t, h) ==
    \/ SessionAdmits(t)
    \/ t.kind = "api" /\ member.status = "active" /\ t.version = member.version

CrmFromJwt(t, h) ==
    /\ HeadersAgree(h)
    /\ \/ t.kind = "api" /\ member.status = "active"
       \/ SessionAdmits(t) /\ ActorFromHeaders(h)

FinanceFromJwt(t, h) ==
    /\ HeadersAgree(h)
    /\ \/ t.kind = "api" /\ member.status = "active"
       \/ SessionAdmits(t) /\ ActorFromHeaders(h)

(* Mutant: the policy version of the token is not compared. *)
HrFromJwtAnyVersion(t, h) ==
    /\ HeadersAgree(h) /\ ActorFromHeaders(h)
    /\ t.kind = "session" /\ member.status = "active" /\ liveSession

HrFromJwt(t, h) == HeadersAgree(h) /\ SessionAdmits(t) /\ ActorFromHeaders(h)
ProjectFromJwt(t, h) == HeadersAgree(h) /\ SessionAdmits(t) /\ ActorFromHeaders(h)
InventoryFromJwt(t, h) == HeadersAgree(h) /\ SessionAdmits(t) /\ ActorFromHeaders(h)
WorkflowFromJwt(t, h) == HeadersAgree(h) /\ SessionAdmits(t) /\ ActorFromHeaders(h)
AnalyticsFromJwt(t, h) == HeadersAgree(h) /\ SessionAdmits(t)
NotificationFromJwt(t, h) == HeadersAgree(h) /\ SessionAdmits(t)
CustomFromJwt(t, h) == HeadersAgree(h) /\ SessionAdmits(t)
FileFromJwt(t, h) == HeadersAgree(h) /\ SessionAdmits(t)
SearchFromJwt(t, h) == HeadersAgree(h) /\ SessionAdmits(t)
AiFromJwt(t, h) == HeadersAgree(h) /\ SessionAdmits(t)
IntegrationFromJwt(t, h) == HeadersAgree(h) /\ SessionAdmits(t)

AdmittedAt(t, h) ==
    [core |-> CoreFromJwt(t, h), finance |-> FinanceFromJwt(t, h), crm |-> CrmFromJwt(t, h),
     hr |-> HrFromJwt(t, h), project |-> ProjectFromJwt(t, h), inventory |-> InventoryFromJwt(t, h),
     workflow |-> WorkflowFromJwt(t, h), analytics |-> AnalyticsFromJwt(t, h),
     notification |-> NotificationFromJwt(t, h), custom |-> CustomFromJwt(t, h),
     file |-> FileFromJwt(t, h), search |-> SearchFromJwt(t, h), ai |-> AiFromJwt(t, h),
     integration |-> IntegrationFromJwt(t, h)]

(* The services that admit the token with some of these headers. *)
Admitting(t, headers) ==
    LET at == {AdmittedAt(t, h) : h \in headers} IN {s \in AuthServices : \E a \in at : a[s]}

-----------------------------------------------------------------------------
(* What changes the member's grants.  Every handler bumps policy_version   *)
(* in its own transaction; a delegation that expires bumps nothing.        *)

Bumped(m) == [m EXCEPT !.version = @ + 1, !.lapsed = FALSE]

Touch == inflight' = IF inflight = Idle THEN Idle ELSE [inflight EXCEPT !.moved = TRUE]

ChangeMember(m) ==
    /\ member' = m
    /\ Touch
    /\ UNCHANGED <<apiKeys, tokens, exchanging>>

CanBump == member.version < MaxPolicy /\ member.status # "revoked"

UpdateRole(statements) ==
    /\ CanBump
    /\ ChangeMember(Bumped(IF member.owner THEN member ELSE [member EXCEPT !.role = statements]))
    /\ UNCHANGED liveSession

ChangeRole(owner, default, statements) ==
    /\ CanBump
    /\ owner => default
    /\ ChangeMember(Bumped([member EXCEPT !.owner = owner, !.default = default, !.role = statements]))
    /\ UNCHANGED liveSession

UpdateSettings ==
    /\ CanBump
    /\ ChangeMember(Bumped(member))
    /\ UNCHANGED liveSession

(* register_entity_permissions: owner and admin roles get an allow row,   *)
(* unless they have any row for the permission.                           *)
RegisterEntityPermissions ==
    /\ CanBump
    /\ ChangeMember(Bumped([member EXCEPT !.role = IF member.owner /\ @ = {} THEN {"allow"} ELSE @]))
    /\ UNCHANGED liveSession

CreateInherit(effect) ==
    /\ CanBump
    /\ ChangeMember(Bumped([member EXCEPT !.inherited = @ \cup {effect}]))
    /\ UNCHANGED liveSession

CreateDelegate ==
    /\ CanBump
    /\ ChangeMember(Bumped([member EXCEPT !.delegated = TRUE]))
    /\ UNCHANGED liveSession

RevokeDelegate ==
    /\ CanBump
    /\ member.delegated
    /\ ChangeMember(Bumped([member EXCEPT !.delegated = FALSE]))
    /\ UNCHANGED liveSession

DelegationExpires ==
    /\ member.delegated
    /\ ChangeMember([member EXCEPT !.delegated = FALSE, !.lapsed = TRUE])
    /\ UNCHANGED liveSession

(* suspend_member and revoke_member also revoke the sessions. *)
EndMembership(status) ==
    /\ CanBump
    /\ status = "suspended" => member.status = "active"
    /\ ChangeMember(Bumped([member EXCEPT !.status = status]))
    /\ liveSession' = FALSE

-----------------------------------------------------------------------------
(* Tokens *)

MintSession ==
    /\ member.status = "active"
    /\ Cardinality(tokens) < MaxTokens
    /\ liveSession' = TRUE
    /\ tokens' = tokens \cup {[kind |-> "session", version |-> member.version,
                               scoped |-> FALSE]}
    /\ UNCHANGED <<member, apiKeys, exchanging, inflight>>

RevokeSession ==
    /\ liveSession' = FALSE
    /\ UNCHANGED <<member, apiKeys, tokens, exchanging, inflight>>

ExpireToken(t) ==
    /\ tokens' = tokens \ {t}
    /\ (inflight # Idle) => (inflight.token # t)
    /\ UNCHANGED <<member, liveSession, apiKeys, exchanging, inflight>>

SetKeys(keys) ==
    /\ apiKeys' = keys
    /\ UNCHANGED <<member, liveSession, tokens, exchanging, inflight>>

CreateApiKey(k) == apiKeys[k] = "none" /\ SetKeys([apiKeys EXCEPT ![k] = "live"])

RotateApiKey(k, new) ==
    /\ apiKeys[k] = "live"
    /\ apiKeys[new] = "none"
    /\ SetKeys([apiKeys EXCEPT ![k] = "revoked", ![new] = "live"])

RevokeApiKey(k) == apiKeys[k] = "live" /\ SetKeys([apiKeys EXCEPT ![k] = "revoked"])

(* exchange: the key row is read in one transaction, the owner's principal *)
(* in another; the minted scopes are what the owner is allowed then.       *)
ExchangeLookup ==
    /\ ~exchanging
    /\ \E k \in ApiKeys : apiKeys[k] = "live"
    /\ exchanging' = TRUE
    /\ UNCHANGED <<member, liveSession, apiKeys, tokens, inflight>>

ExchangeMint ==
    /\ exchanging
    /\ Cardinality(tokens) < MaxTokens
    /\ exchanging' = FALSE
    /\ IF member.status = "active" /\ Decide(CorePrincipal)
       THEN tokens' = tokens \cup {[kind |-> "api", version |-> member.version,
                                    scoped |-> TRUE]}
       ELSE UNCHANGED tokens
    /\ UNCHANGED <<member, liveSession, apiKeys, inflight>>

-----------------------------------------------------------------------------
(* A request.  The gateway admits an API-key token to the public routes    *)
(* its scopes cover, which are served by core, CRM and finance.            *)

(* extract_auth_ctx: a refused request leaves no trace. *)
Extract(s, t) ==
    /\ inflight = Idle
    /\ inflight' = [service |-> s, token |-> t, moved |-> FALSE]
    /\ UNCHANGED <<member, liveSession, apiKeys, tokens, exchanging>>

ProxyTo(t) ==
    \E s \in Admitting(t, {h \in Header : h.org = "same"}) :
        /\ t.kind = "api" => t.scoped /\ s \in {"core", "crm", "finance"}
        /\ Extract(s, t)

(* A caller inside the cluster reaches a service without the gateway. *)
CallService(t) == \E s \in Admitting(t, Header) : Extract(s, t)

Current == member.status = "active" /\ Decide(FullPrincipal)

(* A session's principal is loaded now.  An API key acts on its scopes,    *)
(* after CRM and finance have checked that the membership is active; but   *)
(* the CRM handlers of leads, pipelines, products and reports load the     *)
(* scope of the membership without the token's, and there a key acts with  *)
(* the whole role.                                                         *)
Allowed(r) ==
    IF r.token.kind = "api"
    THEN \/ r.token.scoped /\ (r.service = "core" \/ member.status = "active")
         \/ r.service = "crm" /\ member.status = "active" /\ Decide(CrmPrincipal)
    ELSE member.status = "active" /\ Decide(PrincipalAt[r.service])

Authorize ==
    /\ inflight # Idle
    /\ inflight' = Idle
    /\ UNCHANGED <<member, liveSession, apiKeys, tokens, exchanging>>

RequestAuthorizationNext ==
    \/ \E st \in SUBSET {"allow", "deny"} : UpdateRole(st)
    \/ \E o, d \in BOOLEAN, st \in SUBSET {"allow", "deny"} : ChangeRole(o, d, st)
    \/ UpdateSettings
    \/ RegisterEntityPermissions
    \/ \E e \in {"allow", "deny"} : CreateInherit(e)
    \/ CreateDelegate
    \/ RevokeDelegate
    \/ DelegationExpires
    \/ \E st \in {"suspended", "revoked"} : EndMembership(st)
    \/ MintSession
    \/ RevokeSession
    \/ \E t \in tokens : ExpireToken(t)
    \/ \E k \in ApiKeys : CreateApiKey(k) \/ RevokeApiKey(k)
    \/ \E k, n \in ApiKeys : RotateApiKey(k, n)
    \/ ExchangeLookup
    \/ ExchangeMint
    \/ \E t \in tokens : ProxyTo(t) \/ CallService(t)
    \/ Authorize

-----------------------------------------------------------------------------
(* Every service admits the same session tokens, and no service admits an *)
(* API-key token that core refuses except CRM and finance, which skip the *)
(* policy_version test.                                                   *)
AdmissionsAgree ==
    \A t \in tokens, o \in {"absent", "same"}, a \in {"none", "self"} :
        LET at == AdmittedAt(t, [org |-> o, ai |-> a]) IN
        /\ t.kind = "session" => \A s \in AuthServices : at[s] = at["core"]
        /\ t.kind = "api" =>
              /\ at["crm"] = at["finance"]
              /\ at["core"] => at["crm"]
              /\ \A s \in AuthServices \ {"core", "crm", "finance"} : ~at[s]

(* A request that runs is one the member's grants allow at that moment.    *)
(* The exceptions: services other than core and finance do not read an     *)
(* inherited deny; a key's scopes stay what they were at the exchange --   *)
(* in core only until policy_version moves, which a delegation's expiry    *)
(* does not do, or between the two transactions of one request.  Nothing   *)
(* is claimed of an API key in CRM and finance, which do not compare the   *)
(* policy_version.                                                         *)
AllowedIsCurrent ==
    [][Authorize /\ Allowed(inflight) /\ ~Current =>
          LET from == inflight.service IN
          IF inflight.token.kind = "session"
          THEN "deny" \in member.inherited /\ from \notin {"core", "finance"}
          ELSE from = "core" => inflight.moved \/ member.lapsed]_requestAuthorizationVars
=============================================================================
