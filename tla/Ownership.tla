----------------------------- MODULE Ownership -----------------------------
(***************************************************************************)
(* The memberships of one organization and its Last-Owner invariant (core, *)
(* workspace): ensure_not_last_owner is called before a member is          *)
(* suspended, revoked or demoted; invitations, SCIM and the HR onboarding  *)
(* write roles and statuses without it.                                    *)
(*                                                                         *)
(* A request is one READ COMMITTED transaction: each of its SELECTs reads  *)
(* what is committed when it runs, and takes no lock.  It writes one       *)
(* membership row, so its UPDATE and its commit are one step.              *)
(*                                                                         *)
(* The last part proves the types and OwnerlessExplained, for every set of *)
(* users, invitations and concurrent requests.                             *)
(***************************************************************************)
EXTENDS Naturals, FiniteSets, FiniteSetTheorems, TLC, TLAPS

CONSTANTS
    Users,        \* users that are or become members
    Founder,      \* the owner that create_organization inserts
    Invitations,  \* invitations that can be sent
    ScimUsers,    \* users with a scim_external_identity row
    Onboarded,    \* users whose HR onboarding assigns a role
    Txns,         \* concurrent requests
    NoUser        \* a request or an invitation without a user

ASSUME OwnershipAssumption ==
    /\ Founder \in Users
    /\ ScimUsers \subseteq Users
    /\ Onboarded \subseteq Users
    /\ NoUser \notin Users \cup Invitations
    /\ Users \cap Invitations = {}

\* membership.role, and what a role reference of the API can name: a system
\* role or a custom role of the organization.
Roles == {"owner", "member"}
RoleRefs == Roles \cup {"custom"}

VARIABLES
    role,       \* membership.role
    status,     \* membership.status
    invitee,    \* invitation.email_normalized
    offer,      \* invitation.role_id
    pending,    \* invitations with status pending
    pc,         \* the statement each request is at
    kind,       \* what it does to its target: a new role, suspend or revoke
    target,     \* the member, or the invitation, it is about
    seen,       \* history: the owners that its last-owner check counted
    raced,      \* history: an owner was removed after the counted owners changed
    bypassed    \* history: an owner was removed by a write without a check

vars == <<role, status, invitee, offer, pending, pc, kind, target, seen, raced,
          bypassed>>

memberships == <<role, status>>
invitations == <<invitee, offer, pending>>
history == <<raced, bypassed>>

TypeOK ==
    /\ role \in [Users -> Roles]
    /\ status \in [Users -> {"none", "active", "suspended", "revoked"}]
    /\ invitee \in [Invitations -> Users \cup {NoUser}]
    /\ offer \in [Invitations -> RoleRefs]
    /\ pending \subseteq Invitations
    /\ pc \in [Txns -> {"idle", "ensure", "count", "update", "accept"}]
    /\ kind \in [Txns -> Roles \cup {"none", "suspend", "revoke"}]
    /\ target \in [Txns -> Users \cup Invitations \cup {NoUser}]
    /\ seen \in [Txns -> SUBSET Users]
    /\ raced \in BOOLEAN
    /\ bypassed \in BOOLEAN

Init ==
    /\ role = [u \in Users |-> IF u = Founder THEN "owner" ELSE "member"]
    /\ status = [u \in Users |-> IF u = Founder THEN "active" ELSE "none"]
    /\ invitee = [i \in Invitations |-> NoUser]
    /\ offer = [i \in Invitations |-> "member"]
    /\ pending = {}
    /\ pc = [x \in Txns |-> "idle"]
    /\ kind = [x \in Txns |-> "none"]
    /\ target = [x \in Txns |-> NoUser]
    /\ seen = [x \in Txns |-> {}]
    /\ raced = FALSE
    /\ bypassed = FALSE

ActiveOwners == {u \in Users : role[u] = "owner" /\ status[u] = "active"}

\* resolve_role, COALESCE(system_key, 'member'): a custom role has no key.
RoleKey(ref) == IF ref = "custom" THEN "member" ELSE ref

Start(x, label, what, u) ==
    /\ pc' = [pc EXCEPT ![x] = label]
    /\ kind' = [kind EXCEPT ![x] = what]
    /\ target' = [target EXCEPT ![x] = u]

End(x) ==
    /\ pc' = [pc EXCEPT ![x] = "idle"]
    /\ kind' = [kind EXCEPT ![x] = "none"]
    /\ target' = [target EXCEPT ![x] = NoUser]
    /\ seen' = [seen EXCEPT ![x] = {}]

-----------------------------------------------------------------------------
(* Checked requests *)

\* change_member_role: the current role decides whether the check is needed.
ChangeMemberRole(x, u, ref) ==
    /\ pc[x] = "idle"
    /\ status[u] \in {"active", "suspended"}
    /\ Start(x, IF role[u] = "owner" /\ RoleKey(ref) # "owner" THEN "ensure" ELSE "update",
             RoleKey(ref), u)
    /\ UNCHANGED <<memberships, invitations, seen, history>>

\* suspend_member, revoke_member and revoke_membership; revoke_all_access_paths
\* of the HR offboarding has a copy of the same check.
RemoveMember(x, u, what) ==
    /\ pc[x] = "idle"
    /\ status[u] # "none"
    /\ Start(x, "ensure", what, u)
    /\ UNCHANGED <<memberships, invitations, seen, history>>

\* ensure_not_last_owner reads the target: nothing to check unless it is an
\* active owner.
EnsureNotLastOwner(x) ==
    /\ pc[x] = "ensure"
    /\ pc' = [pc EXCEPT ![x] = IF target[x] \in ActiveOwners THEN "count" ELSE "update"]
    /\ UNCHANGED <<memberships, invitations, kind, target, seen, history>>

\* Mutant: the last owner passes the check.
ActiveOwnerCountAllowsLast(x) ==
    /\ pc[x] = "count"
    /\ pc' = [pc EXCEPT ![x] = "update"]
    /\ seen' = [seen EXCEPT ![x] = ActiveOwners]
    /\ UNCHANGED <<memberships, invitations, kind, target, history>>

\* ... and counts: the request is refused when at most one owner is left.
ActiveOwnerCount(x) ==
    /\ pc[x] = "count"
    /\ IF Cardinality(ActiveOwners) <= 1
       THEN End(x)
       ELSE /\ pc' = [pc EXCEPT ![x] = "update"]
            /\ seen' = [seen EXCEPT ![x] = ActiveOwners]
            /\ UNCHANGED <<kind, target>>
    /\ UNCHANGED <<memberships, invitations, history>>

\* The UPDATE and the commit.  A role is written by the membership's id, a
\* suspension needs an active row, a revocation one that is not revoked;
\* otherwise the request answers not found.
UpdateMembership(x) ==
    LET u == target[x]
        what == kind[x]
        found == CASE what = "suspend" -> status[u] = "active"
                   [] what = "revoke" -> status[u] # "revoked"
                   [] OTHER -> TRUE IN
    /\ pc[x] = "update"
    /\ role' = IF what \in Roles THEN [role EXCEPT ![u] = what] ELSE role
    /\ status' = IF found /\ what \notin Roles
                 THEN [status EXCEPT ![u] = IF what = "suspend" THEN "suspended" ELSE "revoked"]
                 ELSE status
    /\ raced' = (raced \/ /\ ActiveOwners' # ActiveOwners
                          /\ u \in ActiveOwners
                          /\ u \notin seen[x] \/ ~(seen[x] \subseteq ActiveOwners))
    /\ End(x)
    /\ UNCHANGED <<invitations, bypassed>>

-----------------------------------------------------------------------------
(* Invitations *)

\* invite_member does not ask whether the address is a member already.
InviteMember(i, u, ref) ==
    /\ invitee[i] = NoUser
    /\ invitee' = [invitee EXCEPT ![i] = u]
    /\ offer' = [offer EXCEPT ![i] = ref]
    /\ pending' = pending \cup {i}
    /\ UNCHANGED <<memberships, pc, kind, target, seen, history>>

\* accept_invitation looks the invitation up in a transaction of its own ...
AcceptRead(x, i) ==
    /\ pc[x] = "idle"
    /\ i \in pending
    /\ Start(x, "accept", "none", i)
    /\ UNCHANGED <<memberships, invitations, seen, history>>

\* Mutant: the role's key is taken without COALESCE.
AcceptInvitationRawKey(x, key) ==
    LET i == target[x]
        u == invitee[i] IN
    /\ pc[x] = "accept"
    /\ role' = [role EXCEPT ![u] = offer[i]]
    /\ status' = [status EXCEPT ![u] = "active"]
    /\ pending' = pending \ {i}
    /\ bypassed' = (bypassed \/ ~(ActiveOwners \subseteq ActiveOwners'))
    /\ End(x)
    /\ UNCHANGED <<invitee, offer, raced>>

\* ... and upserts the membership in a second one: role and status are set
\* whatever they are by then, and the invitation is accepted.  The role's key is
\* looked up outside both, without an organization: "member" when that fails.
AcceptInvitation(x, key) ==
    LET i == target[x]
        u == invitee[i] IN
    /\ pc[x] = "accept"
    /\ key \in {RoleKey(offer[i]), "member"}
    /\ role' = [role EXCEPT ![u] = key]
    /\ status' = [status EXCEPT ![u] = "active"]
    /\ pending' = pending \ {i}
    /\ bypassed' = (bypassed \/ ~(ActiveOwners \subseteq ActiveOwners'))
    /\ End(x)
    /\ UNCHANGED <<invitee, offer, raced>>

-----------------------------------------------------------------------------
(* SCIM and HR *)

\* patch_user_inner, active = false.
ScimDeprovision(u) ==
    /\ u \in ScimUsers
    /\ status[u] \in {"active", "suspended"}
    /\ status' = [status EXCEPT ![u] = "revoked"]
    /\ bypassed' = (bypassed \/ u \in ActiveOwners)
    /\ UNCHANGED <<role, invitations, pc, kind, target, seen, raced>>

\* patch_user_inner, active = true, and the upsert of create_user.
ScimProvision(u) ==
    /\ u \in ScimUsers
    /\ status[u] # "active"
    /\ status' = [status EXCEPT ![u] = "active"]
    /\ UNCHANGED <<role, invitations, pc, kind, target, seen, history>>

\* assign_role of the HR onboarding.
OnboardingRole(u, r) ==
    /\ u \in Onboarded
    /\ status[u] \in {"active", "suspended"}
    /\ role' = [role EXCEPT ![u] = r]
    /\ bypassed' = (bypassed \/ (u \in ActiveOwners /\ r # "owner"))
    /\ UNCHANGED <<status, invitations, pc, kind, target, seen, raced>>

-----------------------------------------------------------------------------

Next ==
    \/ \E x \in Txns :
          \/ \E u \in Users :
                \/ \E ref \in RoleRefs : ChangeMemberRole(x, u, ref)
                \/ \E what \in {"suspend", "revoke"} : RemoveMember(x, u, what)
          \/ EnsureNotLastOwner(x)
          \/ ActiveOwnerCount(x)
          \/ UpdateMembership(x)
          \/ \E i \in Invitations : AcceptRead(x, i)
          \/ \E key \in Roles : AcceptInvitation(x, key)
    \/ \E i \in Invitations, u \in Users, ref \in RoleRefs : InviteMember(i, u, ref)
    \/ \E u \in Users :
          \/ ScimDeprovision(u)
          \/ ScimProvision(u)
          \/ \E r \in Roles : OnboardingRole(u, r)

Spec == Init /\ [][Next]_vars

\* Requests are interchangeable.
Symmetry == Permutations(Txns)

-----------------------------------------------------------------------------
(* Properties *)

\* An organization without an active owner is explained: a write that makes no
\* check removed an owner, or a checked removal took effect after the owners it
\* had counted, or the role it had read, changed.  Serialised, the checked
\* requests keep an owner.
OwnerlessExplained == ActiveOwners = {} => raced \/ bypassed

\* last_owner.rs:1, and docs/runbooks/locked-out-owner-recovery.md:44 ("should be
\* unreachable via APIs"): every organization has an active owner at all times.
LastOwner == ActiveOwners # {}

-----------------------------------------------------------------------------
(* The parts of the inductive invariant. *)

\* A request that accepts is about an invitation.
AcceptsInvitation ==
    \A x \in Txns : pc[x] = "accept" => target[x] \in Invitations

\* A check that was passed counted two owners.
CountedTwo ==
    \A x \in Txns : seen[x] # {} => \E u, v \in seen[x] : u # v

IInv ==
    /\ TypeOK
    /\ AcceptsInvitation
    /\ CountedTwo
    /\ OwnerlessExplained

-----------------------------------------------------------------------------

\* ensure_not_last_owner lets a request pass when two owners are there.
LEMMA TwoOwners ==
    ASSUME NEW S, ~(Cardinality(S) <= 1)
    PROVE  \E u, v \in S : u # v
  <1>1. S # {}
    BY FS_EmptySet
  <1>2. PICK u \in S : TRUE
    BY <1>1
  <1>3. S # {u}
    BY FS_Singleton
  <1>q. QED  BY <1>2, <1>3

\* A role reference names one of the two keys.
LEMMA RoleKeyType == \A ref \in RoleRefs : RoleKey(ref) \in Roles
  BY DEF RoleRefs, Roles, RoleKey

\* The initial states satisfy the invariant: the founder owns the organization.
LEMMA InitIInv == Init => IInv
  <1> SUFFICES ASSUME Init PROVE IInv
    OBVIOUS
  <1>1. TypeOK
    BY DEF Init, TypeOK, Roles, RoleRefs
  <1>2. AcceptsInvitation /\ CountedTwo
    BY DEF Init, AcceptsInvitation, CountedTwo
  <1>3. Founder \in ActiveOwners
    BY OwnershipAssumption DEF Init, ActiveOwners
  <1>q. QED  BY <1>1, <1>2, <1>3 DEF IInv, OwnerlessExplained

\* Every step keeps the types.
LEMMA TypeStep == IInv /\ [Next]_vars => TypeOK'
  <1> SUFFICES ASSUME IInv, [Next]_vars PROVE TypeOK'
    OBVIOUS
  <1>t. TypeOK
    BY DEF IInv
  <1>1. ASSUME NEW x \in Txns, NEW u \in Users, NEW ref \in RoleRefs, ChangeMemberRole(x, u, ref)
        PROVE  TypeOK'
    BY <1>1, <1>t, RoleKeyType
    DEF TypeOK, ChangeMemberRole, Start, memberships, invitations, history
  <1>2. ASSUME NEW x \in Txns, NEW u \in Users, NEW what \in {"suspend", "revoke"},
               RemoveMember(x, u, what)
        PROVE  TypeOK'
    BY <1>2, <1>t DEF TypeOK, RemoveMember, Start, memberships, invitations, history
  <1>3. ASSUME NEW x \in Txns, EnsureNotLastOwner(x)
        PROVE  TypeOK'
    BY <1>3, <1>t DEF TypeOK, EnsureNotLastOwner, memberships, invitations, history
  <1>4. ASSUME NEW x \in Txns, ActiveOwnerCount(x)
        PROVE  TypeOK'
    BY <1>4, <1>t
    DEF TypeOK, ActiveOwnerCount, ActiveOwners, End, memberships, invitations, history
  <1>5. ASSUME NEW x \in Txns, UpdateMembership(x)
        PROVE  TypeOK'
    <2>1. role' \in [Users -> Roles]
      BY <1>5, <1>t DEF TypeOK, UpdateMembership
    <2>2. status' \in [Users -> {"none", "active", "suspended", "revoked"}]
      BY <1>5, <1>t DEF TypeOK, UpdateMembership
    <2>3. raced' \in BOOLEAN
      BY <1>5, <1>t DEF TypeOK, UpdateMembership
    <2>q. QED  BY <1>5, <1>t, <2>1, <2>2, <2>3 DEF TypeOK, UpdateMembership, End, invitations
  <1>6. ASSUME NEW x \in Txns, NEW i \in Invitations, AcceptRead(x, i)
        PROVE  TypeOK'
    BY <1>6, <1>t DEF TypeOK, AcceptRead, Start, memberships, invitations, history
  <1>7. ASSUME NEW x \in Txns, NEW key \in Roles, AcceptInvitation(x, key)
        PROVE  TypeOK'
    <2>1. role' \in [Users -> Roles]
      BY <1>7, <1>t DEF TypeOK, AcceptInvitation
    <2>2. status' \in [Users -> {"none", "active", "suspended", "revoked"}]
      BY <1>7, <1>t DEF TypeOK, AcceptInvitation
    <2>3. bypassed' \in BOOLEAN
      BY <1>7, <1>t DEF TypeOK, AcceptInvitation
    <2>q. QED  BY <1>7, <1>t, <2>1, <2>2, <2>3 DEF TypeOK, AcceptInvitation, End
  <1>8. ASSUME NEW i \in Invitations, NEW u \in Users, NEW ref \in RoleRefs,
               InviteMember(i, u, ref)
        PROVE  TypeOK'
    BY <1>8, <1>t DEF TypeOK, InviteMember, memberships, history
  <1>9. ASSUME NEW u \in Users,
               ScimDeprovision(u) \/ ScimProvision(u) \/ \E r \in Roles : OnboardingRole(u, r)
        PROVE  TypeOK'
    BY <1>9, <1>t
    DEF TypeOK, ScimDeprovision, ScimProvision, OnboardingRole, invitations, history
  <1>10. CASE UNCHANGED vars
    BY <1>10, <1>t DEF TypeOK, vars
  <1>q. QED
    BY <1>1, <1>2, <1>3, <1>4, <1>5, <1>6, <1>7, <1>8, <1>9, <1>10 DEF Next

\* Every step keeps what requests know about their target and their count.
LEMMA RequestsStep == IInv /\ [Next]_vars => AcceptsInvitation' /\ CountedTwo'
  <1> SUFFICES ASSUME IInv, [Next]_vars PROVE AcceptsInvitation' /\ CountedTwo'
    OBVIOUS
  <1>t. TypeOK /\ AcceptsInvitation /\ CountedTwo
    BY DEF IInv
  <1>1. ASSUME NEW x \in Txns, NEW u \in Users, NEW ref \in RoleRefs, ChangeMemberRole(x, u, ref)
        PROVE  AcceptsInvitation' /\ CountedTwo'
    BY <1>1, <1>t DEF TypeOK, AcceptsInvitation, CountedTwo, ChangeMemberRole, Start
  <1>2. ASSUME NEW x \in Txns, NEW u \in Users, NEW what \in {"suspend", "revoke"},
               RemoveMember(x, u, what)
        PROVE  AcceptsInvitation' /\ CountedTwo'
    BY <1>2, <1>t DEF TypeOK, AcceptsInvitation, CountedTwo, RemoveMember, Start
  <1>3. ASSUME NEW x \in Txns, EnsureNotLastOwner(x)
        PROVE  AcceptsInvitation' /\ CountedTwo'
    BY <1>3, <1>t DEF TypeOK, AcceptsInvitation, CountedTwo, EnsureNotLastOwner
  <1>4. ASSUME NEW x \in Txns, ActiveOwnerCount(x)
        PROVE  AcceptsInvitation' /\ CountedTwo'
    <2>1. CASE Cardinality(ActiveOwners) <= 1
      BY <1>4, <1>t, <2>1 DEF TypeOK, AcceptsInvitation, CountedTwo, ActiveOwnerCount, End
    <2>2. CASE ~(Cardinality(ActiveOwners) <= 1)
      <3>1. \E u, v \in ActiveOwners : u # v
        BY <2>2, TwoOwners
      <3>q. QED
        BY <1>4, <1>t, <2>2, <3>1 DEF TypeOK, AcceptsInvitation, CountedTwo, ActiveOwnerCount
    <2>q. QED  BY <2>1, <2>2
  <1>5. ASSUME NEW x \in Txns, UpdateMembership(x) \/ \E key \in Roles : AcceptInvitation(x, key)
        PROVE  AcceptsInvitation' /\ CountedTwo'
    <2>1. End(x)
      BY <1>5 DEF UpdateMembership, AcceptInvitation
    <2>q. QED  BY <1>t, <2>1 DEF TypeOK, AcceptsInvitation, CountedTwo, End
  <1>6. ASSUME NEW x \in Txns, NEW i \in Invitations, AcceptRead(x, i)
        PROVE  AcceptsInvitation' /\ CountedTwo'
    BY <1>6, <1>t DEF TypeOK, AcceptsInvitation, CountedTwo, AcceptRead, Start
  <1>7. CASE UNCHANGED <<pc, target, seen>>
    BY <1>7, <1>t DEF AcceptsInvitation, CountedTwo
  <1>q. QED
    BY <1>1, <1>2, <1>3, <1>4, <1>5, <1>6, <1>7
    DEF Next, vars, InviteMember, ScimDeprovision, ScimProvision, OnboardingRole

\* Every step that takes the last owner away is a race or makes no check.
LEMMA OwnersStep == IInv /\ [Next]_vars => OwnerlessExplained'
  <1> SUFFICES ASSUME IInv, [Next]_vars, ~raced', ~bypassed' PROVE ActiveOwners' # {}
    BY DEF OwnerlessExplained
  <1>t. TypeOK /\ OwnerlessExplained
    BY DEF IInv
  <1>1. ASSUME NEW x \in Txns, UpdateMembership(x)
        PROVE  ActiveOwners' # {}
    <2>1. ActiveOwners # {}
      BY <1>1, <1>t DEF TypeOK, OwnerlessExplained, UpdateMembership
    <2>2. CASE ActiveOwners' = ActiveOwners
      BY <2>1, <2>2
    <2>3. CASE ActiveOwners' # ActiveOwners /\ target[x] \in ActiveOwners
      <3>1. target[x] \in seen[x] /\ seen[x] \subseteq ActiveOwners
        BY <1>1, <2>3 DEF UpdateMembership
      <3>2. PICK v \in seen[x] : v # target[x]
        BY <3>1 DEF IInv, CountedTwo
      <3>3. v \in ActiveOwners'
        BY <1>1, <1>t, <3>1, <3>2 DEF TypeOK, ActiveOwners, UpdateMembership
      <3>q. QED  BY <3>3
    <2>4. CASE target[x] \notin ActiveOwners
      BY <1>1, <1>t, <2>1, <2>4 DEF TypeOK, ActiveOwners, UpdateMembership
    <2>q. QED  BY <2>2, <2>3, <2>4
  <1>2. ASSUME NEW x \in Txns, NEW key \in Roles, AcceptInvitation(x, key)
        PROVE  ActiveOwners' # {}
    BY <1>2, <1>t DEF TypeOK, OwnerlessExplained, AcceptInvitation
  <1>3. ASSUME NEW u \in Users,
               ScimDeprovision(u) \/ ScimProvision(u) \/ \E r \in Roles : OnboardingRole(u, r)
        PROVE  ActiveOwners' # {}
    <2>1. ~raced /\ ~bypassed
      <3>1. CASE ScimDeprovision(u)
        BY <1>t, <3>1 DEF TypeOK, ScimDeprovision
      <3>2. CASE ScimProvision(u)
        BY <1>t, <3>2 DEF TypeOK, ScimProvision, history
      <3>3. CASE \E r \in Roles : OnboardingRole(u, r)
        BY <1>t, <3>3 DEF TypeOK, OnboardingRole
      <3>q. QED  BY <1>3, <3>1, <3>2, <3>3
    <2>2. ActiveOwners # {}
      BY <1>t, <2>1 DEF OwnerlessExplained
    <2>3. CASE ScimDeprovision(u)
      <3>1. u \notin ActiveOwners
        BY <2>3 DEF ScimDeprovision
      <3>q. QED  BY <1>t, <2>2, <2>3, <3>1 DEF TypeOK, ActiveOwners, ScimDeprovision
    <2>4. CASE ScimProvision(u)
      BY <1>t, <2>2, <2>4 DEF TypeOK, ActiveOwners, ScimProvision
    <2>5. ASSUME NEW r \in Roles, OnboardingRole(u, r)
          PROVE  ActiveOwners' # {}
      <3>1. u \notin ActiveOwners \/ r = "owner"
        BY <2>5 DEF OnboardingRole
      <3>q. QED  BY <1>t, <2>2, <2>5, <3>1 DEF TypeOK, ActiveOwners, OnboardingRole
    <2>q. QED  BY <1>3, <2>3, <2>4, <2>5
  <1>4. CASE UNCHANGED <<role, status, raced, bypassed>>
    BY <1>4, <1>t DEF OwnerlessExplained, ActiveOwners
  <1>q. QED
    BY <1>1, <1>2, <1>3, <1>4
    DEF Next, vars, ChangeMemberRole, RemoveMember, EnsureNotLastOwner, ActiveOwnerCount,
        AcceptRead, InviteMember, memberships, history

-----------------------------------------------------------------------------
(* Theorems *)

\* The inductive invariant holds in every reachable state.
THEOREM Invariance == Spec => []IInv
  <1>1. IInv /\ [Next]_vars => IInv'
    BY TypeStep, RequestsStep, OwnersStep DEF IInv
  <1>q. QED  BY <1>1, InitIInv, PTL DEF Spec

\* Memberships, invitations and requests keep their types: an accepted
\* invitation writes the key of its role and never a custom role's missing one.
THEOREM TypeCorrect == Spec => []TypeOK
  <1>1. IInv => TypeOK  BY DEF IInv
  <1>q. QED  BY <1>1, Invariance, PTL

\* ensure_not_last_owner is enough but for the races and the writes that make no
\* check: only through one of them is an organization without an owner.
THEOREM LastOwnerLossExplained == Spec => []OwnerlessExplained
  <1>1. IInv => OwnerlessExplained  BY DEF IInv
  <1>q. QED  BY <1>1, Invariance, PTL

=============================================================================
