--------------------------- MODULE SessionsProofs ---------------------------
(***************************************************************************)
(* Theorems about Sessions for every set of sessions, tokens, concurrent   *)
(* requests and organizations: types, one usable token per session, closed *)
(* revoked sessions, reuse that ends the session, and no live session of a *)
(* member who left.                                                        *)
(***************************************************************************)
EXTENDS Sessions, TLAPS

(* The parts of the inductive invariant. *)

\* A row has one holder.
LocksExclusive ==
    \A x, y \in Txns : \A r \in Rows : r \in held[x] /\ r \in held[y] => x = y

\* Nothing is left of a request that has ended.
IdleIsClean ==
    \A x \in Txns : pc[x] = "idle" =>
        /\ token[x] = NoToken
        /\ org[x] = NoOrg
        /\ held[x] = {}
        /\ families[x] = {}
        /\ kill[x] = {}
        /\ status[x] = "same"

\* Only a change of status carries a membership to its commit.
MembershipWrites ==
    \A x \in Txns :
        /\ pc[x] \in {"login", "switch"} => org[x] \in Orgs /\ status[x] = "same"
        /\ pc[x] \notin {"login", "switch"} => (org[x] \in Orgs <=> status[x] # "same")

\* A token belongs to a session that was created.
TokensHaveSessions ==
    \A t \in Tokens : family[t] \in SessionIds => session[family[t]] # "none"

\* What a rotation read under its locks stays true until it commits.
RotationsSound ==
    \A x \in Txns :
        /\ pc[x] \in {"session", "membership", "issue"} =>
              token[x] \in Tokens /\ token[x] \notin rotated \cup revoked
        /\ pc[x] \in {"membership", "issue"} =>
              family[token[x]] \in held[x] /\ session[family[token[x]]] = "live"
        /\ token[x] \in Tokens =>
              /\ token[x] \in held[x]
              /\ family[token[x]] \in SessionIds
              /\ status[x] = "same"
              /\ pc[x] \in {"session", "membership", "issue", "family", "tokens", "commit"}

\* A request revokes at its commit live sessions and tokens it has locked.
RevocationsSound ==
    \A x \in Txns :
        /\ pc[x] = "switch" => current[x] \in SessionIds /\ session[current[x]] # "none"
        /\ pc[x] = "tokens" => current[x] \in SessionIds
        /\ pc[x] = "commit" => families[x] = {}
        /\ kill[x] \subseteq held[x]
        /\ \A s \in SessionIds : s \in kill[x] => session[s] = "live"

\* A refresh that revokes its family has the session before it, at hand, or
\* behind it.
FamilyUnderWay ==
    \A x \in Txns : token[x] \in Tokens =>
        /\ pc[x] = "family" => families[x] = {family[token[x]]}
        /\ pc[x] = "tokens" => families[x] = {} /\ current[x] = family[token[x]]
        /\ pc[x] = "commit" =>
              family[token[x]] \in kill[x] \/ session[family[token[x]]] = "revoked"

\* A request that ends a membership reaches every live session of it that did
\* not come late.
LeaversUnderWay ==
    \A x \in Txns : status[x] # "same" =>
        \A s \in SessionIds : session[s] = "live" /\ org_id[s] = org[x] =>
            \/ s \in late
            \/ s \in kill[x]
            \/ s \in families[x]
            \/ pc[x] = "tokens" /\ current[x] = s
            \/ pc[x] \in {"select", "scim"}

IInv ==
    /\ TypeOK
    /\ LocksExclusive
    /\ IdleIsClean
    /\ MembershipWrites
    /\ TokensHaveSessions
    /\ RotationsSound
    /\ RevocationsSound
    /\ FamilyUnderWay
    /\ LeaversUnderWay
    /\ OneUsableToken
    /\ ReuseEndsSession
    /\ InactiveMemberHasNoSession

-----------------------------------------------------------------------------
(* Steps *)

\* LoginRead keeps the invariant.
LEMMA LoginReadStep ==
    ASSUME IInv, NEW x \in Txns, NEW o \in Orgs, LoginRead(x, o)
    PROVE  IInv'
  <1>1. TypeOK'
    BY DEF IInv, Goto, LoginRead, TypeOK, database, history
  <1>2. IdleIsClean'
    BY DEF IInv, Goto, IdleIsClean, LoginRead, TypeOK
  <1>3. MembershipWrites'
    BY DEF IInv, Goto, LoginRead, MembershipWrites, TypeOK, IdleIsClean
  <1>4. RotationsSound'
    BY DEF IInv, Goto, LoginRead, RotationsSound, TypeOK, database
  <1>5. RevocationsSound'
    BY DEF IInv, Goto, LoginRead, RevocationsSound, TypeOK, database
  <1>6. FamilyUnderWay'
    BY DEF IInv, FamilyUnderWay, Goto, LoginRead, TypeOK, database
  <1>7. LeaversUnderWay'
    BY DEF IInv, Goto, LeaversUnderWay, LoginRead, TypeOK, database, history, IdleIsClean
  <1>8. /\ LocksExclusive'
         /\ TokensHaveSessions'
         /\ OneUsableToken'
         /\ ReuseEndsSession'
         /\ InactiveMemberHasNoSession'
    BY DEF IInv, LocksExclusive, TokensHaveSessions, OneUsableToken, ReuseEndsSession,
       InactiveMemberHasNoSession, LoginRead, database, history, FamilyOf, Live
  <1>q. QED  BY <1>1, <1>2, <1>3, <1>4, <1>5, <1>6, <1>7, <1>8 DEF IInv

\* LoginCommit keeps the invariant.
LEMMA LoginCommitStep ==
    ASSUME IInv, NEW x \in Txns, NEW s \in SessionIds, NEW t \in Tokens, LoginCommit(x, s, t)
    PROVE  IInv'
  <1>1. TypeOK'
    BY SessionsAssumption DEF IInv, End, LoginCommit, TypeOK, MembershipWrites
  <1>2. LocksExclusive'
    BY DEF IInv, End, LocksExclusive, LoginCommit, TypeOK
  <1>3. IdleIsClean'
    BY DEF IInv, End, IdleIsClean, LoginCommit, TypeOK
  <1>4. MembershipWrites'
    BY SessionsAssumption DEF IInv, End, LoginCommit, MembershipWrites, TypeOK
  <1>5. TokensHaveSessions'
    BY DEF IInv, LoginCommit, TokensHaveSessions, TypeOK
  <1>6. RotationsSound'
    BY SessionsAssumption DEF IInv, End, LoginCommit, RotationsSound, TypeOK
  <1>7. RevocationsSound'
    BY DEF IInv, End, LoginCommit, RevocationsSound, TypeOK
  <1>8. FamilyUnderWay'
    BY SessionsAssumption DEF IInv, End, FamilyUnderWay, LoginCommit, TypeOK, RotationsSound
  <1>9. LeaversUnderWay'
    BY DEF IInv, End, LeaversUnderWay, Leaving, LoginCommit, TypeOK
  <1>10. OneUsableToken'
    BY DEF IInv, FamilyOf, LoginCommit, OneUsableToken, TypeOK, TokensHaveSessions
  <1>11. ReuseEndsSession'
    BY DEF IInv, LoginCommit, ReuseEndsSession, TypeOK
  <1>12. InactiveMemberHasNoSession'
    BY DEF IInv, InactiveMemberHasNoSession, Leaving, Live, LoginCommit, TypeOK
  <1>q. QED  BY <1>1, <1>2, <1>3, <1>4, <1>5, <1>6, <1>7, <1>8, <1>9, <1>10, <1>11, <1>12
             DEF IInv

\* SwitchRead keeps the invariant.
LEMMA SwitchReadStep ==
    ASSUME IInv, NEW x \in Txns, NEW s \in SessionIds, NEW o \in Orgs, SwitchRead(x, s, o)
    PROVE  IInv'
  <1>1. TypeOK'
    BY DEF IInv, Goto, SwitchRead, TypeOK, database, history
  <1>2. IdleIsClean'
    BY DEF IInv, Goto, IdleIsClean, SwitchRead, TypeOK
  <1>3. MembershipWrites'
    BY DEF IInv, Goto, MembershipWrites, SwitchRead, TypeOK, IdleIsClean
  <1>4. RotationsSound'
    BY DEF IInv, Goto, RotationsSound, SwitchRead, TypeOK, database
  <1>5. RevocationsSound'
    BY DEF IInv, Goto, RevocationsSound, SwitchRead, TypeOK, database
  <1>6. FamilyUnderWay'
    BY DEF IInv, FamilyUnderWay, Goto, SwitchRead, TypeOK, database
  <1>7. LeaversUnderWay'
    BY DEF IInv, Goto, LeaversUnderWay, SwitchRead, TypeOK, database, history, IdleIsClean
  <1>8. /\ LocksExclusive'
         /\ TokensHaveSessions'
         /\ OneUsableToken'
         /\ ReuseEndsSession'
         /\ InactiveMemberHasNoSession'
    BY DEF IInv, LocksExclusive, TokensHaveSessions, OneUsableToken, ReuseEndsSession,
       InactiveMemberHasNoSession, SwitchRead, database, history, FamilyOf, Live
  <1>q. QED  BY <1>1, <1>2, <1>3, <1>4, <1>5, <1>6, <1>7, <1>8 DEF IInv

\* SwitchCommit keeps the invariant.
LEMMA SwitchCommitStep ==
    ASSUME IInv, NEW x \in Txns, SwitchCommit(x)
    PROVE  IInv'
  <1>1. TypeOK'
    BY SessionsAssumption DEF IInv, End, SwitchCommit, TypeOK, MembershipWrites,
       RevocationsSound
  <1>2. LocksExclusive'
    BY DEF IInv, End, LocksExclusive, SwitchCommit, TypeOK
  <1>3. IdleIsClean'
    BY DEF IInv, End, IdleIsClean, SwitchCommit, TypeOK
  <1>4. MembershipWrites'
    BY SessionsAssumption DEF IInv, End, MembershipWrites, SwitchCommit, TypeOK
  <1>5. RotationsSound'
    BY DEF IInv, End, RotationsSound, SwitchCommit, TypeOK
  <1>6. RevocationsSound'
    BY DEF IInv, End, RevocationsSound, SwitchCommit, TypeOK
  <1>7. FamilyUnderWay'
    BY DEF IInv, End, FamilyUnderWay, SwitchCommit, TypeOK
  <1>8. LeaversUnderWay'
    BY DEF IInv, End, LeaversUnderWay, Leaving, SwitchCommit, TypeOK
  <1>9. InactiveMemberHasNoSession'
    BY DEF IInv, InactiveMemberHasNoSession, Leaving, Live, SwitchCommit, TypeOK
  <1>10. /\ TokensHaveSessions'
         /\ OneUsableToken'
         /\ ReuseEndsSession'
    BY DEF IInv, TokensHaveSessions, OneUsableToken, ReuseEndsSession, SwitchCommit,
       FamilyOf
  <1>q. QED  BY <1>1, <1>2, <1>3, <1>4, <1>5, <1>6, <1>7, <1>8, <1>9, <1>10 DEF IInv

\* RotateToken keeps the invariant.
LEMMA RotateTokenStep ==
    ASSUME IInv, NEW x \in Txns, NEW t \in Tokens, RotateToken(x, t)
    PROVE  IInv'
  <1>1. TypeOK'
    BY SessionsAssumption DEF IInv, Free, Goto, Lock, RotateToken, Rows, TypeOK, database,
       history, RevocationsSound, RotationsSound, IdleIsClean
  <1>2. LocksExclusive'
    BY DEF IInv, Free, Lock, LocksExclusive, RotateToken, TypeOK
  <1>3. IdleIsClean'
    BY DEF IInv, Goto, IdleIsClean, Lock, RotateToken, TypeOK
  <1>4. MembershipWrites'
    BY DEF IInv, Goto, MembershipWrites, RotateToken, TypeOK
  <1>5. RotationsSound'
    BY DEF IInv, Goto, Lock, RotateToken, RotationsSound, TypeOK, database, IdleIsClean
  <1>6. RevocationsSound'
    BY DEF IInv, Goto, Lock, RevocationsSound, RotateToken, TypeOK, database
  <1>7. FamilyUnderWay'
    BY DEF IInv, FamilyUnderWay, Goto, RotateToken, TypeOK, database
  <1>8. LeaversUnderWay'
    BY DEF IInv, Goto, LeaversUnderWay, Lock, RotateToken, TypeOK, database, history,
       IdleIsClean
  <1>9. /\ TokensHaveSessions'
         /\ OneUsableToken'
         /\ ReuseEndsSession'
         /\ InactiveMemberHasNoSession'
    BY DEF IInv, TokensHaveSessions, OneUsableToken, ReuseEndsSession,
       InactiveMemberHasNoSession, RotateToken, database, history, FamilyOf, Live
  <1>q. QED  BY <1>1, <1>2, <1>3, <1>4, <1>5, <1>6, <1>7, <1>8, <1>9 DEF IInv

\* RotateSession keeps the invariant.
LEMMA RotateSessionStep ==
    ASSUME IInv, NEW x \in Txns, RotateSession(x)
    PROVE  IInv'
  <1>1. TypeOK'
    <2>1. CASE session[family[token[x]]] = "live"
      BY <2>1, SessionsAssumption DEF IInv, TypeOK, RotateSession, End, Live, Lock, Goto,
         Rows, RotationsSound, database, history
    <2>2. CASE session[family[token[x]]] # "live"
      <3>1. End(x) /\ UNCHANGED <<database, history>>
        BY <2>2 DEF RotateSession, Live
      <3>q. QED  BY <3>1 DEF IInv, TypeOK, End, database, history
    <2>q. QED  BY <2>1, <2>2
  <1>2. LocksExclusive'
    BY SessionsAssumption DEF IInv, End, Free, Goto, Live, Lock, LocksExclusive,
       RotateSession, Rows, TypeOK, database, history
  <1>3. IdleIsClean'
    BY DEF IInv, End, Goto, IdleIsClean, Lock, RotateSession, TypeOK
  <1>4. MembershipWrites'
    BY SessionsAssumption DEF IInv, End, Free, Goto, MembershipWrites, RotateSession, TypeOK
  <1>5. RotationsSound'
    BY SessionsAssumption DEF IInv, End, Free, Goto, Live, Lock, RotateSession,
       RotationsSound, TypeOK, database
  <1>6. RevocationsSound'
    <2>1. CASE session[family[token[x]]] = "live"
      BY <2>1 DEF IInv, Free, Goto, Live, Lock, RevocationsSound, RotateSession, TypeOK,
         database
    <2>2. CASE session[family[token[x]]] # "live"
      BY <2>2, SessionsAssumption DEF IInv, End, Free, Goto, Live, Lock, RevocationsSound,
         RotateSession, Rows, TypeOK, database, history, LocksExclusive, RotationsSound,
         IdleIsClean, TokensHaveSessions
    <2>q. QED  BY <2>1, <2>2
  <1>7. FamilyUnderWay'
    BY DEF IInv, End, FamilyUnderWay, Goto, RotateSession, TypeOK, database
  <1>8. LeaversUnderWay'
    BY SessionsAssumption DEF IInv, End, Free, Goto, LeaversUnderWay, Live, Lock,
       RotateSession, Rows, TypeOK, database, history, RotationsSound, MembershipWrites,
       RevocationsSound, IdleIsClean
  <1>9. /\ TokensHaveSessions'
         /\ OneUsableToken'
         /\ ReuseEndsSession'
         /\ InactiveMemberHasNoSession'
    BY DEF IInv, TokensHaveSessions, OneUsableToken, ReuseEndsSession,
       InactiveMemberHasNoSession, RotateSession, Live, database, history, FamilyOf
  <1>q. QED  BY <1>1, <1>2, <1>3, <1>4, <1>5, <1>6, <1>7, <1>8, <1>9 DEF IInv

\* RotateMembership keeps the invariant.
LEMMA RotateMembershipStep ==
    ASSUME IInv, NEW x \in Txns, RotateMembership(x)
    PROVE  IInv'
  <1>1. TypeOK'
    BY SessionsAssumption DEF IInv, Goto, RotateMembership, Rows, TypeOK, database, history,
       MembershipWrites, RevocationsSound, RotationsSound, IdleIsClean
  <1>2. IdleIsClean'
    BY DEF IInv, Goto, IdleIsClean, RotateMembership, TypeOK
  <1>3. MembershipWrites'
    BY DEF IInv, Goto, MembershipWrites, RotateMembership, TypeOK
  <1>4. RotationsSound'
    BY DEF IInv, Goto, RotateMembership, RotationsSound, TypeOK, database
  <1>5. RevocationsSound'
    BY DEF IInv, Goto, RevocationsSound, RotateMembership, TypeOK, database
  <1>6. FamilyUnderWay'
    BY DEF IInv, FamilyUnderWay, Goto, RotateMembership, TypeOK, database
  <1>7. LeaversUnderWay'
    BY DEF IInv, Goto, LeaversUnderWay, RotateMembership, TypeOK, database, history,
       RotationsSound
  <1>8. /\ LocksExclusive'
         /\ TokensHaveSessions'
         /\ OneUsableToken'
         /\ ReuseEndsSession'
         /\ InactiveMemberHasNoSession'
    BY DEF IInv, LocksExclusive, TokensHaveSessions, OneUsableToken, ReuseEndsSession,
       InactiveMemberHasNoSession, RotateMembership, database, history, FamilyOf, Live
  <1>q. QED  BY <1>1, <1>2, <1>3, <1>4, <1>5, <1>6, <1>7, <1>8 DEF IInv

\* RotateCommit keeps the invariant.
LEMMA RotateCommitStep ==
    ASSUME IInv, NEW x \in Txns, NEW t \in Tokens, RotateCommit(x, t)
    PROVE  IInv'
  <1>1. TypeOK'
    BY DEF IInv, End, RotateCommit, TypeOK, RotationsSound
  <1>2. LocksExclusive'
    BY DEF IInv, End, LocksExclusive, RotateCommit, TypeOK
  <1>3. IdleIsClean'
    BY DEF IInv, End, IdleIsClean, RotateCommit, TypeOK
  <1>4. MembershipWrites'
    BY SessionsAssumption DEF IInv, End, MembershipWrites, RotateCommit, TypeOK
  <1>5. TokensHaveSessions'
    BY DEF IInv, RotateCommit, TokensHaveSessions, TypeOK, RotationsSound
  <1>6. RotationsSound'
    BY SessionsAssumption DEF IInv, End, RotateCommit, RotationsSound, TypeOK,
       LocksExclusive
  <1>7. RevocationsSound'
    BY DEF IInv, End, RevocationsSound, RotateCommit, TypeOK
  <1>8. FamilyUnderWay'
    BY SessionsAssumption DEF IInv, End, FamilyUnderWay, RotateCommit, TypeOK,
       RotationsSound
  <1>9. LeaversUnderWay'
    BY DEF IInv, End, LeaversUnderWay, RotateCommit, TypeOK
  <1>10. OneUsableToken'
    BY DEF IInv, FamilyOf, OneUsableToken, RotateCommit, TypeOK, RotationsSound
  <1>11. /\ ReuseEndsSession'
         /\ InactiveMemberHasNoSession'
    BY DEF IInv, ReuseEndsSession, InactiveMemberHasNoSession, RotateCommit, Live
  <1>q. QED  BY <1>1, <1>2, <1>3, <1>4, <1>5, <1>6, <1>7, <1>8, <1>9, <1>10, <1>11 DEF IInv

\* RevokeSession keeps the invariant.
LEMMA RevokeSessionStep ==
    ASSUME IInv, NEW x \in Txns, NEW s \in SessionIds, RevokeSession(x, s)
    PROVE  IInv'
  <1>1. TypeOK'
    BY DEF IInv, Goto, RevokeSession, TypeOK, database, history
  <1>2. IdleIsClean'
    BY DEF IInv, Goto, IdleIsClean, RevokeSession, TypeOK
  <1>3. MembershipWrites'
    BY DEF IInv, Goto, MembershipWrites, RevokeSession, TypeOK
  <1>4. RotationsSound'
    BY DEF IInv, Goto, RevokeSession, RotationsSound, TypeOK, database
  <1>5. RevocationsSound'
    BY DEF IInv, Goto, RevocationsSound, RevokeSession, TypeOK, database
  <1>6. FamilyUnderWay'
    BY SessionsAssumption DEF IInv, FamilyUnderWay, Goto, RevokeSession, TypeOK, database,
       IdleIsClean
  <1>7. LeaversUnderWay'
    BY DEF IInv, Goto, LeaversUnderWay, RevokeSession, TypeOK, database, history,
       IdleIsClean
  <1>8. /\ LocksExclusive'
         /\ TokensHaveSessions'
         /\ OneUsableToken'
         /\ ReuseEndsSession'
         /\ InactiveMemberHasNoSession'
    BY DEF IInv, LocksExclusive, TokensHaveSessions, OneUsableToken, ReuseEndsSession,
       InactiveMemberHasNoSession, RevokeSession, Live, database, history, FamilyOf
  <1>q. QED  BY <1>1, <1>2, <1>3, <1>4, <1>5, <1>6, <1>7, <1>8 DEF IInv

\* RevokeAllSessions keeps the invariant.
LEMMA RevokeAllSessionsStep ==
    ASSUME IInv, NEW x \in Txns, RevokeAllSessions(x)
    PROVE  IInv'
  <1>1. TypeOK'
    BY DEF IInv, Goto, RevokeAllSessions, TypeOK, database, history
  <1>2. IdleIsClean'
    BY DEF IInv, Goto, IdleIsClean, RevokeAllSessions, TypeOK
  <1>3. MembershipWrites'
    BY DEF IInv, Goto, MembershipWrites, RevokeAllSessions, TypeOK
  <1>4. RotationsSound'
    BY DEF IInv, Goto, RevokeAllSessions, RotationsSound, TypeOK, database
  <1>5. RevocationsSound'
    BY DEF IInv, Goto, RevocationsSound, RevokeAllSessions, TypeOK, database
  <1>6. FamilyUnderWay'
    BY SessionsAssumption DEF IInv, FamilyUnderWay, Goto, RevokeAllSessions, TypeOK,
       database, IdleIsClean
  <1>7. LeaversUnderWay'
    BY DEF IInv, Goto, LeaversUnderWay, RevokeAllSessions, TypeOK, database, history,
       IdleIsClean
  <1>8. /\ LocksExclusive'
         /\ TokensHaveSessions'
         /\ OneUsableToken'
         /\ ReuseEndsSession'
         /\ InactiveMemberHasNoSession'
    BY DEF IInv, LocksExclusive, TokensHaveSessions, OneUsableToken, ReuseEndsSession,
       InactiveMemberHasNoSession, RevokeAllSessions, Live, database, history, FamilyOf
  <1>q. QED  BY <1>1, <1>2, <1>3, <1>4, <1>5, <1>6, <1>7, <1>8 DEF IInv

\* UpdateMembership keeps the invariant.
LEMMA UpdateMembershipStep ==
    ASSUME IInv, NEW x \in Txns, NEW o \in Orgs, NEW new \in {"suspended", "revoked"},
           UpdateMembership(x, o, new)
    PROVE  IInv'
  <1>1. TypeOK'
    BY DEF IInv, Goto, Lock, Rows, TypeOK, UpdateMembership, database, history
  <1>2. LocksExclusive'
    BY DEF IInv, Free, Lock, LocksExclusive, TypeOK, UpdateMembership
  <1>3. IdleIsClean'
    BY DEF IInv, Goto, IdleIsClean, Lock, TypeOK, UpdateMembership
  <1>4. MembershipWrites'
    BY DEF IInv, Goto, MembershipWrites, TypeOK, UpdateMembership
  <1>5. RotationsSound'
    BY DEF IInv, Goto, Lock, RotationsSound, TypeOK, UpdateMembership, database
  <1>6. RevocationsSound'
    BY DEF IInv, Goto, Lock, RevocationsSound, TypeOK, UpdateMembership, database
  <1>7. FamilyUnderWay'
    BY DEF IInv, FamilyUnderWay, Goto, TypeOK, UpdateMembership, database
  <1>8. LeaversUnderWay'
    BY DEF IInv, Goto, LeaversUnderWay, TypeOK, UpdateMembership, database, history
  <1>9. /\ TokensHaveSessions'
         /\ OneUsableToken'
         /\ ReuseEndsSession'
         /\ InactiveMemberHasNoSession'
    BY DEF IInv, TokensHaveSessions, OneUsableToken, ReuseEndsSession,
       InactiveMemberHasNoSession, UpdateMembership, database, history, FamilyOf, Live
  <1>q. QED  BY <1>1, <1>2, <1>3, <1>4, <1>5, <1>6, <1>7, <1>8, <1>9 DEF IInv

\* RevokeOrgUserSessions keeps the invariant.
LEMMA RevokeOrgUserSessionsStep ==
    ASSUME IInv, NEW x \in Txns, RevokeOrgUserSessions(x)
    PROVE  IInv'
  <1>1. TypeOK'
    BY DEF IInv, Goto, RevokeOrgUserSessions, SessionsOf, TypeOK, database, history
  <1>2. IdleIsClean'
    BY DEF IInv, Goto, IdleIsClean, RevokeOrgUserSessions, TypeOK
  <1>3. MembershipWrites'
    BY DEF IInv, Goto, MembershipWrites, RevokeOrgUserSessions, TypeOK
  <1>4. RotationsSound'
    BY DEF IInv, Goto, RevokeOrgUserSessions, RotationsSound, TypeOK, database
  <1>5. RevocationsSound'
    BY DEF IInv, Goto, RevocationsSound, RevokeOrgUserSessions, TypeOK, database
  <1>6. FamilyUnderWay'
    BY DEF IInv, FamilyUnderWay, Goto, RevokeOrgUserSessions, TypeOK, database,
       RotationsSound
  <1>7. LeaversUnderWay'
    BY DEF IInv, Goto, LeaversUnderWay, Live, RevokeOrgUserSessions, SessionsOf, TypeOK,
       database, history
  <1>8. /\ LocksExclusive'
         /\ TokensHaveSessions'
         /\ OneUsableToken'
         /\ ReuseEndsSession'
         /\ InactiveMemberHasNoSession'
    BY DEF IInv, LocksExclusive, TokensHaveSessions, OneUsableToken, ReuseEndsSession,
       InactiveMemberHasNoSession, RevokeOrgUserSessions, Live, database, history, FamilyOf
  <1>q. QED  BY <1>1, <1>2, <1>3, <1>4, <1>5, <1>6, <1>7, <1>8 DEF IInv

\* RevokeFamily keeps the invariant.
LEMMA RevokeFamilyStep ==
    ASSUME IInv, NEW x \in Txns, NEW s \in SessionIds, RevokeFamily(x, s)
    PROVE  IInv'
  <1>1. TypeOK'
    BY DEF IInv, FamilyOf, Goto, RevokeFamily, TypeOK, database, history
  <1>2. IdleIsClean'
    BY DEF IInv, Goto, IdleIsClean, RevokeFamily, TypeOK
  <1>3. MembershipWrites'
    BY DEF IInv, Goto, MembershipWrites, RevokeFamily, TypeOK
  <1>4. RotationsSound'
    BY DEF IInv, Goto, RevokeFamily, RotationsSound, TypeOK, database
  <1>5. RevocationsSound'
    BY DEF IInv, Goto, RevocationsSound, RevokeFamily, TypeOK, database
  <1>6. FamilyUnderWay'
    BY DEF IInv, FamilyUnderWay, Goto, RevokeFamily, TypeOK, database
  <1>7. LeaversUnderWay'
    BY DEF IInv, Goto, LeaversUnderWay, RevokeFamily, TypeOK, database, history
  <1>8. /\ LocksExclusive'
         /\ TokensHaveSessions'
         /\ OneUsableToken'
         /\ ReuseEndsSession'
         /\ InactiveMemberHasNoSession'
    BY DEF IInv, LocksExclusive, TokensHaveSessions, OneUsableToken, ReuseEndsSession,
       InactiveMemberHasNoSession, RevokeFamily, FamilyOf, database, history, Live
  <1>q. QED  BY <1>1, <1>2, <1>3, <1>4, <1>5, <1>6, <1>7, <1>8 DEF IInv

\* RevokeToken keeps the invariant.
LEMMA RevokeTokenStep ==
    ASSUME IInv, NEW x \in Txns, NEW t \in Tokens, RevokeToken(x, t)
    PROVE  IInv'
  <1>1. TypeOK'
    <2>1. CASE t \in revoked
      BY <2>1 DEF IInv, RevokeToken, TypeOK, database, history
    <2>2. CASE t \notin revoked
      BY <2>2 DEF IInv, Free, Lock, RevokeToken, Rows, TypeOK, database, history,
         MembershipWrites, RevocationsSound
    <2>q. QED  BY <2>1, <2>2
  <1>2. LocksExclusive'
    BY SessionsAssumption DEF IInv, Free, Lock, LocksExclusive, RevokeToken, Rows, TypeOK,
       database, history
  <1>3. IdleIsClean'
    BY DEF IInv, IdleIsClean, Lock, RevokeToken, TypeOK
  <1>4. RotationsSound'
    <2>1. CASE t \in revoked
      BY <2>1 DEF IInv, RevokeToken, RotationsSound, TypeOK, database
    <2>2. CASE t \notin revoked
      <3>1. held' = [held EXCEPT ![x] = @ \cup {t}]
        BY <2>2 DEF Lock, RevokeToken
      <3>q. QED  BY <3>1 DEF IInv, RevokeToken, RotationsSound, TypeOK, database
    <2>q. QED  BY <2>1, <2>2
  <1>5. RevocationsSound'
    <2>1. CASE t \in revoked
      BY <2>1 DEF IInv, RevocationsSound, RevokeToken, TypeOK, database
    <2>2. CASE t \notin revoked
      <3>1. held' = [held EXCEPT ![x] = @ \cup {t}] /\ kill' = [kill EXCEPT ![x] = @ \cup {t}]
        BY <2>2 DEF Lock, RevokeToken
      <3>q. QED
        BY <3>1, SessionsAssumption DEF IInv, RevocationsSound, RevokeToken, TypeOK, database
    <2>q. QED  BY <2>1, <2>2
  <1>6. FamilyUnderWay'
    BY DEF IInv, FamilyUnderWay, RevokeToken, TypeOK, database
  <1>7. LeaversUnderWay'
    BY DEF IInv, LeaversUnderWay, RevokeToken, TypeOK, database, history
  <1>8. /\ MembershipWrites'
         /\ TokensHaveSessions'
         /\ OneUsableToken'
         /\ ReuseEndsSession'
         /\ InactiveMemberHasNoSession'
    BY DEF IInv, MembershipWrites, TokensHaveSessions, OneUsableToken, ReuseEndsSession,
       InactiveMemberHasNoSession, RevokeToken, database, history, FamilyOf, Live
  <1>q. QED  BY <1>1, <1>2, <1>3, <1>4, <1>5, <1>6, <1>7, <1>8 DEF IInv

\* RevokeSessionRow keeps the invariant.
LEMMA RevokeSessionRowStep ==
    ASSUME IInv, NEW x \in Txns, RevokeSessionRow(x)
    PROVE  IInv'
  <1>1. TypeOK'
    BY DEF IInv, Goto, Live, Lock, RevokeSessionRow, Rows, TypeOK, database, history,
       RevocationsSound
  <1>2. LocksExclusive'
    BY DEF IInv, Free, Goto, Lock, LocksExclusive, RevokeSessionRow, TypeOK
  <1>3. IdleIsClean'
    BY DEF IInv, Goto, IdleIsClean, Lock, RevokeSessionRow, TypeOK
  <1>4. MembershipWrites'
    BY DEF IInv, Goto, MembershipWrites, RevokeSessionRow, TypeOK
  <1>5. RotationsSound'
    BY DEF IInv, Goto, Lock, RevokeSessionRow, RotationsSound, TypeOK, database
  <1>6. RevocationsSound'
    BY DEF IInv, Goto, Live, Lock, RevocationsSound, RevokeSessionRow, TypeOK, database
  <1>7. FamilyUnderWay'
    BY DEF IInv, FamilyUnderWay, Goto, Live, RevokeSessionRow, TypeOK, database,
       TokensHaveSessions, RevocationsSound
  <1>8. LeaversUnderWay'
    BY DEF IInv, Goto, LeaversUnderWay, Live, RevokeSessionRow, TypeOK, database, history
  <1>9. /\ TokensHaveSessions'
         /\ OneUsableToken'
         /\ ReuseEndsSession'
         /\ InactiveMemberHasNoSession'
    BY DEF IInv, TokensHaveSessions, OneUsableToken, ReuseEndsSession,
       InactiveMemberHasNoSession, RevokeSessionRow, Live, database, history, FamilyOf
  <1>q. QED  BY <1>1, <1>2, <1>3, <1>4, <1>5, <1>6, <1>7, <1>8, <1>9 DEF IInv

\* Commit keeps the invariant.
LEMMA CommitStep ==
    ASSUME IInv, NEW x \in Txns, Commit(x)
    PROVE  IInv'
  <1>1. TypeOK'
    BY SessionsAssumption DEF IInv, Commit, End, Rows, TypeOK, database, history,
       MembershipWrites, RevocationsSound, RotationsSound, IdleIsClean
  <1>2. LocksExclusive'
    BY DEF IInv, Commit, End, LocksExclusive, TypeOK
  <1>3. IdleIsClean'
    BY DEF IInv, Commit, End, IdleIsClean, TypeOK
  <1>4. MembershipWrites'
    BY SessionsAssumption DEF IInv, Commit, End, MembershipWrites, TypeOK
  <1>5. TokensHaveSessions'
    BY DEF IInv, Commit, TokensHaveSessions, TypeOK
  <1>6. RotationsSound'
    BY SessionsAssumption DEF IInv, Commit, End, RotationsSound, TypeOK, LocksExclusive,
       RevocationsSound
  <1>7. RevocationsSound'
    BY DEF IInv, Commit, End, RevocationsSound, TypeOK, LocksExclusive
  <1>8. FamilyUnderWay'
    BY DEF IInv, Commit, End, FamilyUnderWay, TypeOK, RotationsSound
  <1>9. LeaversUnderWay'
    BY DEF IInv, Commit, End, LeaversUnderWay, TypeOK
  <1>10. OneUsableToken'
    BY DEF IInv, Commit, FamilyOf, OneUsableToken, TypeOK
  <1>11. ReuseEndsSession'
    BY DEF IInv, Commit, ReuseEndsSession, TypeOK, FamilyUnderWay, RotationsSound
  <1>12. InactiveMemberHasNoSession'
    <2>1. SUFFICES ASSUME NEW s \in SessionIds,
                          session'[s] = "live", member'[org_id[s]] # "active"
                   PROVE  s \in late
      BY DEF Commit, InactiveMemberHasNoSession, Live
    <2>2. session[s] = "live" /\ s \notin kill[x] /\ org_id[s] \in Orgs
      BY <2>1 DEF IInv, TypeOK, Commit
    <2>3. CASE org_id[s] = org[x]
      BY <2>2, <2>3 DEF IInv, TypeOK, Commit, LeaversUnderWay, MembershipWrites,
         RevocationsSound
    <2>4. CASE org_id[s] # org[x]
      BY <2>1, <2>2, <2>4 DEF IInv, TypeOK, Commit, InactiveMemberHasNoSession, Live
    <2>q. QED  BY <2>3, <2>4
  <1>q. QED  BY <1>1, <1>2, <1>3, <1>4, <1>5, <1>6, <1>7, <1>8, <1>9, <1>10, <1>11, <1>12
             DEF IInv

\* ScimDeprovision keeps the invariant.
LEMMA ScimDeprovisionStep ==
    ASSUME IInv, NEW x \in Txns, NEW o \in Orgs, ScimDeprovision(x, o)
    PROVE  IInv'
  <1>1. TypeOK'
    BY DEF IInv, Goto, Lock, Rows, ScimDeprovision, TypeOK, database, history
  <1>2. LocksExclusive'
    BY DEF IInv, Free, Lock, LocksExclusive, ScimDeprovision, TypeOK
  <1>3. IdleIsClean'
    BY DEF IInv, Goto, IdleIsClean, Lock, ScimDeprovision, TypeOK
  <1>4. MembershipWrites'
    BY DEF IInv, Goto, MembershipWrites, ScimDeprovision, TypeOK
  <1>5. RotationsSound'
    BY DEF IInv, Goto, Lock, RotationsSound, ScimDeprovision, TypeOK, database
  <1>6. RevocationsSound'
    BY DEF IInv, Goto, Lock, RevocationsSound, ScimDeprovision, TypeOK, database
  <1>7. FamilyUnderWay'
    BY DEF IInv, FamilyUnderWay, Goto, ScimDeprovision, TypeOK, database
  <1>8. LeaversUnderWay'
    BY DEF IInv, Goto, LeaversUnderWay, ScimDeprovision, TypeOK, database, history
  <1>9. /\ TokensHaveSessions'
         /\ OneUsableToken'
         /\ ReuseEndsSession'
         /\ InactiveMemberHasNoSession'
    BY DEF IInv, TokensHaveSessions, OneUsableToken, ReuseEndsSession,
       InactiveMemberHasNoSession, ScimDeprovision, database, history, FamilyOf, Live
  <1>q. QED  BY <1>1, <1>2, <1>3, <1>4, <1>5, <1>6, <1>7, <1>8, <1>9 DEF IInv

\* ScimRevokeSessions keeps the invariant.
LEMMA ScimRevokeSessionsStep ==
    ASSUME IInv, NEW x \in Txns, ScimRevokeSessions(x)
    PROVE  IInv'
  <1>1. TypeOK'
    BY DEF IInv, Goto, ScimRevokeSessions, SessionsOf, TypeOK, database, history
  <1>2. IdleIsClean'
    BY DEF IInv, Goto, IdleIsClean, ScimRevokeSessions, TypeOK
  <1>3. MembershipWrites'
    BY DEF IInv, Goto, MembershipWrites, ScimRevokeSessions, TypeOK
  <1>4. RotationsSound'
    BY DEF IInv, Goto, RotationsSound, ScimRevokeSessions, TypeOK, database
  <1>5. RevocationsSound'
    BY DEF IInv, Goto, RevocationsSound, ScimRevokeSessions, TypeOK, database
  <1>6. FamilyUnderWay'
    BY DEF IInv, FamilyUnderWay, Goto, ScimRevokeSessions, TypeOK, database, RotationsSound
  <1>7. LeaversUnderWay'
    BY DEF IInv, Goto, LeaversUnderWay, Live, ScimRevokeSessions, SessionsOf, TypeOK,
       database, history
  <1>8. /\ LocksExclusive'
         /\ TokensHaveSessions'
         /\ OneUsableToken'
         /\ ReuseEndsSession'
         /\ InactiveMemberHasNoSession'
    BY DEF IInv, LocksExclusive, TokensHaveSessions, OneUsableToken, ReuseEndsSession,
       InactiveMemberHasNoSession, ScimRevokeSessions, Live, database, history, FamilyOf
  <1>q. QED  BY <1>1, <1>2, <1>3, <1>4, <1>5, <1>6, <1>7, <1>8 DEF IInv

\* ScimRevokeSession keeps the invariant.
LEMMA ScimRevokeSessionStep ==
    ASSUME IInv, NEW x \in Txns, NEW s \in SessionIds, ScimRevokeSession(x, s)
    PROVE  IInv'
  <1>1. TypeOK'
    BY SessionsAssumption DEF IInv, Free, Goto, Live, Lock, Rows, ScimRevokeSession, TypeOK,
       database, history, MembershipWrites, RevocationsSound, RotationsSound, IdleIsClean
  <1>2. LocksExclusive'
    <2>1. CASE session[s] = "live"
      BY <2>1 DEF IInv, Free, Goto, Live, Lock, LocksExclusive, ScimRevokeSession, TypeOK
    <2>2. CASE session[s] # "live"
      BY <2>2 DEF IInv, Live, LocksExclusive, ScimRevokeSession, TypeOK
    <2>q. QED  BY <2>1, <2>2
  <1>3. IdleIsClean'
    BY DEF IInv, Goto, IdleIsClean, Lock, ScimRevokeSession, TypeOK
  <1>4. MembershipWrites'
    BY DEF IInv, Goto, MembershipWrites, ScimRevokeSession, TypeOK
  <1>5. RotationsSound'
    BY DEF IInv, Goto, Lock, RotationsSound, ScimRevokeSession, TypeOK, database
  <1>6. RevocationsSound'
    BY DEF IInv, Goto, Live, Lock, RevocationsSound, ScimRevokeSession, TypeOK, database
  <1>7. FamilyUnderWay'
    BY DEF IInv, FamilyUnderWay, Goto, ScimRevokeSession, TypeOK, database, RotationsSound
  <1>8. LeaversUnderWay'
    BY DEF IInv, Goto, LeaversUnderWay, Live, ScimRevokeSession, TypeOK, database, history
  <1>9. /\ TokensHaveSessions'
         /\ OneUsableToken'
         /\ ReuseEndsSession'
         /\ InactiveMemberHasNoSession'
    BY DEF IInv, TokensHaveSessions, OneUsableToken, ReuseEndsSession,
       InactiveMemberHasNoSession, ScimRevokeSession, Live, database, history, FamilyOf
  <1>q. QED  BY <1>1, <1>2, <1>3, <1>4, <1>5, <1>6, <1>7, <1>8, <1>9 DEF IInv

\* Reactivate keeps the invariant.
LEMMA ReactivateStep ==
    ASSUME IInv, NEW x \in Txns, NEW o \in Orgs, Reactivate(x, o)
    PROVE  IInv'
  <1>1. TypeOK'
    BY DEF IInv, Reactivate, TypeOK, history
  <1>2. InactiveMemberHasNoSession'
    BY DEF IInv, InactiveMemberHasNoSession, Live, Reactivate, TypeOK, history
  <1>3. /\ LocksExclusive'
         /\ IdleIsClean'
         /\ MembershipWrites'
         /\ TokensHaveSessions'
         /\ RotationsSound'
         /\ RevocationsSound'
         /\ FamilyUnderWay'
         /\ LeaversUnderWay'
         /\ OneUsableToken'
         /\ ReuseEndsSession'
    BY DEF IInv, LocksExclusive, IdleIsClean, MembershipWrites, TokensHaveSessions,
       RotationsSound, RevocationsSound, FamilyUnderWay, LeaversUnderWay, OneUsableToken,
       ReuseEndsSession, Reactivate, history, FamilyOf
  <1>q. QED  BY <1>1, <1>2, <1>3 DEF IInv

\* Abort keeps the invariant.
LEMMA AbortStep ==
    ASSUME IInv, NEW x \in Txns, Abort(x)
    PROVE  IInv'
  <1>1. TypeOK'
    BY DEF IInv, Abort, End, TypeOK, database, history
  <1>2. LocksExclusive'
    BY DEF IInv, Abort, End, LocksExclusive, TypeOK
  <1>3. IdleIsClean'
    BY DEF IInv, Abort, End, IdleIsClean, TypeOK
  <1>4. MembershipWrites'
    BY SessionsAssumption DEF IInv, Abort, End, MembershipWrites, TypeOK
  <1>5. RotationsSound'
    BY SessionsAssumption DEF IInv, Abort, End, RotationsSound, TypeOK, database
  <1>6. RevocationsSound'
    BY DEF IInv, Abort, End, RevocationsSound, TypeOK, database
  <1>7. FamilyUnderWay'
    BY DEF IInv, Abort, End, FamilyUnderWay, TypeOK, database
  <1>8. LeaversUnderWay'
    BY DEF IInv, Abort, End, LeaversUnderWay, TypeOK, database, history
  <1>9. /\ TokensHaveSessions'
         /\ OneUsableToken'
         /\ ReuseEndsSession'
         /\ InactiveMemberHasNoSession'
    BY DEF IInv, TokensHaveSessions, OneUsableToken, ReuseEndsSession,
       InactiveMemberHasNoSession, Abort, database, history, FamilyOf, Live
  <1>q. QED  BY <1>1, <1>2, <1>3, <1>4, <1>5, <1>6, <1>7, <1>8, <1>9 DEF IInv


\* The initial states satisfy the invariant.
LEMMA InitIInv == Init => IInv
  BY SessionsAssumption DEF Init, IInv, TypeOK, LocksExclusive, IdleIsClean,
     MembershipWrites, TokensHaveSessions, RotationsSound, RevocationsSound, FamilyUnderWay,
     LeaversUnderWay, OneUsableToken, FamilyOf, ReuseEndsSession,
     InactiveMemberHasNoSession, Live

\* Every step keeps the invariant.
LEMMA NextIInv == IInv /\ [Next]_vars => IInv'
  <1> SUFFICES ASSUME IInv, [Next]_vars PROVE IInv'
    OBVIOUS
  <1>1. CASE Next
    <2>1. PICK x \in Txns :
            \/ \E o \in Orgs :
                  \/ LoginRead(x, o)
                  \/ \E s \in SessionIds : SwitchRead(x, s, o)
                  \/ \E new \in {"suspended", "revoked"} : UpdateMembership(x, o, new)
                  \/ ScimDeprovision(x, o)
                  \/ Reactivate(x, o)
            \/ \E s \in SessionIds, t \in Tokens : LoginCommit(x, s, t)
            \/ \E t \in Tokens : RotateToken(x, t) \/ RotateCommit(x, t) \/ RevokeToken(x, t)
            \/ \E s \in SessionIds :
                  RevokeSession(x, s) \/ RevokeFamily(x, s) \/ ScimRevokeSession(x, s)
            \/ SwitchCommit(x)
            \/ RotateSession(x)
            \/ RotateMembership(x)
            \/ RevokeAllSessions(x)
            \/ RevokeOrgUserSessions(x)
            \/ RevokeSessionRow(x)
            \/ Commit(x)
            \/ ScimRevokeSessions(x)
            \/ Abort(x)
      BY <1>1 DEF Next
    <2>q. QED
      BY <2>1, LoginReadStep, SwitchReadStep, UpdateMembershipStep, ScimDeprovisionStep,
         ReactivateStep, LoginCommitStep, RotateTokenStep, RotateCommitStep,
         RevokeTokenStep, RevokeSessionStep, RevokeFamilyStep, ScimRevokeSessionStep,
         SwitchCommitStep, RotateSessionStep, RotateMembershipStep, RevokeAllSessionsStep,
         RevokeOrgUserSessionsStep, RevokeSessionRowStep, CommitStep,
         ScimRevokeSessionsStep, AbortStep
  <1>2. CASE UNCHANGED vars
    BY <1>2 DEF vars, IInv, TypeOK, LocksExclusive, IdleIsClean, MembershipWrites,
       TokensHaveSessions, RotationsSound, RevocationsSound, FamilyUnderWay,
       LeaversUnderWay, OneUsableToken, FamilyOf, ReuseEndsSession,
       InactiveMemberHasNoSession, Live
  <1>q. QED  BY <1>1, <1>2

-----------------------------------------------------------------------------
(* Theorems *)

\* The inductive invariant holds in every reachable state.
THEOREM Invariance == Spec => []IInv
  BY InitIInv, NextIInv, PTL DEF Spec

\* Rows and requests keep their types; a session has an organization from its
\* creation on (auth_session.org_id is never cleared).
THEOREM TypeCorrect == Spec => []TypeOK
  <1>1. IInv => TypeOK  BY DEF IInv
  <1>q. QED  BY <1>1, Invariance, PTL

\* rotate_refresh leaves at most one exchangeable token in a family, however
\* many requests present it and whatever they cross.
THEOREM RefreshChain == Spec => []OneUsableToken
  <1>1. IInv => OneUsableToken  BY DEF IInv
  <1>q. QED  BY <1>1, Invariance, PTL

\* revoke_family and rotate_refresh serialise on the session's row: no step adds
\* a token to a revoked session, takes one from it, or makes it live again.
THEOREM RevokedStaysClosed == Spec => RevokedSessionIsClosed
  <1>1. ASSUME IInv, [Next]_vars, NEW s \in SessionIds, session[s] = "revoked"
        PROVE  FamilyOf(s)' = FamilyOf(s) /\ session'[s] = "revoked"
    <2>1. CASE UNCHANGED vars
      BY <1>1, <2>1 DEF vars, FamilyOf
    <2>2. ASSUME NEW x \in Txns, NEW r \in SessionIds, NEW t \in Tokens, LoginCommit(x, r, t)
          PROVE  FamilyOf(s)' = FamilyOf(s) /\ session'[s] = "revoked"
      BY <1>1, <2>2, SessionsAssumption DEF IInv, TypeOK, LoginCommit, FamilyOf
    <2>3. ASSUME NEW x \in Txns, NEW t \in Tokens, RotateCommit(x, t)
          PROVE  FamilyOf(s)' = FamilyOf(s) /\ session'[s] = "revoked"
      BY <1>1, <2>3, SessionsAssumption DEF IInv, TypeOK, RotateCommit, RotationsSound,
         FamilyOf
    <2>4. ASSUME NEW x \in Txns, Commit(x)
          PROVE  FamilyOf(s)' = FamilyOf(s) /\ session'[s] = "revoked"
      BY <1>1, <2>4 DEF IInv, TypeOK, Commit, FamilyOf
    <2>5. CASE UNCHANGED <<family, session>>
      BY <1>1, <2>5 DEF FamilyOf
    <2>q. QED
      BY <1>1, <2>1, <2>2, <2>3, <2>4, <2>5 DEF Next, LoginRead, SwitchRead,
         UpdateMembership, ScimDeprovision, Reactivate, RotateToken, RevokeToken,
         RevokeSession, RevokeFamily, ScimRevokeSession, SwitchCommit, RotateSession,
         RotateMembership, RevokeAllSessions, RevokeOrgUserSessions, RevokeSessionRow,
         ScimRevokeSessions, Abort, database
  <1>2. IInv /\ [Next]_vars =>
          [\A s \in SessionIds : session[s] = "revoked" =>
              FamilyOf(s)' = FamilyOf(s) /\ session'[s] = "revoked"]_vars
    BY <1>1
  <1>q. QED  BY <1>2, Invariance, PTL DEF Spec, RevokedSessionIsClosed

\* A refresh that answers ReuseDetected has revoked its session.
THEOREM ReuseRevokes == Spec => []ReuseEndsSession
  <1>1. IInv => ReuseEndsSession  BY DEF IInv
  <1>q. QED  BY <1>1, Invariance, PTL

\* When a membership ends, only the sessions of logins and switches that had
\* read it before survive in it.
THEOREM LeaversLoseSessions == Spec => []InactiveMemberHasNoSession
  <1>1. IInv => InactiveMemberHasNoSession  BY DEF IInv
  <1>q. QED  BY <1>1, Invariance, PTL

=============================================================================
