SPECIFICATION Spec
CONSTANTS
    SessionIds = {s1, s2}
    Tokens = {t1, t2, t3}
    Txns = {x1, x2}
    Orgs = {o1, o2}
    NoSession = NoSession
    NoToken = NoToken
    NoOrg = NoOrg
SYMMETRY Symmetry
INVARIANTS
    TypeOK
    OneUsableToken
    ReuseEndsSession
    InactiveMemberHasNoSession
PROPERTIES
    RevokedSessionIsClosed
