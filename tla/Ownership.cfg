SPECIFICATION Spec
CONSTANTS
    Users = {a, b, c}
    Founder = a
    Invitations = {i1}
    ScimUsers = {b}
    Onboarded = {c}
    Txns = {x1, x2}
    NoUser = NoUser
SYMMETRY Symmetry
INVARIANTS
    TypeOK
    OwnerlessExplained
