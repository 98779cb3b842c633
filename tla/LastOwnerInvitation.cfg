SPECIFICATION Spec
CONSTANTS
    Users = {a, b}
    Founder = a
    Invitations = {i1}
    ScimUsers = {}
    Onboarded = {}
    Txns = {x1, x2}
    NoUser = NoUser
INVARIANTS
    LastOwner
