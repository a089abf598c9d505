SPECIFICATION Spec
CONSTANTS
    t1 = t1
    t2 = t2
    u1 = u1
    u2 = u2
    Tokens <- MCTokens
    Users <- MCUsers
    TokenTTL = 2
    MaxTime = 5
    None = None
INVARIANTS
    AcceptedInLifetime
SYMMETRY Symmetry
PROPERTY RevokedStaysOut
