SPECIFICATION HSpec
CONSTANTS
    s1 = s1
    s2 = s2
    allowRow = allowRow
    denyRow = denyRow
    Slots <- MCSlots
    Rows <- MCRows
    Permitting <- MCPermitting
    NoRow = NoRow
    NoEntry = NoEntry
    NoFill = NoFill
    PolicyTTL = 3
    NoPolicyTTL = 1
    WriteDelay = 1
    MaxTime = 5
SYMMETRY Symmetry
INVARIANTS
    TypeOK
    PermitConfirmed
    DefaultDenyBounded
    InvalidationHolds
