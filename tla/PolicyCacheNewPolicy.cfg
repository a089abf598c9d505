SPECIFICATION HSpec
CONSTANTS
    s1 = s1
    s2 = s2
    allowRow = allowRow
    denyRow = denyRow
    Slots <- MCSlots
    Rows <- MCRows
    Permitting <- MCPermitting
    NoRow = NoRow
    NoEntry = NoEntry
    NoFill = NoFill
    PolicyTTL = 4
    NoPolicyTTL = 1
    WriteDelay = 2
    MaxTime = 6
INVARIANT NewPolicyTakesEffect
