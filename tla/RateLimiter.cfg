SPECIFICATION HSpec
CONSTANTS
    c1 = c1
    c2 = c2
    Calls <- MCCalls
    Limits <- MCLimits
    Window = 3
    KeyTTL = 4
    Delay = 1
    MaxTime = 6
    NoCall = NoCall
INVARIANTS
    WindowBound
SYMMETRY Symmetry
PROPERTY DeniedForCause
