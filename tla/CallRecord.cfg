SPECIFICATION Spec
CONSTANTS
    c1 = c1
    o1 = o1
    o2 = o2
    u1 = u1
    u2 = u2
    s1 = s1
    Absent = Absent
    NoRow = NoRow
    Calls <- MCCalls
    Inputs <- MCInputs
    FieldLists <- MCFieldLists
    Results <- MCResults
    Registrations <- MCRegistrations
    Entries <- MCEntries
    Rows <- MCRows
    OtherRows <- MCOtherRows
    Queries <- MCQueries
    DefaultLimit = 1
    MaxLimit = 2
    Bits = 4
    Asked <- MCAsked
INVARIANTS
    TypeOK
    StoredIsShown
    TopLevelStripped
    SentWithCredential
    AuditedIsSent
    WalkComplete
    RepeatsExplained
SYMMETRY Symmetry
