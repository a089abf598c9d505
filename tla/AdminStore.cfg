SPECIFICATION AdminSpec
CONSTANTS
    r1 = r1
    r2 = r2
    u1 = u1
    u2 = u2
    s1 = s1
    s2 = s2
    p1 = p1
    p2 = p2
    p3 = p3
    rn1 = rn1
    rn2 = rn2
    e1 = e1
    e2 = e2
    sn1 = sn1
    sn2 = sn2
    sn3 = sn3
    tool = tool
    RoleIds <- MCRoleIds
    UserIds <- MCUserIds
    ServerIds <- MCServerIds
    PolicyIds <- MCPolicyIds
    RoleNames <- MCRoleNames
    Emails <- MCEmails
    ServerNames <- MCServerNames
    Tools <- MCTools
    Unused = Unused
    Deleted = Deleted
INVARIANTS
    References
    OneRulePerTriple
PROPERTY OffStaysOff
SYMMETRY Symmetry
