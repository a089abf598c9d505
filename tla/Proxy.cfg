SPECIFICATION Spec
CONSTANTS
    q1 = q1
    q2 = q2
    t1 = t1
    r1 = r1
    r2 = r2
    u1 = u1
    s1 = s1
    p1 = p1
    rn1 = rn1
    rn2 = rn2
    e1 = e1
    sn1 = sn1
    sn2 = sn2
    tool = tool
    Requests <- MCRequests
    Tokens <- MCTokens
    RoleIds <- MCRoleIds
    UserIds <- MCUserIds
    ServerIds <- MCServerIds
    PolicyIds <- MCPolicyIds
    RoleNames <- MCRoleNames
    Emails <- MCEmails
    ServerNames <- MCServerNames
    Tools <- MCTools
    Unused = Unused
    Deleted = Deleted
    Stranger = Stranger
    Nobody = Nobody
INVARIANTS
    TypeOK
    Authorised
    Accounted
    EventReferences
PROPERTY
    ImplementsGateway
SYMMETRY Symmetry
