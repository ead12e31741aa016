CONSTANTS
    Sessions = {s1, s2}
    Superuser = root
    None = None
    Dots = Dots
    ua = ua
    ub = ub
    d = d
    e = e
    f = f
    l = l
    Users = {ua, ub}
    Name = {ua, ub, d, e, f, l, Dots}
    Home <- MCHome
    Paths <- MCPaths
    Tree <- MCTree
    LinkTo <- MCLinkTo
    ReadOnly <- MCReadOnly
    Args <- MCArgs
    MaxCommands = 3

SPECIFICATION FairSpec

INVARIANTS
    TypeOK
    LoginComplete
    Jailed

PROPERTIES
    OnlyOwnHome
    OnlyNamed
    HonestReply
    DeleteComplete
    CommandEnds
