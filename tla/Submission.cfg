\* A workspace of three, two requests in flight and an SMTP session.
SPECIFICATION Spec
CONSTANTS
    o = o
    a = a
    e = e
    nobody = nobody
    r1 = r1
    r2 = r2
    s1 = s1
    c1 = c1
    Users <- Three
    NoOne = nobody
    Requests <- TwoRequests
    Scenes <- AllScenes
    Sessions <- OneSession
    Conns <- OneConn
    Limit <- Limits
SYMMETRY Symmetry
CHECK_DEADLOCK FALSE
INVARIANTS
    RevokedForGood
    PrivateMailStaysPrivate
    QuotaHolds
