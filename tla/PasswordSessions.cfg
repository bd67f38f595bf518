\* Three calls of any kind, two links, two passwords, two identities of
\* external providers.
SPECIFICATION Spec
CONSTANTS
    c1 = c1
    c2 = c2
    c3 = c3
    t1 = t1
    t2 = t2
    p1 = p1
    p2 = p2
    s1 = s1
    s2 = s2
    NoHash = NoHash
    Calls <- ThreeCalls
    Links <- TwoLinks
    Passwords <- TwoPasswords
    Subjects <- TwoSubjects
    Requests <- AllRequests
SYMMETRY CallSymmetry
CHECK_DEADLOCK FALSE
INVARIANTS
    LoginSessionIsCurrent
PROPERTIES
    InitialPasswordReplaced
    LinkHonouredOnce
    WaysInAreProven
