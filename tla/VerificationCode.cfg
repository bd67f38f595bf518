\* Three guesses, two codes, a lock after two wrong ones.
SPECIFICATION Spec
CONSTANTS
    c1 = c1
    c2 = c2
    c3 = c3
    r1 = r1
    r2 = r2
    right = right
    wrong = wrong
    NoCall = NoCall
    NoRow = NoRow
    Calls <- ThreeCalls
    Rows <- TwoRows
    Codes <- TwoCodes
    MaxAttempts = 2
    Lockout = 2
    Ttl = 2
    MaxTime = 2
SYMMETRY CodeSymmetry
CHECK_DEADLOCK FALSE
INVARIANTS
    GuessesCapped
    CodeWorksOnce
PROPERTY LockedIsRefused
