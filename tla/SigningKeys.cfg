\* Two requests at a time, two claims to the name, three keys.
SPECIFICATION Spec
CONSTANTS
    c1 = c1
    c2 = c2
    r1 = r1
    r2 = r2
    NoRow = NoRow
    NoKey = NoKey
    Calls <- TwoCalls
    Rows <- TwoRows
    Keys <- ThreeKeys
    SealedElsewhere <- SecondKey
SYMMETRY KeysSymmetry
CHECK_DEADLOCK FALSE
INVARIANTS
    OneSigner
    RetiredHasSuccessor
    SignerWasPublished
    VerifiedByOwnToken
    SignedOrNotSent
