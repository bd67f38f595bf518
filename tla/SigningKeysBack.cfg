\* Two Verify of one domain with three keys.
SPECIFICATION Spec
CONSTANTS
    c1 = c1
    c2 = c2
    r1 = r1
    r2 = r2
    NoRow = NoRow
    NoKey = NoKey
    Calls <- TwoCalls
    Rows <- OneRow
    Keys <- ThreeKeys
    SealedElsewhere <- SecondKey
SYMMETRY KeysSymmetry
CHECK_DEADLOCK FALSE
PROPERTY RetiredForGood
