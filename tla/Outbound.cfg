\* Three calls of Send over one key and two files, one worker.
SPECIFICATION Spec
CONSTANTS
    e1 = e1
    e2 = e2
    e3 = e3
    w1 = w1
    k = k
    text = text
    otherText = otherText
    file = file
    photo = photo
    NoEmail = NoEmail
    NoWorker = NoWorker
    NoKey = NoKey
    Emails <- ThreeCalls
    Workers <- OneWorker
    Attachments <- TwoFiles
    Requests <- KeyedRequests
    MaxRetry = 1
    MaxAsks = 3
    MaxStops = 0
    FaultSets <- EitherSideFails
SYMMETRY CallSymmetry
CHECK_DEADLOCK FALSE
INVARIANTS
    OneMessagePerKey
    SentWhole
    FileSentOnce
    AcceptedIsUnderway
    RefusedIsNotSent
