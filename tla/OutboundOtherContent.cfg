\* Two calls with one key and different content, nothing fails.
SPECIFICATION Spec
CONSTANTS
    e1 = e1
    e2 = e2
    e3 = e3
    w1 = w1
    k = k
    text = text
    otherText = otherText
    file = file
    photo = photo
    NoEmail = NoEmail
    NoWorker = NoWorker
    NoKey = NoKey
    Emails <- TwoCalls
    Workers <- OneWorker
    Attachments <- TwoFiles
    Requests <- KeyedRequests
    MaxRetry = 0
    MaxAsks = 2
    MaxStops = 0
    FaultSets <- NoFaults
CHECK_DEADLOCK FALSE
INVARIANT AnsweredWithOwnContent
