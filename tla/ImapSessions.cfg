\* A delivery and its retry, the web client and two IMAP sessions; conversations.
SPECIFICATION MCSpec
CONSTANTS
    b1 = b1
    b2 = b2
    m1 = m1
    m2 = m2
    m3 = m3
    c1 = c1
    c2 = c2
    w1 = w1
    s1 = s1
    s2 = s2
    Boxes <- TwoBoxes
    Mails <- ThreeMails
    Spam <- Junked
    Names <- ThreeNames
    Calls <- TwoCalls
    Webs <- OneWeb
    MailOf <- Retry
    Scenes <- AllScenes
    Drafts <- OneDraft
    MaxFolders = 5
    Sessions <- TwoSessions
    BoxOf <- AllInOne
    MaxParts = 6
    MaxDepth = 2
    MaxMessageBytes = 4
    MaxBodyBytes = 1
    NameLimit = 3
    InlineLimit = 3
    InlineBudget = 4
    MaxChain = 5
    MaxFiles = 2
    Received <- AllReceived
    Answers <- SomeAnswers
    HandedIn <- AllHandedIn
    Composed <- AllComposed
SYMMETRY Symmetry
CHECK_DEADLOCK FALSE
INVARIANTS
    TypeOK
    AcknowledgedIsStored
    RetryStoredOnce
    KeptUntilRemoved
    NumberingAgrees
    MailSurvivesHandling
PROPERTY UidsAscend
