CHECK_DEADLOCK FALSE
SPECIFICATION Spec
SYMMETRY Symmetry
CONSTRAINT TwoWorkers
CONSTANTS
    c1 = c1
    c2 = c2
    h1 = h1
    h2 = h2
    p1 = p1
    p2 = p2
    e1 = e1
    e2 = e2
    talk = talk
    v1 = v1
    v2 = v2
    v3 = v3
    f1 = f1
    l1 = l1
    b1 = b1
    b2 = b2
    d1 = d1
    d2 = d2
    Hong = Hong
    hong = hong
    kim = kim
    Nobody = Nobody
    Nothing = Nothing
    Off = Off
    PageOrder <- TwoPages
    NoteCalls <- TwoCalls
    ChunkSize = 1
    MaxVersion = 2
    Chats <- TwoChats
    HangulChats <- InHangul
    People <- TwoPeople
    NoEmail <- WithoutEmail
    TeamCalls <- TwoCalls
    ListLimit = 1
    MaxMail = 3
    Unwanted = {2}
    MailCalls <- OneCall
    MailTop = 3
    PageSize = 2
    MaxConcurrent = 2
    BatchSize = 2
    IdLists <- MailOrder
    Events <- TwoEvents
    Zones = {"bare", "utc"}
    Subjects <- OneSubject
    MaxClock = 2
    Korea = 1
    EventTop = 1
    Calls <- MCCalls
    Flows <- MCFlows
    Links <- MCLinks
    Callbacks <- TwoCallbacks
    Procs <- TwoProcs
    ProcOf <- MCProcOf
    Emails <- MCEmails
    Asked <- MCAsked
    GraphEmails <- MCGraphEmails
    Lower <- MCLower
INVARIANTS TypeOK AnswersTell LoginsTakeTurns
PROPERTIES ListsAreTrue OthersAreKept LoginsHearTheirOwn
