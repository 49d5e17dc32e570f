CHECK_DEADLOCK FALSE
SPECIFICATION Spec
SYMMETRY Symmetry
CONSTRAINTS OneKindOfCalls OneOrder OddCallsAlone
CONSTANTS
    c1 = c1
    c2 = c2
    m1 = m1
    m2 = m2
    i1 = i1
    i2 = i2
    i3 = i3
    l1 = l1
    l2 = l2
    someName = someName
    Letters = {"a", "b"}
    MailItems <- MCMailItems
    FolderOf <- MCFolderOf
    SaveCalls <- TwoCalls
    MaxAsked = 2
    FetchSize = 1
    AttachmentLimit = 2
    RequestBudget = 2
    Quota = 4
    SimpleMax = 1
    Chunks = 2
    MaxNumber = 6
    MailCalls <- TwoMailCalls
    FileCalls <- TwoCalls
    MaxWorkers = 2
    PerCall = 2
    Size <- MCSize
    Budget = 2
    MaxFileSize = 2
    MaxFiles = 2
    Owners = {o1, o2}
    Refs = {p1, p2}
    Keywords <- MCKeywords
    MaxKeywords = 1
    MaxTime = 3
    NoRow = NoRow
    DriveIds <- ThreeIds
    DriveNames = {"v", "w"}
    Texts = {"t"}
    MaxCopies = 1
    Root = Root
    Nothing = Nothing
    ListIds <- TwoLists
    Padded <- SecondPadded
    BuiltIn = l1
    Names <- TwoNames
    DefaultName = DefaultName
    Tasks = {t1}
    Titles = {x}
    Dues = {d}
    FirstPages = {1, 2}
    Off = Off
INVARIANTS TypeOK FilesAreTrue ConvertersHold
PROPERTIES OnlyTheNamedChanges
