CHECK_DEADLOCK FALSE
SPECIFICATION ConvertSpec
CONSTANTS
    MailCalls = {}
    FileCalls = {f1}
    MaxWorkers = 1
    Items = 1
    Size <- MCSize
    Budget = 2
    MaxFileSize = 2
    MaxFiles = 2
INVARIANTS InputsHeld
