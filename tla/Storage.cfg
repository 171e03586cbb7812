SPECIFICATION FairSpec
CONSTANTS
    None = None
    MaxCredentials = 2
    Entropies = {1}
    AutoPair = TRUE
    CtrlDepth = 2
    MaxFaults = 1
    FirstFlash <- ThreeStarts
    Asks <- SomeAsks
    Puts <- SomePuts
    Chunks = 1
    MaxRequests = 2
    MaxReboots = 1
    MaxUploads = 1
INVARIANTS TypeOK QuietAgrees EnterIsDurable
PROPERTIES AnsweredIsSaved AskedIsAnswered IsDurable
CHECK_DEADLOCK FALSE
