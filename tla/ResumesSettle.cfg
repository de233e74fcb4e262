SPECIFICATION FairSpec
CONSTANTS
    Resumes = {r1}
    Users = {u1}
    MAX_PENDING_PER_USER = 1
    MaxRetries = 2
    MaxFaults = 2
    MaxCopies = 2
    NoMessage = NoMessage
CHECK_DEADLOCK FALSE
PROPERTIES
    EveryUploadSettles
    VectorFollows
