SPECIFICATION Spec
CONSTANTS
    Resumes = {r1, r2}
    Users = {u1}
    MAX_PENDING_PER_USER = 1
    MaxRetries = 1
    MaxFaults = 2
    MaxCopies = 2
    NoMessage = NoMessage
SYMMETRY Symmetry
CHECK_DEADLOCK FALSE
INVARIANTS
    TypeOK
    RowCoherent
    CommittedBeforeQueued
    PendingCapWithoutOverlap
PROPERTIES
    StatusOnlyMovesForward
