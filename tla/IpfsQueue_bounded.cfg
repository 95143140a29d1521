SPECIFICATION Spec
CONSTANTS
    Requests = {r1, r2, r3}
    Limit = 1
    QueueLimit = 1
    MaxRestarts = 1
SYMMETRY Interchangeable
INVARIANTS
    TypeOK
    SlotsAccounted
    NothingRunsUnowned
    OneAnswerEach
CHECK_DEADLOCK FALSE
