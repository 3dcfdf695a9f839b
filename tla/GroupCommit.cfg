SPECIFICATION Spec
CONSTANTS
    Nil = Nil
    BaseAbsent = BaseAbsent
    BaseAbstain = BaseAbstain
    r1 = r1
    r2 = r2
    r3 = r3
    f1 = f1
    f2 = f2
    o1 = o1
    o2 = o2
    o3 = o3
    o4 = o4
    Requests = {r1, r2, r3}
    Facts = {f1}
    OpIds = {o1, o2}
    Commands <- VersionCommands
    BaseFacts <- NoBaseFacts
    BaseDedup <- NoBaseDedup
    U8Domain = FALSE
    U8Max = 9
    U32Max = 10
    MaxSegments = 3
    MaxTotalFrames = 4
    MaxSegmentFrames = 3
    FirstSeq = 3
    MaxQueueCommands = 2
    MaxQueueBytes = 1000
    MaxBatchCommands = 2
    MaxBatchBytes = 200
    Published = TRUE
    SinkMayRaise = FALSE
    Calls = {"close"}
SYMMETRY Sym
INVARIANTS
    TypeOK
    NotAcceptedIsSafe
    AckIsDurable
    ReplayIsDurable
    AnswersAgree
    WalInTicketOrder
    PublishedStateCoherent
    ReplayAgrees
PROPERTIES
    ImplementsMemoryLog
    SnapshotAdvances
CHECK_DEADLOCK FALSE
