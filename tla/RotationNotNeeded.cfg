SPECIFICATION Spec
CONSTANTS
    Nil = Nil
    BaseAbsent = BaseAbsent
    BaseAbstain = BaseAbstain
    r1 = r1
    r2 = r2
    r3 = r3
    f1 = f1
    f2 = f2
    o1 = o1
    o2 = o2
    o3 = o3
    o4 = o4
    Requests = {r1}
    Facts = {f1, f2}
    OpIds = {o1, o2, o3, o4}
    Commands <- BaseCommands
    BaseFacts <- BaseFacts1
    BaseDedup <- BaseDedup1
    U8Domain = FALSE
    U8Max = 9
    U32Max = 10
    MaxSegments = 3
    MaxTotalFrames = 4
    MaxSegmentFrames = 3
    FirstSeq = 3
    MaxQueueCommands = 2
    MaxQueueBytes = 1000
    MaxBatchCommands = 2
    MaxBatchBytes = 200
    Published = TRUE
    SinkMayRaise = FALSE
    Calls = {"rotation"}
INVARIANTS
    NotNeededKeepsWriter
CHECK_DEADLOCK FALSE
