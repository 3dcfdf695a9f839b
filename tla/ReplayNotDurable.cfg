SPECIFICATION Spec
CONSTANTS
    Nil = Nil
    BaseAbsent = BaseAbsent
    BaseAbstain = BaseAbstain
    p1 = p1
    p2 = p2
    f1 = f1
    o1 = o1
    o2 = o2
    Procs = {p1}
    Facts = {f1}
    OpIds = {o1, o2}
    Commands <- TwoWrites
    BaseFacts <- NoBaseFacts
    BaseDedup <- NoBaseDedup
    U8Domain = FALSE
    U8Max = 9
    U32Max = 10
    MaxSegments = 3
    MaxTotalFrames = 2
    MaxSegmentFrames = 2
    MaxSegmentId = 2
    MaxLog = 1
    MaxStops = 2
    PowerFails = TRUE
    ProcessesDie = TRUE
INVARIANTS
    ReplayedSurvives
