SPECIFICATION Spec
CONSTANTS
    f1 = f1
    Handles = {h1}
    Threads = {t1, t2}
    Facts = {f1}
    Txids = {1, 3}
    Nil = Nil
    BaseAbsent = BaseAbsent
    BaseAbstain = BaseAbstain
    U8Max = 9
    U32Max = 10
    Commands <- WithWide
    Retention = 2
    CacheSize = 1
    MaxLog = 2
    MaxGen = 1
    MaxFails = 1
    MaxViews = 1
INVARIANTS
    TypeOK
    ReadsFollowWrites
    AuditFindsNoLostDelete
    ClosedHoldsNothing
SYMMETRY Symmetry
CHECK_DEADLOCK FALSE
