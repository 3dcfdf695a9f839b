\* Two facts, two clients; the first writer takes values beyond u8, which no
\* compaction accepts.
SPECIFICATION Spec
CONSTANTS
    Facts = {f1, f2}
    Clients = {k1, k2}
    Txids = {1, 2, 3}
    TxidMax = 3
    Nil = Nil
    BaseAbsent = BaseAbsent
    BaseAbstain = BaseAbstain
    U8Max = 1
    U32Max = 2
    Retentions = {1, 2}
    Values = {1, 2}
    MaxVersion = 2
    MaxGen = 2
    MaxLog = 3
INVARIANTS
    TypeOK
    NothingForgotten
    AppliedOnce
    RetriesRemembered
    TablesCanonical
PROPERTIES
    ForgetsForGood
SYMMETRY Symmetry
CHECK_DEADLOCK FALSE
