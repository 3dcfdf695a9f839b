\* One reader, a writer and the collector, in every order.
SPECIFICATION Spec
CONSTANTS
    Readers = {r1}
    Retentions = {1, 2}
    MaxRevision = 2
    MaxRuns = 3
    MaxStops = 1
INVARIANTS
    TypeOK
    GoldenRuleUnlessOverlapped
    PacketIsWhole
    QuarantineIsJournaled
PROPERTIES
    RecoveryIsExact
    NothingDeleted
CHECK_DEADLOCK FALSE
