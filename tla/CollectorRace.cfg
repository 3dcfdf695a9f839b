\* A publication under way when a collection is, and nothing else: no reader,
\* and nothing fails.
SPECIFICATION Spec
CONSTANTS
    Readers = {}
    Retentions = {1, 2}
    MaxRevision = 2
    MaxRuns = 3
    MaxStops = 0
INVARIANTS
    GoldenRule
CHECK_DEADLOCK FALSE
