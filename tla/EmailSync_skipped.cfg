SPECIFICATION Spec
CONSTANTS
    MaxUid = 2
    BatchSize = 2
    Worker = worker
    Requests = {}
    MaxFailures = 1
    MaxCrashes = 0
INVARIANT CursorPassesIngested
