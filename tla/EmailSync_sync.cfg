SPECIFICATION FairSpec
CONSTANTS
    MaxUid = 2
    BatchSize = 1
    Worker = worker
    Requests = {request}
    MaxFailures = 1
    MaxCrashes = 1
INVARIANT IngestedOnce
INVARIANT CursorExamined
PROPERTY MailboxSpec
PROPERTY UnreadExamined
PROPERTY BacklogServed
