SPECIFICATION FairSpec
CONSTANTS
    Tokens = {t1, t2}
    Writers = {w1, w2}
    Scheduled = {s1}
    Manual = {}
    BatchSize = 1
    MaxVersion = 3
    MaxCrashes = 1
    LongTransactions = FALSE
INVARIANT StrandedReopenable
PROPERTY RowsReachActive
PROPERTY UnreadableRecovered
