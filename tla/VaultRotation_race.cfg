SPECIFICATION Spec
CONSTANTS
    Tokens = {t1, t2}
    Writers = {w1, w2}
    Scheduled = {s1}
    Manual = {m1}
    BatchSize = 1
    MaxVersion = 4
    MaxCrashes = 1
    LongTransactions = TRUE
SYMMETRY Symmetry
INVARIANT TypeOK
INVARIANT OneActiveKey
INVARIANT RunningJobUsable
INVARIANT OldKeysRetired
PROPERTY RetireLeavesOnlyLate
PROPERTY ContentsSpec
