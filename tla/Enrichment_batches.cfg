SPECIFICATION FairSpec
CONSTANTS
    r1 = r1
    r2 = r2
    x = x
    y = y
    t1 = t1
    t2 = t2
    c1 = c1
    f1 = f1
    f2 = f2
    Jobs = {j1, j2}
    Records = {r1, r2}
    Contents = {x, y}
    Tokens <- MCTokens
    Customers = {c1}
    Alias <- MCAlias
    Files = {f1, f2}
    Lines <- MCLines
    Deployments <- MCDeployments
    NoFile = none
    Earlier <- MCEarlier
    MaxJobs = 2
    MaxCrashes = 1
INVARIANT DerivedFits
INVARIANT BatchAddsUp
PROPERTY ReadyBatchSearchable
PROPERTY BatchSettles
CHECK_DEADLOCK FALSE
