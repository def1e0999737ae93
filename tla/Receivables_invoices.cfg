SPECIFICATION Spec
CONSTANTS
    Sessions = {s1, s2}
    Records = {i1}
    c1 = c1
    c2 = c2
    Customers = {c1, c2}
    NoCustomer = nobody
    NewRows <- MCNewRows
    Edits <- MCEdits
    Linked <- MCLinked
    Terms = 30
    MaxRequests = 3
    MaxFailures = 1
    FirstDay = 100
    LastDay = 101
    Settings <- MCSettings
    Endpoints = {e1}
    NoChat = none
    Savers = {p1, p2}
    MaxChanges = 2
    MaxWork = 6
    MaxReminders = 3
SYMMETRY Symmetry
INVARIANT SubmittedOnce
INVARIANT MirrorCurrent
INVARIANT AttentionCurrent
INVARIANT RemindersPaced
INVARIANT FinanceAddsUp
CHECK_DEADLOCK FALSE
