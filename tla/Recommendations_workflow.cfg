SPECIFICATION Spec
CONSTANTS
    r1 = r1
    r2 = r2
    a1 = a1
    Conversation = {c1}
    Visitors = {v1, v2}
    Evidence <- MCEvidence
    Briefs <- MCBriefs
    MaxTurns = 2
    Officers = {o1, o2}
    Ready <- MCReady
    Minimum = 2
    MaxEvents = 3
    MaxProposals = 1
SYMMETRY MCSymmetry
INVARIANT DecisionsTold
INVARIANT TurnsNumbered
PROPERTY ChainVerifies
PROPERTY JournalSpec
CHECK_DEADLOCK FALSE
