SPECIFICATION FairSpec
CONSTANTS
    Actions = {a1}
    Texts = {x, y}
    Users = {o1, o2, u1}
    Owners = {o1, o2}
    EmailWorkers = {e1}
    TelegramWorkers = {t1, t2}
    MaxCrashes = 2
INVARIANT DeliveredOnce
INVARIANT SentWasTaken
INVARIANT OnlyApproved
INVARIANT CorrelatedReplied
INVARIANT RepliedByCustomer
PROPERTY GovernedSpec
PROPERTY SendsSettle
