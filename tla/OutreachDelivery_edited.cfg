SPECIFICATION Spec
CONSTANTS
    Actions = {a1}
    Texts = {x, y}
    Users = {o1, o2, u1}
    Owners = {o1, o2}
    EmailWorkers = {e1}
    TelegramWorkers = {t1}
    MaxCrashes = 0
INVARIANT ApprovedTextSent
