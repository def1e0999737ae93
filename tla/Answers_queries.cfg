SPECIFICATION Spec
CONSTANTS
    r1 = r1
    r2 = r2
    r3 = r3
    name = name
    phone = phone
    desk = desk
    note = note
    staff = staff
    owner = owner
    Newest <- MCNewest
    System <- MCSystem
    Text <- MCText
    Embedded = {r1, r2, r3}
    TopK = 2
    ListLimit = 2
    InitiallyLinked <- MCInitiallyLinked
    ReplyTokens <- MCReplyTokens
    Questions <- MCQuestions
    Roles = {staff, owner}
    Owner = owner
    NameOf = name
    EmailOf = phone
    EndpointsOf = {phone, desk}
    Names = {name}
    Phones = {phone}
    Emails = {}
    Registered = {name, phone, desk, note}
    Allowed <- MCAllowed
    Plain <- MCPlain
    HistoryLimit = 2
    BatchSize = 2
    BriefLimit = 1
    MaxTurns = 2
    MaxChanges = 1
INVARIANT EvidenceInScope
INVARIANT AnswerGrounded
INVARIANT DisclosedIsAudited
CHECK_DEADLOCK FALSE
