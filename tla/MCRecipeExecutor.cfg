SPECIFICATION FairSpec
CONSTANTS
    old = old
    new = new
    kid1 = kid1
    kid2 = kid2
    a = a
    b = b
    blank = blank
    None = None
    Shared = "shared"
    Default = "en"
    Items = {old, new, kid1}
    Existing = {old, kid1}
    Seeded = {old}
    Children <- OneChild
    Langs = {"shared", "en", "da"}
    Primary = {"shared", "en"}
    Unregistered = {}
    Limit = 2
    Tolerant = FALSE
    Adopts = FALSE
    Responses = {"ok", "fail"}
    Values = {blank, a, b}
    Blank = blank
    Start <- MCStart
    Pooled = TRUE
    MaxVersion = 1
    MaxOps = 3
CHECK_DEADLOCK FALSE
INVARIANTS TypeOK DrainedBeforeRollback RollbackRestores SharedFieldsConverge PoisonedCacheUnread ResultIsFinal
PROPERTY PushEnds
