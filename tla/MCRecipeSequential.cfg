SPECIFICATION Spec
CONSTANTS
    old = old
    new = new
    kid1 = kid1
    kid2 = kid2
    a = a
    b = b
    blank = blank
    None = None
    Shared = "shared"
    Default = "en"
    Items = {old, new, kid1, kid2}
    Existing = {old, new, kid1, kid2}
    Seeded = {old}
    Children <- TwoChildren
    Langs = {"shared", "en", "fr"}
    Primary = {"shared", "en"}
    Unregistered = {"fr"}
    Limit = 2
    Tolerant = TRUE
    Adopts = FALSE
    Responses = {"ok", "fail"}
    Values = {blank, a, b}
    Blank = blank
    Start <- MCStart
    Pooled = FALSE
    MaxVersion = 2
    MaxOps = 3
CHECK_DEADLOCK FALSE
INVARIANTS ToleratedFailuresDontAbort ToleratedFailuresStayLocal
