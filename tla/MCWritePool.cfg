SPECIFICATION Spec
CONSTANTS
    i1 = i1
    i2 = i2
    Items = {i1}
    Langs = {"en", "da", "fr"}
    Primary = {"en"}
    Unregistered = {"fr"}
    Limit = 2
    Tolerant = FALSE
    Responses = {"ok", "fail"}
    Values <- MCValues
    Blank = 0
    MaxVersion = 2
    MaxOps = 4
INVARIANTS TypeOK AddsLandFirst SameAsSequential EveryWriteAccounted SemaphoreExact NoIdleSlot
PROPERTY ImplementsCellWrites
CHECK_DEADLOCK FALSE
