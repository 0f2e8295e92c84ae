SPECIFICATION Spec
CONSTANTS
    Procs = {"script"}
    Slots = {"cm", "api"}
    Secrets <- MCSecrets
    Size <- MCSize
    MaxChunks = 3
    None = None
    Torn = Torn
    Kinds <- MCKinds
    Profiles = {"client", "literal"}
    MaxRetries = 1
    MaxAttempts = 2
    MaxWrites = 2
    MaxSettle = 1
    Rotates = TRUE
    MaxTokens = 3
    MaxCalls = 2
    MaxFaults = 1

INVARIANT SlotSelfHeals
CHECK_DEADLOCK FALSE
