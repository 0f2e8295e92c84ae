SPECIFICATION FairSpec
CONSTANTS
    Procs = {"server", "script"}
    Slots = {"cm", "api"}
    Secrets <- MCSecrets
    Size <- MCSize
    MaxChunks = 3
    None = None
    Torn = Torn
    Kinds <- MCKinds
    Profiles = {"client", "literal"}
    MaxRetries = 1
    MaxAttempts = 2
    MaxWrites = 2
    MaxSettle = 1
    Rotates = TRUE
    MaxTokens = 3
    MaxCalls = 1
    MaxFaults = 1

INVARIANTS ApiTypeOK WritesLandOnce QuietSlotIsWhole ChainUnbroken
PROPERTY CallsEnd
CHECK_DEADLOCK FALSE
