SPECIFICATION Spec
CONSTANTS
    component = component
    page = page
    Order <- MCOrder
    Seeded <- MCSeeded
    Unverifiable = {}
    FieldCount = 2
    Policies = {"error", "recipe-wins", "cms-wins"}
    MaxRevision = 2
    MaxPushes = 3
    MaxEdits = 2
    MaxFaults = 1
INVARIANTS TypeOK ItemsHaveFolder CleanMeansApplied
PROPERTIES BaselineIsHeld AuthorEditsSurvive SeedsAreLeftToAuthors
