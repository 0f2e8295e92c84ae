SPECIFICATION Spec
CONSTANTS
    design = design
    build = build
    TaskOrder <- MCTaskOrder
    Dependent = {build}
    Revisions = 2
    Titles = 2
    PartialBodies = {"applied", "ignored"}
    MaxChanges = 2
    MaxFaults = 2
INVARIANTS TypeOK NothingSilentlyDropped
PROPERTIES HandlesAreAdopted AuthorEditsSurvive DeletedStaysDeleted RePushConverges
