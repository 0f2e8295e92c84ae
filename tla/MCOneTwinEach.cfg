SPECIFICATION Spec
CONSTANTS
    design = design
    build = build
    TaskOrder <- MCTaskOrder
    Dependent = {build}
    Revisions = 2
    Titles = 2
    PartialBodies = {"applied"}
    MaxChanges = 2
    MaxFaults = 0
INVARIANT OneTwinEach
