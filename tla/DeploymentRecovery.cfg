\* Three runs, a cutover of two migrations and an ordinary one after it.
SPECIFICATION Spec
CONSTANTS
    Runs = {r1, r2, r3}
    Releases = {"base", "cut", "rebuilt", "next"}
    FileOrder <- TwoFiles
    Cutovers = {"pre-data91"}
    From <- MCFrom
    To <- MCTo
    Schema <- MCSchema
    Guarded <- MCGuarded
    Restorable = {"pre-data91"}
    Purged = {}
    InitialVersion = 1
    MaxFaults = 1
SYMMETRY Symmetry
INVARIANTS
    RecordIsSafe
    OldReleaseStaysDown
    PlanStillHolds
PROPERTIES
    CutoverIsExclusive
    SuccessIsComplete
CHECK_DEADLOCK FALSE
