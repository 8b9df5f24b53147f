\* An ordinary release with a schema-only migration whose check fails.
SPECIFICATION Spec
CONSTANTS
    Runs = {r1}
    Releases = {"cut", "next"}
    FileOrder <- TwoFiles
    Cutovers = {"pre-data91"}
    From <- MCFrom
    To <- MCTo
    Schema <- MCSchema
    Guarded <- MCGuarded
    Restorable = {"pre-data91"}
    Purged = {}
    InitialVersion = 3
    MaxFaults = 1
PROPERTIES
    RollbackSucceeds
CHECK_DEADLOCK FALSE
