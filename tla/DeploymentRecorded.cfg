\* A redeployment on an unchanged schema with one failing command.
SPECIFICATION Spec
CONSTANTS
    Runs = {r1}
    Releases = {"cut", "rebuilt"}
    FileOrder <- TwoFiles
    Cutovers = {"pre-data91"}
    From <- MCFrom
    To <- MCTo
    Schema <- MCSchema
    Guarded <- MCGuarded
    Restorable = {"pre-data91"}
    Purged = {}
    InitialVersion = 3
    MaxFaults = 1
PROPERTIES
    RestoredIsRecorded
CHECK_DEADLOCK FALSE
