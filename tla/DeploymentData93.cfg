\* data_93_cutover: its write marker has no arm in restore_interrupted_release_state.
SPECIFICATION Spec
CONSTANTS
    Runs = {r1, r2, r3}
    Releases = {"base", "cut"}
    FileOrder <- TwoFiles
    Cutovers = {"pre-data93"}
    From <- MCFrom
    To <- MCTo
    Schema <- MCSchema
    Guarded <- MCGuarded
    Restorable = {}
    Purged = {}
    InitialVersion = 1
    MaxFaults = 1
PROPERTIES
    MarkedReleaseResumes
CHECK_DEADLOCK FALSE
