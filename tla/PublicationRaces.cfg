\* Four calls of any kind on one key, with storage maintenance and cutover.
SPECIFICATION Spec
CONSTANTS
    Calls = {c1, c2, c3, c4}
    k1 = k1
    k2 = k2
    plain = plain
    sourced = sourced
    Keys = {k1}
    Contents = {plain, sourced}
    Strict = {sourced}
    Cites <- MCCites
    Statements = {1, 2}
INVARIANTS
    EvidenceSetIsOnePublication
    CitationsResolve
    OneAnswerPerKey
    StorageIsComplete
PROPERTIES
    ReplayIsAccepted
SYMMETRY
    Symmetry
CHECK_DEADLOCK FALSE
