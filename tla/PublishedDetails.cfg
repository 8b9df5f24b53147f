\* Every stored report can be opened: refuted by what the two validations disagree on.
SPECIFICATION ContractSpec
CONSTANTS
    Absent = Absent
    keyA = keyA
    keyB = keyB
    bad = bad
    endless = endless
    e1 = e1
    e2 = e2
    gone = gone
    LocalKeys = {keyA, keyB}
    LongKeys = {endless}
    KnownEvidence = {e1, e2}
    Drafts <- MCDrafts
INVARIANTS
    PublishedDetailsAreServed
CHECK_DEADLOCK FALSE
