SPECIFICATION FairSpec
CONSTANTS
    p1 = p1
    p2 = p2
    o1 = o1
    o2 = o2
    Pods = {p1, p2}
    Ops = {o1, o2}
    Legacy = {"a", "b"}
    MaxFaults = 2
    Texts <- Triples
    MaxChunk = 3
    MaxCut = 4
    Models = {"m1", "m2"}
    DefaultModel = "m1"
    Unknown = "mx"
    Queries = {"q1", "q2"}
    MaxSelects = 3
    MaxCrashes = 1
INVARIANTS TypesOK ReadyNotLegacy NothingLost PageShowsAnswer AnsweredBySelection
PROPERTIES ValidTokenAccepted PatientUserServed NegativeHeals KeysFollowProvider NamesHeal
CHECK_DEADLOCK FALSE
