SPECIFICATION FairSpec
CONSTANTS
    Chats = {c0, c1, c2}
    First = c0
    Old = {c1}
    Queries = {1, 2}
    MaxLoads = 2
    Acts = {1, 2}
    MaxClicks = 3
    MaxFaults = 1
    None = None
INVARIANTS TypeOK ShowsItsChat OneStream TabAgrees
PROPERTY ComposerComesBack
CHECK_DEADLOCK FALSE
