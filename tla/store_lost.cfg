SPECIFICATION Spec
CONSTANTS
    Pods = {p1}
    Users = {u1}
    Chats = {c1}
    Ops = {o1, o2}
    Kinds = {"query"}
    MaxWrites = 3
    MaxFaults = 0
    Faults = {}
    Miss = Miss
    None = None
PROPERTY TurnsPersist
CHECK_DEADLOCK FALSE
