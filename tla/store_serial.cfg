SPECIFICATION Spec
CONSTANTS
    Pods = {p1}
    Users = {u1}
    Chats = {c1, c2}
    Ops = {o1}
    Kinds = {"history", "query", "create", "delete", "list"}
    MaxWrites = 4
    MaxFaults = 0
    Faults = {}
    Miss = Miss
    None = None
SYMMETRY Symmetry
INVARIANTS TypeOK CoherentWhenIdle
