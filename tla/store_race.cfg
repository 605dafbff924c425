SPECIFICATION Spec
CONSTANTS
    Pods = {p1}
    Users = {u1, u2}
    Chats = {c1}
    Ops = {o1, o2}
    Kinds = {"history", "query", "delete"}
    MaxWrites = 3
    MaxFaults = 1
    Faults = {"redis", "sql", "pod"}
    Miss = Miss
    None = None
SYMMETRY Symmetry
INVARIANTS CountMatchesRows NoPhantom
