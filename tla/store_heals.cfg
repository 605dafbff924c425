SPECIFICATION FairSpec
CONSTANTS
    Pods = {p1, p2}
    Users = {u1}
    Chats = {c1}
    Ops = {o1, o2}
    Kinds = {"history", "query", "delete"}
    MaxWrites = 2
    MaxFaults = 1
    Faults = {"redis", "sql", "pod"}
    Miss = Miss
    None = None
PROPERTIES EventuallyCoherent ImplementsTable
