SPECIFICATION Spec
CONSTANTS
    Users = {u1, u2}
    Names = {a}
    Uploads = {t1, t2}
    Deletes = {d1, d2}
    Choices = {}
    Pods = {p1}
    MaxFaults = 1
    None = None
    Here = {}
    ThisPod = p1
SYMMETRY Symmetry
INVARIANTS TypeOK RowHasItsChunks ChunksAccounted
CHECK_DEADLOCK FALSE
