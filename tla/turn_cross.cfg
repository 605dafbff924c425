SPECIFICATION Spec
CONSTANTS
    Queries = {1, 2}
    Chats = {c1, c2}
    MaxActive = 2
    MaxDeletes = 0
    MaxTokens = 1
    Failures = {}
    None = None
INVARIANTS OwnTurnsOnly
CHECK_DEADLOCK FALSE
