SPECIFICATION FairSpec
CONSTANTS
    Queries = {1, 2}
    Chats = {c1}
    MaxActive = 2
    MaxDeletes = 0
    MaxTokens = 0
    Failures = {"disconnect", "llm", "shutdown"}
    None = None
INVARIANTS OwnUnlessMet DoneExactlyOnce
PROPERTIES EveryStreamEnds
CHECK_DEADLOCK FALSE
