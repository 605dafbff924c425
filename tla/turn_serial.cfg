SPECIFICATION FairSpec
CONSTANTS
    Queries = {1, 2}
    Chats = {c1, c2}
    MaxActive = 1
    MaxDeletes = 1
    MaxTokens = 1
    Failures = {"disconnect", "llm", "model", "redis"}
    None = None
INVARIANTS TypeOK CompleteAnswers DeletedStaysGone
PROPERTIES AnsweredIsKept
CHECK_DEADLOCK FALSE
