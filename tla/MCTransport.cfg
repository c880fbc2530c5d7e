SPECIFICATION MCSpec
CONSTANTS
    Digest = {"a1", "a2", "a3", "b2", "s"}
    Author = {"A"}
    Entity <- Entities
    kind <- Kinds
    content <- MCContent
    NoDigest = "none"
    NoEntity = "none"
    NoAuthor = "none"
    rank <- MCRank
    Caller = {"x1", "x2"}
    Batches <- MCBatches
    Reader = {"r1"}
    Limits = {2}
    Wanted <- MCWanted
    Proc = {"p1", "p2"}
    Sources = 2
    Prefetches <- MCPrefetches
    MaxCalls = 3
INVARIANTS
    IndexesAgree
    EveryForkIsFlagged
    AnswersHideNothing
    QuietAnswersAgree
    MissingIsNotObtained
CHECK_DEADLOCK FALSE
