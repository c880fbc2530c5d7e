SPECIFICATION FairMCSpec
CONSTANTS
    Digest = {"g", "x", "v", "s", "u"}
    Author <- AllAuthors
    Entity <- Entities
    kind <- Kinds
    content <- LiarBlocks
    NoDigest = "none"
    NoEntity = "none"
    NoAuthor = "none"
    ScanLimit <- NoLimit
    Keyed = {}
    Garbled = {}
    Proc = {"p", "q"}
    rank <- Ranks
    syncer = "p"
    SourceList <- OneSource
    Honest = {}
    Flaky = {"s1"}
    Gains <- AllGains
    Announced = {"v"}
    Authors = {"A"}
    Families <- LiarFamilies
    PageLimit = 1
    MaxPages = 2
    MaxPursuit = 1
    Resolving = TRUE
INVARIANTS
    TipIsReached
    RejectedIsUnsound
    ResumeCoversTheChain
PROPERTIES
    SyncTerminates
