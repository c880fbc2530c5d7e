SPECIFICATION MCSpec
CONSTANTS
    Digest = {"a1", "a2", "a3", "b2"}
    Author <- AllAuthors
    Entity <- Entities
    kind <- Kinds
    content <- ChainBlocks
    NoDigest = "none"
    NoEntity = "none"
    NoAuthor = "none"
    ScanLimit <- NoLimit
    Keyed = {}
    Garbled = {}
    Proc = {"p"}
    rank <- Ranks
    syncer = "p"
    SourceList <- OneSource
    Honest = {"s1"}
    Flaky = {"s1"}
    Gains <- AllGains
    Announced = {}
    Authors = {"A"}
    Families <- AloneFamily
    PageLimit = 2
    MaxPages = 2
    MaxPursuit = 2
    Resolving = TRUE
INVARIANTS
    ExposedForksAreFound
