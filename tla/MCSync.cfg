SPECIFICATION MCSpec
CONSTANTS
    Digest = {"a1", "a2", "b2", "c1"}
    Author <- AllAuthors
    Entity <- Entities
    kind <- Kinds
    content <- ChainBlocks
    NoDigest = "none"
    NoEntity = "none"
    NoAuthor = "none"
    ScanLimit <- NoLimit
    Keyed = {}
    Garbled = {}
    Proc = {"p"}
    rank <- Ranks
    syncer = "p"
    SourceList <- TwoSources
    Honest = {"s1", "s2"}
    Flaky = {}
    Gains <- AllGains
    Announced = {}
    Authors = {"A"}
    Families <- AloneFamily
    PageLimit = 1
    MaxPages = 2
    MaxPursuit = 2
    Resolving = TRUE
INVARIANTS
    ExposedForksAreFound
