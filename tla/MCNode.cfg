SPECIFICATION NodeSpec
CONSTANTS
    Digest = {"a1", "a2", "a3", "b1", "b2", "c1", "c2", "c3", "d1", "d2", "c4"}
    Author <- AllAuthors
    Entity <- MCEntity
    kind <- MCKind
    content <- NodeContent
    NoDigest = "none"
    NoEntity = "none"
    NoAuthor = "none"
    ScanLimit = 0
    Keyed = {}
    Garbled = {}
    rank <- NodeRank
    molecule <- MCMolecule
    entityRank <- MCEntityRank
    ts <- NodeTs
    size <- NodeSize
    File = {"a1", "a2", "a3", "b1", "b2", "c1", "c2", "c4", "d1", "d2"}
    Format = "dialog-demo-chains/1"
    Directories <- MCDirectories
    Client = {"x", "y"}
    Requests <- MCRequests
    MaxChanges = 3
INVARIANTS
    LoadIsExact
    ReportsAddUp
    AnswersAreAttributed
CHECK_DEADLOCK FALSE
