SPECIFICATION MCSpec
CONSTANTS
    Digest = {"g", "p", "r", "z", "x", "s", "t", "u", "y"}
    Author <- AllAuthors
    Entity <- Entities
    kind <- Kinds
    content <- MCContent
    NoDigest = "none"
    NoEntity = "none"
    NoAuthor = "none"
    ScanLimit = 0
    Keyed = {}
    Garbled = {}
    p1 = p1
    p2 = p2
    Proc = {p1, p2}
SYMMETRY Symmetry
INVARIANTS
    TypeOK
    AcceptedChain
    FiledUntilArrival
    AcceptedRefs
PROPERTIES
    OneDirection
    ImplementsReception
