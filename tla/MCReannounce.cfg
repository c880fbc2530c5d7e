SPECIFICATION FairAnnounceSpec
CONSTANTS
    Digest = {"g", "p", "r", "s", "t", "u", "v", "y", "b",
              "k", "j", "q", "o", "w", "x", "z", "i", "h", "l"}
    Author <- AllAuthors
    Entity <- Entities
    kind <- Kinds
    content <- MCContent
    NoDigest = "none"
    NoEntity = "none"
    NoAuthor = "none"
    ScanLimit = 2
    Keyed = {"q"}
    Garbled = {"w"}
    Announces <- MCAnnounces
    p1 = p1
    Proc = {p1}
PROPERTY
    SameReceipt
