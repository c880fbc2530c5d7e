SPECIFICATION Spec
CONSTANTS
    Digest = {"a1", "a2", "a3", "b1", "b2", "c1", "c2", "c3", "d1", "d2"}
    Author <- AllAuthors
    Entity <- MCEntity
    kind <- MCKind
    content <- MCContent
    NoDigest = "none"
    NoEntity = "none"
    NoAuthor = "none"
    ScanLimit = 0
    Keyed = {"c3", "d2"}
    Garbled = {}
    rank <- MCRank
    molecule <- MCMolecule
    entityRank <- MCEntityRank
    SubscriptionSets <- MCSubscriptions
    Backlog = 1
INVARIANTS
    GraphIsItsBlocks
    IndexesAgreeWithNodes
    OrderFollowsHistory
    HistoriesAgree
    EquivalenceIsTheClosure
    DisagreementsAreSurfaced
    LoopsAreReported
    CurrentIsReached
PROPERTIES
    NobodyHasAVeto
    OthersChangeNothing
CHECK_DEADLOCK FALSE
