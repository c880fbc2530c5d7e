SPECIFICATION Spec
CONSTANTS
    MaxDepth = 7
    IntBits = 8
    DigestSize = 2
    PublicKeySize = 1
    SignatureSize = 2
    NonceSize = 1
    MinEncSize = 2
    SumDigest <- MCSumDigest
    Signature <- MCSignature
    AeadSeal <- MCAeadSeal
    AeadOpen <- MCAeadOpen
    Timestamps <- MCTimestamps
    Version <- MCVersion
    DomainSeparator <- MCDomainSeparator
    Author <- MCAuthor
    contentKey <- MCContentKey
    Payloads <- MCPayloads
    NewPubs <- MCNewPubs
    Nonces <- MCNonces
    Items <- MCItems
    Exponents <- MCExponents
    Mantissas <- MCMantissas
    Bounds <- MCBounds
    DefaultMaxSeqBytes = 163
    Noise = {1, 32}
    ItemNoise = {1, 2, 4, 8, 16, 32, 64, 128, 192, 224, 255}
    MaxBlocks = 3
    MaxCut = 2
    MaxDamaged = 1
    FaultyBound <- Unbounded
INVARIANTS
    WhatIsSentIsRead
    DamageIsNoticed
    OneEncoding
    DecimalsAreExact
    PayloadsStayInPlace
CHECK_DEADLOCK FALSE
