-------------------------- MODULE MCBlockSequence --------------------------
EXTENDS BlockSequence

\* Stand-ins for SHA-256, Ed25519 and the AEAD, of two bytes each.
\* A checksum weighs every byte by its place.
RECURSIVE Weighed(_, _, _)
Weighed(s, i, j) ==
    IF i > j THEN 0
    ELSE IF i = j THEN (s[i] + 1) * ((17 * i * i * i + 31 * i + 7) % 65521)
    ELSE (Weighed(s, i, (i + j) \div 2) + Weighed(s, (i + j) \div 2 + 1, j)) % 65521
Checksum(s) == Weighed(s, 1, Len(s)) % 65521
TwoBytes(n) == <<n \div 256, n % 256>>
MCSumDigest(s) == TwoBytes(Checksum(s))
MCSignature(key, input) == TwoBytes(Checksum(key \o <<1>> \o input))

Mask(key, nonce, s) == [i \in DOMAIN s |-> (s[i] + key[1] + nonce[1] + i) % 256]
Unmask(key, nonce, s) == [i \in DOMAIN s |-> (s[i] + 1024 - key[1] - nonce[1] - i) % 256]
Tag(key, nonce, plaintext, aad) == TwoBytes(Checksum(key \o nonce \o <<2>> \o aad \o plaintext))
MCAeadSeal(key, nonce, plaintext, aad) ==
    Mask(key, nonce, plaintext) \o Tag(key, nonce, plaintext, aad)
MCAeadOpen(key, nonce, ciphertext, aad) ==
    LET n == Len(ciphertext) - 2
        plaintext == Unmask(key, nonce, SubSeq(ciphertext, 1, n))
    IN  IF Tag(key, nonce, plaintext, aad) = SubSeq(ciphertext, n + 1, n + 2) THEN {plaintext} ELSE {}

A == <<65>>
B == <<66>>
MCAuthor == {A, B}
MCContentKey == (A :> <<11>>) @@ (B :> <<12>>)

dog == <<100>>
seconds == <<1, 2>>
isA == <<95, 65, 95, 66, 95, 67, 95>>    \* _A_B_C_: two variables, A and C
Statement(fillers) == CreateMolecule([bond |-> <<3, 4>>, fillers |-> fillers])
Half == Decimal(Neg(<<>>), Uint(<<5>>))
MCPayloads ==
    {Payload(<<>>, <<24>>, <<CreateAtom(dog), CreateBond(isA)>>),
     Payload(<<<<9, 9>>>>, <<1, 0>>,
             <<Statement(<<RefFiller("atom", seconds), ScalarFiller(Number(Half, seconds)),
                           [typ |-> "ipfs_uri", uri |-> <<195, 169>>],
                           ScalarFiller(DatetimeRange(<<49>>, <<50>>))>>)>>)}
MCNewPubs == {B}
MCNonces == {<<1>>}

Nested(n) == FoldLeft(LAMBDA v, i : Array(<<v>>), Null, [i \in 1..n |-> i])
E(key, v) == MapEntry(key, v)
MCItems ==
    {Uint(<<23>>), Neg(<<255>>), Uint(<<24>>), Uint(<<255>>), Uint(<<1, 0>>), Uint(<<1, 0, 0>>), Uint(<<255, 255>>),
     Uint(<<1, 0, 0, 0, 0>>), Neg(<<255, 255, 255, 255, 255, 255, 255, 255>>),
     Null, Text(<<195, 169, 97>>), Bytes(<<195>>), Array(<<>>), Half,
     Decimal(Neg(<<1>>), Neg(<<127, 255, 255, 255, 255, 255, 255, 254>>)),
     Map(<<E(<<98>>, Uint(<<1>>)), E(<<97>>, Null)>>), Map(<<E(<<97>>, Null), E(<<98>>, Uint(<<1>>))>>),
     Map(<<E(<<97>>, Null), E(<<97>>, Null)>>), Map(<<E(<<97, 97>>, Null), E(<<98>>, Null)>>),
     Nested(7), Nested(8), Array(<<Half, Map(<<E(<<>>, Half)>>)>>)}

MCTimestamps == {<<49>>, <<50>>}
MCVersion == <<1>>
MCDomainSeparator == <<68>>
Unbounded == -1
MCBounds == {Unbounded, 0, 97, 98}
MCMantissas == -128..127
MCExponents == -3..3
=============================================================================
