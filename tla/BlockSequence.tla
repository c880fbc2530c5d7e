--------------------------- MODULE BlockSequence ---------------------------
(***************************************************************************)
(* Blocks from the authors who write them to a reader: block.Builder and   *)
(* privacy.SealBlock on one side, transport.ReadSeq on the other, and in   *)
(* between a body of bytes that may be cut short or damaged.               *)
(*                                                                         *)
(* Instead of blocks, the body may also hold one dCBOR item.               *)
(***************************************************************************)
EXTENDS BlockEncoding

CONSTANTS
    Author,             \* public keys
    contentKey,         \* contentKey[a]: the key a's private blocks are sealed with
    Payloads,           \* what authors publish, in the clear or sealed
    NewPubs,            \* the keys a rotation may name
    Nonces,             \* what randomBytes may yield
    Items,              \* values that may be written as an item
    Exponents, Mantissas,   \* what NewDecimal may be called with
    Bounds,             \* the bounds ReadSeq is called with
    DefaultMaxSeqBytes,
    Noise, ItemNoise,   \* what damage adds to a byte of blocks, and of an item
    MaxBlocks,          \* bound: blocks in a body
    MaxCut, MaxDamaged, \* bounds: blocks in a body that is cut short, or damaged
    FaultyBound         \* bound: the one bound a faulty body is read under

VARIABLES
    builders,   \* builders[a]: the state of a's Builder
    sent,       \* the blocks written, in order
    sealed,     \* sealed[i]: the payload sealed for sent[i], if there was one
    wire,       \* the body
    number,     \* what NewDecimal was called with, for the item in the body
    faults,     \* what happened to the body since it was written
    result      \* what ReadSeq returned

vars == <<builders, sent, sealed, wire, number, faults, result>>

NoResult == [read |-> FALSE, max |-> 0, blocks |-> {}]
NewBuilder == [tip |-> NoPrev, rotated |-> FALSE, genesisRefs |-> <<>>]

Init ==
    /\ builders = [a \in Author |-> NewBuilder]
    /\ sent = <<>>
    /\ sealed = <<>>
    /\ wire = <<>>
    /\ number = {}
    /\ faults = "none"
    /\ result = NoResult

(***************************************************************************)
(* Builder.                                                                *)
(***************************************************************************)
Writing == faults = "none" /\ ~result.read /\ Len(sent) < MaxBlocks /\ (sent = <<>> => wire = <<>>)

\* Succeeds: recorded until the genesis block is signed.
Succeeds(a) ==
    /\ Writing
    /\ \E b \in Range(sent) :
        /\ builders[a].tip = NoPrev
        /\ b.content.type = "rotation"
        /\ b.content.payload.ops[1].new_pub = a
        /\ ~Contains(builders[a].genesisRefs, Digest(b))
        /\ builders' = [builders EXCEPT ![a].genesisRefs = Append(@, Digest(b))]
        /\ UNCHANGED <<sent, sealed, wire, number, faults, result>>

\* The content build signs: the genesis block of a successor chain is public,
\* and names the rotations it succeeds before any other ref.
Positioned(a, c) ==
    LET genesisRefs == IF builders[a].tip = NoPrev THEN builders[a].genesisRefs ELSE <<>>
    IN  IF genesisRefs = <<>> THEN {c}
        ELSE IF c.type = "public" THEN {[c EXCEPT !.payload.refs = genesisRefs \o @]}
        ELSE {}

Signed(a, c) == IF builders[a].rotated THEN {} ELSE UNION {Sign(x) : x \in Positioned(a, c)}

\* build: what was sealed for the block, if anything, is kept for comparison.
build(a, c, hidden) ==
    /\ Writing
    /\ \E b \in Signed(a, c) :
        /\ builders' = [builders EXCEPT ![a].tip = Digest(b), ![a].rotated = c.type = "rotation"]
        /\ sent' = Append(sent, b)
        /\ sealed' = Append(sealed, hidden)
        /\ wire' = wire \o b.enc
        /\ UNCHANGED <<number, faults, result>>

Public(a) == \E p \in Payloads : build(a, Clear("public", a, builders[a].tip, p), {})

Rotation(a) ==
    \E newPub \in NewPubs :
        build(a, Clear("rotation", a, builders[a].tip, Payload(<<>>, <<>>, <<RotateKey(newPub)>>)), {})

Private(a, enc, nonce, hidden) == build(a, Hidden(a, builders[a].tip, enc, nonce), hidden)

\* SealBlock reads the position from the builder.
SealBlock(a) ==
    /\ Writing
    /\ \E p \in Payloads, nonce \in Nonces :
        /\ \A b \in Range(sent) : b.content.type = "private" => b.content.nonce # nonce
        /\ \E enc \in Seal(Header(a, builders[a].tip), contentKey[a], p, nonce) :
              Private(a, enc, nonce, {p})

\* A ciphertext sealed for one block signed into another.
SignAgain(a) ==
    \E b \in Range(sent) : /\ b.content.type = "private"
                           /\ Private(a, b.content.enc, b.content.nonce, {})

(***************************************************************************)
(* A body that holds one item.                                             *)
(***************************************************************************)
WriteItem(v, n) ==
    /\ Writing
    /\ sent = <<>>
    /\ \E b \in Encode(v) : wire' = b
    /\ number' = n
    /\ UNCHANGED <<builders, sent, sealed, faults, result>>

WriteDecimal ==
    /\ Writing
    /\ \E e \in Exponents, m \in Mantissas :
        \E v \in NewDecimal(e, m) : WriteItem(v, {<<e, m>>})

(***************************************************************************)
(* What may happen to a body on its way.                                   *)
(***************************************************************************)
InTransit == ~result.read /\ faults = "none" /\ wire # <<>> /\ number = {}

Cut ==
    /\ InTransit /\ Len(sent) <= MaxCut
    /\ \E n \in 0..(Len(wire) - 1) :
        /\ wire' = SubSeq(wire, 1, n)
        /\ faults' = "cut"
        /\ UNCHANGED <<builders, sent, sealed, number, result>>

Damage ==
    /\ InTransit /\ Len(sent) <= MaxDamaged
    /\ \E i \in DOMAIN wire, x \in IF sent = <<>> THEN ItemNoise ELSE Noise :
        /\ wire' = [wire EXCEPT ![i] = (@ + x) % 256]
        /\ faults' = "damaged"
        /\ UNCHANGED <<builders, sent, sealed, number, result>>

(***************************************************************************)
(* ReadSeq.                                                                *)
(***************************************************************************)
EncodeSeq(blocks) == FlattenSeq([i \in DOMAIN blocks |-> blocks[i].enc])

RECURSIVE DecodeSeq(_)
DecodeSeq(seq) ==
    LET Rest(n) == SubSeq(seq, n + 1, Len(seq))
    IN  IF seq = <<>> THEN {<<>>}
        ELSE UNION {UNION {{<<b>> \o blocks : blocks \in DecodeSeq(Rest(x.n))} :
                             b \in DecodeBlock(SubSeq(seq, 1, x.n))} : x \in DecodePrefix(seq)}

\* Zero asks for the default bound, and less than zero for none.
BoundOf(max) == IF max = 0 THEN DefaultMaxSeqBytes ELSE max

\* One byte past the bound is read, and tells a body that is too large.
ReadAll(body, max) ==
    LET bound == BoundOf(max)
        raw == IF bound < 0 \/ Len(body) <= bound THEN body ELSE SubSeq(body, 1, bound + 1)
    IN  IF bound >= 0 /\ Len(raw) > bound THEN {} ELSE DecodeSeq(raw)

ReadSeq ==
    /\ ~result.read
    /\ sent # <<>>
    /\ \E max \in IF faults = "none" THEN Bounds ELSE {FaultyBound} :
        /\ result' = [read |-> TRUE, max |-> max, blocks |-> ReadAll(wire, max)]
        /\ UNCHANGED <<builders, sent, sealed, wire, number, faults>>

Next ==
    \/ \E a \in Author : Succeeds(a) \/ Public(a) \/ Rotation(a) \/ SealBlock(a) \/ SignAgain(a)
    \/ \E v \in Items : WriteItem(v, {})
    \/ WriteDecimal
    \/ Cut
    \/ Damage
    \/ ReadSeq

Spec == Init /\ [][Next]_vars

(***************************************************************************)
(* Properties.                                                             *)
(***************************************************************************)
\* Every byte is a byte, what a Builder keeps is a digest, and what a reader
\* returns was assembled from a valid content (writeHead, Sign, Decode).
WireTypeOK ==
    /\ \A i \in DOMAIN wire : wire[i] \in Byte
    /\ \A a \in Author : /\ builders[a].tip \in {NoPrev} \cup {Digest(b) : b \in Range(sent)}
                         /\ builders[a].rotated \in BOOLEAN
    /\ \A blocks \in result.blocks : \A b \in Range(blocks) : Validate(b.content)
    /\ Cardinality(result.blocks) <= 1
    /\ Len(sealed) = Len(sent)

\* What was written is what is read, if the bound allows it: the encoder and
\* the decoder were written apart, and agree on every block an author can
\* sign, on every sequence of them, and on every item that was encoded,
\* however deep it nests (Encode, Decode, ReadSeq).
WhatIsSentIsRead ==
    faults = "none" =>
        /\ sent = <<>> /\ wire # <<>> => Decode(wire) # {}
        /\ result.read =>
             LET bound == BoundOf(result.max)
             IN  result.blocks = IF bound < 0 \/ Len(wire) <= bound THEN {sent} ELSE {}

\* Whatever happens to a body, it is read whole or not at all, never up to
\* the bound or to the last block that came through whole; and every block
\* read is one its author signed, in its place, since the signature covers
\* every field (ReadSeq, DecodeSeq, SigningInput).
DamageIsNoticed ==
    \A blocks \in result.blocks : EncodeSeq(blocks) = wire /\ IsPrefix(blocks, sent)

\* An item has one encoding: no other bytes are accepted for it, and two
\* values are Equal when and only when their encodings are the same, whatever
\* the order of their entries.
OneEncoding ==
    \A x \in DecodePrefix(wire) :
        /\ Encode(x.v) = {SubSeq(wire, 1, x.n)}
        /\ \A v \in Items : Equal(x.v, v) <=> Encode(v) = Encode(x.v)

\* NewDecimal yields the number it was asked for, in its one form: the whole
\* numbers as integers, and no number that wrapped around.
DecimalsAreExact ==
    \A n \in number :
        faults = "none" =>
            \A v \in Decode(wire) :
                LET Whole(i) == IF i.t = "neg" THEN -1 - ValueOf(i.arg) ELSE ValueOf(i.arg)
                    exponent == IF v.t = "decimal" THEN Whole(v.exponent) ELSE 0
                    mantissa == IF v.t = "decimal" THEN Whole(v.mantissa) ELSE Whole(v)
                    least == IF exponent < n[1] THEN exponent ELSE n[1]
                IN  mantissa * 10 ^ (exponent - least) = n[2] * 10 ^ (n[1] - least)

\* A sealed payload opens where it was sealed, for the chain's key, and in no
\* other block it is signed into (Header.AAD).
PayloadsStayInPlace ==
    \A i \in DOMAIN sent : Open(sent[i], contentKey[sent[i].content.pub]) = sealed[i]
=============================================================================
