--------------------------- MODULE BlockEncoding ---------------------------
(***************************************************************************)
(* A block and its bytes: what Content.Validate demands, what a signature  *)
(* covers, Decode, the payload a private block hides, and the sealing that *)
(* ties it to its place in the chain (go/block, go/privacy).               *)
(*                                                                         *)
(* Signatures and the AEAD are functions of their inputs; a key and the    *)
(* public key that belongs to it are one value.                            *)
(***************************************************************************)
EXTENDS Entities

CONSTANTS
    PublicKeySize, SignatureSize, NonceSize, MinEncSize,
    Version,                \* the argument of the one recognised v
    DomainSeparator,
    Signature(_, _),        \* Ed25519: of a key over the signed bytes
    AeadSeal(_, _, _, _),   \* XChaCha20-Poly1305: key, nonce, plaintext, aad
    AeadOpen(_, _, _, _)    \* key, nonce, ciphertext, aad: the plaintext, or {}

NoPrev == <<>>
BlockTypes == {"public", "private", "rotation"}

(***************************************************************************)
(* Operations.                                                             *)
(***************************************************************************)
CreateAtom(description) == [op |-> "create_atom", description |-> description]
CreateBond(template) == [op |-> "create_bond", template |-> template]
CreateMolecule(m) == [op |-> "create_molecule", molecule |-> m]
RotateKey(newPub) == [op |-> "rotate_key", new_pub |-> newPub]

OperationValue(o) ==
    Map(<<Entry("op", Text(Name(o.op)))>>
          \o CASE o.op = "create_atom" -> <<Entry("description", Text(o.description))>>
               [] o.op = "create_bond" -> <<Entry("template", Text(o.template))>>
               [] o.op = "create_molecule" -> MoleculeEntries(o.molecule)
               [] o.op = "rotate_key" -> <<Entry("new_pub", Bytes(o.new_pub))>>)

\* A create_molecule without its "op" is encoded and decoded as a molecule.
decodeMolecule(m) ==
    LET entity == Map([i \in 1..2 |-> LET n == <<"bond", "fillers">>[i]
                                      IN  Entry(n, CHOOSE v \in Field(m, n) : TRUE)])
    IN  {CreateMolecule(x) : x \in UNION {DecodeMolecule(e) : e \in Encode(entity)}}

decodeOperation(v) ==
    LET Is(name, names) == {m \in maps(v, {"op"} \cup names) : Name(name) \in textField(m, "op")}
    IN  UNION {{CreateAtom(d) : d \in UNION {NewAtom(s) : s \in textField(m, "description")}} :
                 m \in Is("create_atom", {"description"})}
        \cup UNION {{CreateBond(t) : t \in UNION {NewBond(s) : s \in textField(m, "template")}} :
                      m \in Is("create_bond", {"template"})}
        \cup UNION {decodeMolecule(m) : m \in Is("create_molecule", {"bond", "fillers"})}
        \cup UNION {{RotateKey(p) : p \in bytesField(m, "new_pub", PublicKeySize)} :
                      m \in Is("rotate_key", {"new_pub"})}

(***************************************************************************)
(* The payload: the fields a private block hides.                          *)
(***************************************************************************)
Payload(refs, ts, ops) == [refs |-> refs, ts |-> ts, ops |-> ops]

uniqueRefs(refs) == IsInjective(refs)
Rotates(ops) == \E i \in DOMAIN ops : ops[i].op = "rotate_key"
ValidPayload(p) == uniqueRefs(p.refs) /\ p.ops # <<>> /\ ~Rotates(p.ops)

PayloadEntries(p) ==
    <<Entry("refs", Array([i \in DOMAIN p.refs |-> Bytes(p.refs[i])])),
      Entry("ts", Uint(p.ts)),
      Entry("ops", Array([i \in DOMAIN p.ops |-> OperationValue(p.ops[i])]))>>
EncodePayload(p) == IF ValidPayload(p) THEN Encode(Map(PayloadEntries(p))) ELSE {}

refsField(m) ==
    LET digest(v) == IF v.t = "bytes" /\ Len(v.s) = DigestSize THEN {v.s} ELSE {}
    IN  {refs \in UNION {All([i \in DOMAIN items |-> digest(items[i])]) :
                                  items \in arrayField(m, "refs")} : uniqueRefs(refs)}
opsField(m) ==
    {ops \in UNION {All([i \in DOMAIN items |-> decodeOperation(items[i])]) :
                                 items \in arrayField(m, "ops")} : ops # <<>>}
payloadFields(m) ==
    {Payload(refs, ts, ops) : refs \in refsField(m), ts \in uintField(m, "ts"), ops \in opsField(m)}

DecodePayload(data) ==
    LET decoded == UNION {maps(v, {"refs", "ts", "ops"}) : v \in Decode(data)}
    IN  {p \in UNION {payloadFields(m) : m \in decoded} : EncodePayload(p) = {data}}

(***************************************************************************)
(* The content of a block: everything its signature covers.                *)
(***************************************************************************)
Clear(type, pub, prev, p) ==
    [version |-> Version, type |-> type, pub |-> pub, prev |-> prev, payload |-> p]
Hidden(pub, prev, enc, nonce) ==
    [version |-> Version, type |-> "private", pub |-> pub, prev |-> prev,
     enc |-> enc, nonce |-> nonce]

Validate(c) ==
    /\ c.version = Version
    /\ Len(c.pub) = PublicKeySize
    /\ CASE c.type = "private" -> Len(c.enc) >= MinEncSize /\ Len(c.nonce) = NonceSize
         [] c.type = "public" -> ValidPayload(c.payload)
         [] c.type = "rotation" ->
               /\ uniqueRefs(c.payload.refs)
               /\ Len(c.payload.ops) = 1
               /\ Rotates(c.payload.ops)
               /\ c.payload.ops[1].new_pub # c.pub
               /\ c.prev # NoPrev
         [] OTHER -> FALSE

prevValue(prev) == IF prev = NoPrev THEN Null ELSE Bytes(prev)
headerEntries(c) ==
    <<Entry("v", Uint(c.version)), Entry("type", Text(Name(c.type))),
      Entry("pub", Bytes(c.pub)), Entry("prev", prevValue(c.prev))>>
signingValue(c) ==
    headerEntries(c)
      \o IF c.type = "private"
         THEN <<Entry("enc", Bytes(c.enc)), Entry("nonce", Bytes(c.nonce))>>
         ELSE PayloadEntries(c.payload)

\* Mutant: the last field is not signed.
SigningInputButOne(c) ==
    IF Validate(c) THEN {DomainSeparator \o b : b \in Encode(Map(Front(signingValue(c))))} ELSE {}
SigningInput(c) ==
    IF Validate(c) THEN {DomainSeparator \o b : b \in Encode(Map(signingValue(c)))} ELSE {}

\* A block is what it was assembled from, and its bytes.
assemble(c, sig) ==
    IF Len(sig) = SignatureSize /\ \E input \in SigningInput(c) : sig = Signature(c.pub, input)
    THEN {[content |-> c, sig |-> sig, enc |-> b] :
             b \in Encode(Map(signingValue(c) \o <<Entry("sig", Bytes(sig))>>))}
    ELSE {}
Sign(c) == UNION {assemble(c, Signature(c.pub, input)) : input \in SigningInput(c)}
Digest(b) == SumDigest(b.enc)

(***************************************************************************)
(* Decode.                                                                 *)
(***************************************************************************)
prevField(m) ==
    {NoPrev : v \in {v \in Field(m, "prev") : v.t = "null"}} \cup digestField(m, "prev")
typeField(m) == {t \in BlockTypes : Name(t) \in textField(m, "type")}
FieldsOf(type) ==
    {"v", "type", "pub", "sig", "prev"}
      \cup IF type = "private" THEN {"enc", "nonce"} ELSE {"refs", "ts", "ops"}
encField(m) == {v.s : v \in {v \in Field(m, "enc") : v.t = "bytes"}}

contentFields(m, type) ==
    LET pubs == bytesField(m, "pub", PublicKeySize)
    IN  IF type = "private"
        THEN {Hidden(pub, prev, enc, nonce) :
                 pub \in pubs, prev \in prevField(m),
                 enc \in encField(m), nonce \in bytesField(m, "nonce", NonceSize)}
        ELSE {Clear(type, pub, prev, p) :
                 pub \in pubs, prev \in prevField(m), p \in payloadFields(m)}

DecodeBlock(data) ==
    LET versioned == {v \in Decode(data) : v.t = "map" /\ Version \in uintField(v, "v")}
        typed == {[m |-> m, type |-> t] : m \in versioned, t \in UNION {typeField(v) : v \in versioned}}
        closed == {x \in typed : requireKeys(x.m, FieldsOf(x.type))}
        Of(x) == UNION {assemble(c, sig) : c \in contentFields(x.m, x.type),
                                           sig \in bytesField(x.m, "sig", SignatureSize)}
    IN  {b \in UNION {Of(x) : x \in closed} : b.enc = data}

(***************************************************************************)
(* The privacy package: sealing a payload into the place it will take.     *)
(***************************************************************************)
Header(pub, prev) == [version |-> Version, type |-> "private", pub |-> pub, prev |-> prev]
\* Mutant: the sealing is tied to the chain alone.
AADOfTheChain(h) == CHOOSE b \in Encode(Map(Front(headerEntries(h)))) : TRUE
AAD(h) == CHOOSE b \in Encode(Map(headerEntries(h))) : TRUE
Seal(h, key, p, nonce) ==
    {AeadSeal(key, nonce, plaintext, AAD(h)) : plaintext \in EncodePayload(p)}
HeaderOf(b) == Header(b.content.pub, b.content.prev)
Open(b, key) ==
    IF b.content.type # "private" THEN {}
    ELSE UNION {DecodePayload(plaintext) :
                  plaintext \in AeadOpen(key, b.content.nonce, b.content.enc, AAD(HeaderOf(b)))}
=============================================================================
