------------------------------- MODULE Blocks -------------------------------
(***************************************************************************)
(* The blocks of Layer 1, as the validator sees them (go/block).           *)
(*                                                                         *)
(* A block is identified with its digest: SumDigest is SHA-256 over the    *)
(* block's canonical bytes, so a digest determines the block.  The         *)
(* universe of blocks that may ever be offered to a node is fixed by the   *)
(* function content; nothing forces a store to hold all of it.             *)
(*                                                                         *)
(* Bytes, signatures and the dCBOR encoding are abstracted: a *Block       *)
(* exists only through Decode, Sign or Assemble, and all three run         *)
(* Content.Validate and verify the signature (block.go), so what remains   *)
(* of rules 1, 2, 7 and 8 is the assumption WellFormedContent.             *)
(***************************************************************************)
EXTENDS Integers, Sequences, FiniteSets, Functions

CONSTANTS
    Digest,     \* digests of the blocks that may exist
    Author,     \* public keys
    Entity,     \* digests of atoms, bonds and molecules
    NoDigest,   \* the null prev; also "no block" in an optional field
    NoEntity,   \* what a rotate_key operation creates
    NoAuthor,   \* the new_pub of a block that is not a rotation block
    kind,       \* kind[e]: the kind of entity the digest e names
    content     \* content[d]: the content of the block with digest d

BlockType == {"public", "private", "rotation"}
EntityKind == {"atom", "bond", "molecule"}

\* An entity digest an operation carries, and the kind its position names.
Reference == [entity : Entity, kind : EntityKind]

\* An operation: the entity it creates, what it references in order, and
\* whether its filler count equals the variable count of its bond (a
\* function of the two entities' bytes; TRUE of every other operation).
Operation == [creates : Entity \cup {NoEntity},
              references : Seq(Reference),
              fits : BOOLEAN]

\* refs and ops of a private block are the payload inside its enc field.
Content == [type : BlockType,
            pub : Author,
            prev : Digest \cup {NoDigest},
            refs : Seq(Digest),
            ops : Seq(Operation),
            newPub : Author \cup {NoAuthor}]

Unique(s) == \A i, j \in DOMAIN s : s[i] = s[j] => i = j

\* Content.Validate, and Payload.Validate for the payload of a private block.
WellFormed(c) ==
    /\ Unique(c.refs)
    /\ c.ops # <<>>
    /\ IF c.type = "rotation"
       THEN /\ Len(c.ops) = 1
            /\ c.ops[1].creates = NoEntity
            /\ c.ops[1].references = <<>>
            /\ c.newPub \in Author \ {c.pub}
            /\ c.prev # NoDigest
       ELSE /\ \A i \in DOMAIN c.ops : c.ops[i].creates \in Entity
            /\ c.newPub = NoAuthor

\* The plaintext refs and ops of a block: a private block has neither.
Refs(d) == IF content[d].type = "private" THEN <<>> ELSE content[d].refs
IsGenesis(d) == content[d].prev = NoDigest
SameAuthor(a, b) == content[a].pub = content[b].pub

\* What op.Creates() yields over the operations of a block's payload.
Definitions(d) == {content[d].ops[i].creates : i \in DOMAIN content[d].ops}
                    \ {NoEntity}

ASSUME NullsAssumption ==
    /\ NoDigest \notin Digest
    /\ NoEntity \notin Entity
    /\ NoAuthor \notin Author

ASSUME ContentAssumption ==
    /\ kind \in [Entity -> EntityKind]
    /\ content \in [Digest -> Content]

ASSUME WellFormedContent == \A d \in Digest : WellFormed(content[d])

\* A digest is 32 bytes.
ASSUME DigestsAreFinite == IsFiniteSet(Digest)

\* A digest is computed from the digests a block names, so no set of blocks
\* can name each other in a circle: some member names no other member.
ASSUME HashesAreAcyclic ==
    \A S \in SUBSET Digest :
        S # {} => \E d \in S : /\ content[d].prev \notin S
                               /\ Range(content[d].refs) \cap S = {}
=============================================================================
