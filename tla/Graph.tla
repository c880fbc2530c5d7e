------------------------------- MODULE Graph -------------------------------
(***************************************************************************)
(* graph.Graph: Layer 2, the accumulated entities of the blocks a node has *)
(* validated, each tagged with who published it and in which block.        *)
(*                                                                         *)
(* Ingest holds the write lock from its first look at the graph to its     *)
(* last write, so it is one step.  The indexes are ascending slices        *)
(* without duplicates, kept so that a query need not range over a map: as  *)
(* values they are sets, and are sets here.  An entity's kind is a         *)
(* function of its digest (a map with a key "template" is not a map with a *)
(* key "desc"), so the refusal of a digest held as another kind has no     *)
(* state to happen in and is left out.                                     *)
(***************************************************************************)
EXTENDS Blocks

VARIABLES
    entities,   \* entities[e]: the node of e, for every entity held
    order,      \* every entity held
    byKind,     \* byKind[k]: those of kind k
    byAuthor,   \* byAuthor[a]: those a published
    authors,    \* who published anything
    payloads,   \* payloads[d]: the payload d was ingested with
    blockOrder  \* every block ingested

graphVars == <<entities, order, byKind, byAuthor, authors, payloads, blockOrder>>

\* The decrypted payload of a private block; NoPayload is the zero digest
\* that stands for it where the operations are in the clear.
PayloadOf(d) == [refs |-> content[d].refs, ops |-> content[d].ops]
NoPayload == [refs |-> <<>>, ops |-> <<>>]
Payloads == {PayloadOf(d) : d \in {x \in Digest : content[x].type = "private"}}

Tag == [author : Author, block : Digest]
Node == [kind : EntityKind, authors : SUBSET Tag]

GraphTypeOK ==
    /\ DOMAIN entities \in SUBSET Entity
    /\ entities \in [DOMAIN entities -> Node]
    /\ order \in SUBSET Entity
    /\ byKind \in [EntityKind -> SUBSET Entity]
    /\ byAuthor \in [Author -> SUBSET Entity]
    /\ authors \in SUBSET Author
    /\ DOMAIN payloads \in SUBSET Digest
    /\ payloads \in [DOMAIN payloads -> Payloads \cup {NoPayload}]
    /\ blockOrder \in SUBSET Digest

GraphInit ==
    /\ entities = [e \in {} |-> {}]
    /\ order = {}
    /\ byKind = [k \in EntityKind |-> {}]
    /\ byAuthor = [a \in Author |-> {}]
    /\ authors = {}
    /\ payloads = [d \in {} |-> NoPayload]
    /\ blockOrder = {}

\* creations: a rotate_key operation creates nothing.
creations(ops) == {ops[i].creates : i \in DOMAIN ops} \ {NoEntity}

TagOf(d) == [author |-> content[d].pub, block |-> d]

\* Mutant: an entity already held keeps the records it has.
addFirst(e, tag) ==
    IF e \in DOMAIN entities
    THEN entities[e]
    ELSE [kind |-> kind[e], authors |-> {tag}]

\* add: the node of e once it carries the tag; its value is stored once.
add(e, tag) ==
    IF e \in DOMAIN entities
    THEN [entities[e] EXCEPT !.authors = @ \cup {tag}]
    ELSE [kind |-> kind[e], authors |-> {tag}]

\* Mutant: files under an author only the entities nobody created before.
AccumulateNew(d, created, payload) ==
    LET new == created \ DOMAIN entities
        pub == content[d].pub
    IN  /\ entities' = [e \in DOMAIN entities \cup created |->
                            IF e \in created THEN add(e, TagOf(d)) ELSE entities[e]]
        /\ order' = order \cup new
        /\ byKind' = [k \in EntityKind |-> byKind[k] \cup {e \in new : kind[e] = k}]
        /\ byAuthor' = [byAuthor EXCEPT ![pub] = @ \cup new]
        /\ authors' = IF created = {} THEN authors ELSE authors \cup {pub}
        /\ payloads' = [x \in DOMAIN payloads \cup {d} |->
                            IF x = d THEN payload ELSE payloads[x]]
        /\ blockOrder' = blockOrder \cup {d}

\* ingest, past its two early returns.
Accumulate(d, created, payload) ==
    LET new == created \ DOMAIN entities
        pub == content[d].pub
    IN  /\ entities' = [e \in DOMAIN entities \cup created |->
                            IF e \in created THEN add(e, TagOf(d)) ELSE entities[e]]
        /\ order' = order \cup new
        /\ byKind' = [k \in EntityKind |-> byKind[k] \cup {e \in new : kind[e] = k}]
        /\ byAuthor' = [byAuthor EXCEPT ![pub] = @ \cup created]
        /\ authors' = IF created = {} THEN authors ELSE authors \cup {pub}
        /\ payloads' = [x \in DOMAIN payloads \cup {d} |->
                            IF x = d THEN payload ELSE payloads[x]]
        /\ blockOrder' = blockOrder \cup {d}

\* A block ingested before changes nothing, whether the payload is the one it
\* came with then or is refused (ErrPayloadMismatch).
ingest(d, ops, payload) ==
    IF d \in DOMAIN payloads
    THEN UNCHANGED graphVars
    ELSE Accumulate(d, creations(ops), payload)

Ingest(d) ==
    /\ content[d].type # "private"
    /\ ingest(d, content[d].ops, NoPayload)

IngestPayload(d, p) ==
    /\ content[d].type = "private"
    /\ ingest(d, p.ops, p)

\* Any caller, in any order: a Graph trusts it to have validated the block.
GraphNext == \E d \in Digest : Ingest(d) \/ \E p \in Payloads : IngestPayload(d, p)

GraphSpec == GraphInit /\ [][GraphNext]_graphVars

HasBlock(d) == d \in DOMAIN payloads
Provenance(e) == IF e \in DOMAIN entities THEN entities[e].authors ELSE {}
-----------------------------------------------------------------------------
\* The operations block d was ingested with.
IngestedOps(d) ==
    IF payloads[d] = NoPayload THEN content[d].ops ELSE payloads[d].ops

\* The graph is a function of the set of blocks ingested and the payload each
\* was first ingested with: an entity carries one record for each of the
\* blocks that define it, however often and in whatever order they came
\* ("Authorship accumulates, and the graph does not rank").
GraphIsItsBlocks ==
    /\ DOMAIN entities = UNION {creations(IngestedOps(d)) : d \in DOMAIN payloads}
    /\ \A e \in DOMAIN entities :
          entities[e].authors =
              {TagOf(d) : d \in {x \in DOMAIN payloads : e \in creations(IngestedOps(x))}}

\* The five indexes, each kept by hand, say what a scan of the nodes and of
\* the ingested blocks would.
IndexesAgreeWithNodes ==
    /\ order = DOMAIN entities
    /\ \A k \in EntityKind : byKind[k] = {e \in DOMAIN entities : entities[e].kind = k}
    /\ \A a \in Author :
          byAuthor[a] = {e \in DOMAIN entities : \E t \in entities[e].authors : t.author = a}
    /\ authors = {a \in Author : byAuthor[a] # {}}
    /\ blockOrder = DOMAIN payloads

\* "L2 is append-only": no call takes back an entity or a record, and the
\* first payload of a block is the one that counts.
Accumulates ==
    [][/\ DOMAIN entities \subseteq DOMAIN entities'
       /\ \A e \in DOMAIN entities :
             /\ entities'[e].kind = entities[e].kind
             /\ entities[e].authors \subseteq entities'[e].authors
       /\ DOMAIN payloads \subseteq DOMAIN payloads'
       /\ \A d \in DOMAIN payloads : payloads'[d] = payloads[d]]_graphVars
=============================================================================
