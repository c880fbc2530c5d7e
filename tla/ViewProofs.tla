---------------------------- MODULE ViewProofs ----------------------------
(***************************************************************************)
(* Proofs that a graph is what its blocks make it, whoever ingests them    *)
(* and in whatever order (GraphTypeOK, GraphIsItsBlocks,                   *)
(* IndexesAgreeWithNodes and Accumulates), that a view places blocks where *)
(* their authors' histories do (OrderFollowsHistory and HistoriesAgree),   *)
(* that an author decides on nobody else's claims (NobodyHasAVeto), one    *)
(* not subscribed to on nothing (OthersChangeNothing), that opposed last   *)
(* words are told (DisagreementsAreSurfaced), that classes are where       *)
(* the declarations that stand lead (EquivalenceIsTheClosure), that loops  *)
(* are told whole (LoopsAreReported), and that the current versions are    *)
(* all that replacing leads to (CurrentIsReached).                         *)
(*                                                                         *)
(* The indexes grow by the entities a block brings, so they agree with the *)
(* nodes only if a node's kind is its entity's for good (KindsAgree).      *)
(*                                                                         *)
(* A store that takes a block after its ancestors and refs stays whole     *)
(* (StoreWhole).  What a block follows is then held, and by                *)
(* HashesAreAcyclic nothing follows itself, so a block has one line back   *)
(* to the start of its lineage (Line, LineOfBlock).  Placing a block,      *)
(* after whatever was placed before, puts it where it is on its line       *)
(* (Right, OfIsRight), and the line is the history that prev and the       *)
(* successions beyond doubt make (HistoryIsLine).                          *)
(*                                                                         *)
(* The parents of a union-find lead down in rank (Forest), so every        *)
(* entity has a last one (Name).  Finding leaves names as they are, a      *)
(* union gives two classes the lower of their names, and no name leaves a  *)
(* set the claims do not lead out of (UniteLinks).                         *)
(*                                                                         *)
(* What holds of Tarjan's search after every turn is Searched: each class  *)
(* on the stack is reached from one still called (UnderCall), and one that *)
(* has returned reaches one before it (LeftLower), so what the innermost   *)
(* call takes off the stack at its own index is its component              *)
(* (AboveIsComponent).  Each turn adds to what is seen, returned from or   *)
(* looked at, of which there is only so much, so cycles ends with all the  *)
(* components (CyclesAre).                                                 *)
(***************************************************************************)
EXTENDS Acceptance, MemStoreProofs

KindsAgree == \A e \in DOMAIN entities : entities[e].kind = kind[e]

GraphInv == GraphTypeOK /\ KindsAgree /\ GraphIsItsBlocks /\ IndexesAgreeWithNodes

\* What a call that is not refused hands to Accumulate.
Handed(d, created, payload) ==
    /\ d \in Digest \ DOMAIN payloads
    /\ payload \in Payloads \cup {NoPayload}
    /\ created = creations(IF payload = NoPayload THEN content[d].ops ELSE payload.ops)
-----------------------------------------------------------------------------
\* Operations create entities.
LEMMA CreationsType ==
    ASSUME NEW d \in Digest
    PROVE  creations(content[d].ops) \in SUBSET Entity
<1>1. content[d] \in Content
  BY ContentAssumption
<1>2. content[d].ops \in Seq(Operation)
  BY <1>1 DEF Content
<1>3. \A i \in DOMAIN content[d].ops : content[d].ops[i] \in Operation
  BY <1>2, ElementOfSeq
<1>4. \A i \in DOMAIN content[d].ops : content[d].ops[i].creates \in Entity \cup {NoEntity}
  BY <1>3 DEF Operation
<1> QED
  BY <1>4 DEF creations

\* A decrypted payload has operations, so the zero digest stands for none.
LEMMA PayloadsAreSomething ==
    ASSUME NEW p \in Payloads
    PROVE  /\ p # NoPayload
           /\ creations(p.ops) \in SUBSET Entity
<1>1. PICK d \in Digest : p = PayloadOf(d)
  BY DEF Payloads
<1>2. p.ops = content[d].ops /\ content[d].ops # <<>>
  BY <1>1, WellFormedContent DEF PayloadOf, WellFormed
<1>3. p # NoPayload
  BY <1>2 DEF NoPayload
<1> QED
  BY <1>2, <1>3, CreationsType

\* A tag is one of its author's.
LEMMA TagType ==
    ASSUME NEW d \in Digest
    PROVE  TagOf(d) \in Tag /\ TagOf(d).author = content[d].pub /\ content[d].pub \in Author
  BY ContentAssumption DEF TagOf, Tag, Content

\* What is handed over as created is a set of entities.
LEMMA CreatedType ==
    ASSUME NEW d, NEW created, NEW payload, Handed(d, created, payload)
    PROVE  created \in SUBSET Entity
<1>1. CASE payload = NoPayload
  BY <1>1, CreationsType DEF Handed
<1>2. CASE payload \in Payloads /\ payload # NoPayload
  BY <1>2, PayloadsAreSomething DEF Handed
<1> QED
  BY <1>1, <1>2 DEF Handed
-----------------------------------------------------------------------------
\* The records of e once a block that brings created is ingested.
TagsWith(e, d, created) ==
    Provenance(e) \cup (IF e \in created THEN {TagOf(d)} ELSE {})

\* What Accumulate does to each part of the graph.
LEMMA AccumulateType ==
    ASSUME NEW d, NEW created, NEW payload, Handed(d, created, payload),
           Accumulate(d, created, payload), GraphTypeOK, KindsAgree
    PROVE  /\ GraphTypeOK'
           /\ KindsAgree'
           /\ DOMAIN entities' = DOMAIN entities \cup created
           /\ DOMAIN payloads' = DOMAIN payloads \cup {d}
           /\ payloads'[d] = payload
           /\ \A x \in DOMAIN payloads : payloads'[x] = payloads[x]
           /\ \A e \in DOMAIN entities \cup created :
                 entities'[e].authors = TagsWith(e, d, created)
<1> DEFINE new == created \ DOMAIN entities
<1>1. d \in Digest /\ d \notin DOMAIN payloads /\ created \in SUBSET Entity
  BY CreatedType DEF Handed
<1>2. /\ entities' = [e \in DOMAIN entities \cup created |->
                        IF e \in created THEN add(e, TagOf(d)) ELSE entities[e]]
      /\ payloads' = [x \in DOMAIN payloads \cup {d} |->
                        IF x = d THEN payload ELSE payloads[x]]
  BY DEF Accumulate
<1>3. \A e \in DOMAIN entities :
         /\ entities[e].kind = kind[e] /\ kind[e] \in EntityKind
         /\ entities[e].authors \in SUBSET Tag
         /\ entities[e] = [kind |-> kind[e], authors |-> entities[e].authors]
  BY ContentAssumption DEF GraphTypeOK, KindsAgree, Node
<1>4. \A e \in DOMAIN entities \cup created :
         /\ e \in Entity
         /\ entities'[e] \in Node
         /\ entities'[e].kind = kind[e]
         /\ entities'[e].authors = TagsWith(e, d, created)
  <2> SUFFICES ASSUME NEW e \in DOMAIN entities \cup created
               PROVE  /\ e \in Entity
                      /\ entities'[e] \in Node
                      /\ entities'[e].kind = kind[e]
                      /\ entities'[e].authors = TagsWith(e, d, created)
    OBVIOUS
  <2> DEFINE tags == TagsWith(e, d, created)
  <2>1. tags \in SUBSET Tag
    BY <1>1, <1>3, TagType DEF TagsWith, Provenance
  <2>2. e \in Entity /\ kind[e] \in EntityKind
    BY <1>1, ContentAssumption DEF GraphTypeOK
  <2>3. entities'[e] = [kind |-> kind[e], authors |-> tags]
    <3>1. CASE e \in created /\ e \in DOMAIN entities
      <4>1. entities'[e] = [entities[e] EXCEPT !.authors = @ \cup {TagOf(d)}]
        BY <1>2, <3>1 DEF add
      <4> QED
        BY <4>1, <3>1, <1>3 DEF TagsWith, Provenance
    <3>2. CASE e \in created /\ e \notin DOMAIN entities
      BY <1>2, <3>2 DEF add, TagsWith, Provenance
    <3>3. CASE e \notin created
      BY <1>2, <1>3, <3>3 DEF TagsWith, Provenance
    <3> QED
      BY <3>1, <3>2, <3>3
  <2> HIDE DEF tags
  <2>4. entities'[e].authors = tags /\ entities'[e].kind = kind[e] /\ entities'[e] \in Node
    BY <2>1, <2>2, <2>3 DEF Node
  <2> QED
    BY <2>2, <2>4 DEF tags
<1>5. DOMAIN entities' = DOMAIN entities \cup created
  BY <1>2
<1>6. KindsAgree'
  BY <1>4, <1>5 DEF KindsAgree
<1>8. entities' \in [DOMAIN entities' -> Node] /\ DOMAIN entities' \in SUBSET Entity
  BY <1>2, <1>4, <1>5
<1>9. order' \in SUBSET Entity /\ byKind' \in [EntityKind -> SUBSET Entity]
  BY <1>1 DEF Accumulate, GraphTypeOK
<1>10. byAuthor' \in [Author -> SUBSET Entity] /\ authors' \in SUBSET Author
  <2>1. content[d].pub \in Author
    BY <1>1, TagType
  <2>2. byAuthor' = [byAuthor EXCEPT ![content[d].pub] = @ \cup created]
        /\ authors' \in {authors, authors \cup {content[d].pub}}
    BY DEF Accumulate
  <2> QED
    BY <1>1, <2>1, <2>2 DEF GraphTypeOK
<1>11. /\ DOMAIN payloads' \in SUBSET Digest
       /\ payloads' \in [DOMAIN payloads' -> Payloads \cup {NoPayload}]
  BY <1>1, <1>2 DEF GraphTypeOK, Handed
<1>12. blockOrder' \in SUBSET Digest
  BY <1>1 DEF Accumulate, GraphTypeOK
<1>13. GraphTypeOK'
  BY <1>8, <1>9, <1>10, <1>11, <1>12 DEF GraphTypeOK
<1> QED
  BY <1>1, <1>2, <1>4, <1>5, <1>6, <1>13

\* Accumulate keeps the graph what its blocks make it: the one block that is
\* new has brought created.
LEMMA AccumulateKeepsBlocks ==
    ASSUME NEW d, NEW created, NEW payload, Handed(d, created, payload),
           Accumulate(d, created, payload), GraphInv
    PROVE  GraphIsItsBlocks'
<1> DEFINE brought(x) == creations(IngestedOps(x))
<1>1. /\ DOMAIN entities' = DOMAIN entities \cup created
      /\ DOMAIN payloads' = DOMAIN payloads \cup {d}
      /\ payloads'[d] = payload
      /\ \A x \in DOMAIN payloads : payloads'[x] = payloads[x]
      /\ \A e \in DOMAIN entities \cup created : entities'[e].authors = TagsWith(e, d, created)
  BY AccumulateType DEF GraphInv
<1>2. /\ DOMAIN entities = UNION {brought(x) : x \in DOMAIN payloads}
      /\ \A e \in DOMAIN entities :
            entities[e].authors = {TagOf(x) : x \in {y \in DOMAIN payloads : e \in brought(y)}}
  BY DEF GraphInv, GraphIsItsBlocks
<1>3. d \notin DOMAIN payloads
  BY DEF Handed
<1>4. brought(d)' = created
  BY <1>1 DEF IngestedOps, Handed, creations
<1>5. \A x \in DOMAIN payloads : brought(x)' = brought(x)
  BY <1>1, <1>3 DEF IngestedOps, creations
<1>6. \A e : Provenance(e) = {TagOf(x) : x \in {y \in DOMAIN payloads : e \in brought(y)}}
  BY <1>2 DEF Provenance
<1>7. DOMAIN entities' = UNION {brought(x)' : x \in DOMAIN payloads'}
  <2> HIDE DEF brought
  <2> QED
    BY <1>1, <1>2, <1>4, <1>5
<1>8. ASSUME NEW e \in DOMAIN entities'
      PROVE  entities'[e].authors = {TagOf(x) : x \in {y \in DOMAIN payloads' : e \in brought(y)'}}
  <2> HIDE DEF brought
  <2>1. entities'[e].authors = Provenance(e) \cup (IF e \in created THEN {TagOf(d)} ELSE {})
    BY <1>1 DEF TagsWith
  <2> QED
    BY <2>1, <1>1, <1>3, <1>4, <1>5, <1>6
<1> QED
  BY <1>7, <1>8 DEF GraphIsItsBlocks, TagOf

\* Accumulate keeps the indexes at what a scan of the nodes would say.
LEMMA AccumulateKeepsIndexes ==
    ASSUME NEW d, NEW created, NEW payload, Handed(d, created, payload),
           Accumulate(d, created, payload), GraphInv
    PROVE  IndexesAgreeWithNodes'
<1> DEFINE new == created \ DOMAIN entities
           pub == content[d].pub
<1>0. /\ KindsAgree'
      /\ DOMAIN entities' = DOMAIN entities \cup created
      /\ DOMAIN payloads' = DOMAIN payloads \cup {d}
      /\ \A e \in DOMAIN entities \cup created : entities'[e].authors = TagsWith(e, d, created)
  BY AccumulateType DEF GraphInv
<1>1. /\ DOMAIN entities' = DOMAIN entities \cup created
      /\ DOMAIN payloads' = DOMAIN payloads \cup {d}
      /\ \A e \in DOMAIN entities' : entities'[e].authors = TagsWith(e, d, created)
      /\ \A e \in DOMAIN entities' : entities'[e].kind = kind[e]
  BY <1>0 DEF KindsAgree
<1>2. GraphTypeOK /\ KindsAgree /\ IndexesAgreeWithNodes
  BY DEF GraphInv
<1>3. d \in Digest /\ created \in SUBSET Entity /\ TagOf(d).author = pub /\ pub \in Author
  BY CreatedType, TagType DEF Handed
<1>4. order' = DOMAIN entities' /\ blockOrder' = DOMAIN payloads'
  BY <1>1, <1>2 DEF Accumulate, IndexesAgreeWithNodes
<1>5. ASSUME NEW k \in EntityKind
      PROVE  byKind'[k] = {e \in DOMAIN entities' : entities'[e].kind = k}
  <2>1. byKind'[k] = byKind[k] \cup {e \in new : kind[e] = k}
    BY DEF Accumulate
  <2>2. byKind[k] = {e \in DOMAIN entities : kind[e] = k}
    BY <1>2 DEF IndexesAgreeWithNodes, KindsAgree
  <2> QED
    BY <2>1, <2>2, <1>1
<1>6. ASSUME NEW a \in Author, NEW e \in DOMAIN entities'
      PROVE  (\E t \in entities'[e].authors : t.author = a)
                 <=> \/ e \in created /\ a = pub
                     \/ e \in DOMAIN entities /\ \E t \in entities[e].authors : t.author = a
  <2>1. entities'[e].authors = Provenance(e) \cup (IF e \in created THEN {TagOf(d)} ELSE {})
    BY <1>1 DEF TagsWith
  <2>2. (\E t \in Provenance(e) : t.author = a)
            <=> e \in DOMAIN entities /\ \E t \in entities[e].authors : t.author = a
    BY DEF Provenance
  <2>3. (\E t \in entities'[e].authors : t.author = a)
            <=> (\E t \in Provenance(e) : t.author = a) \/ (e \in created /\ TagOf(d).author = a)
    BY <2>1
  <2> QED
    BY <2>2, <2>3, <1>3
<1>7. ASSUME NEW a \in Author
      PROVE  byAuthor'[a] = byAuthor[a] \cup (IF a = pub THEN created ELSE {})
  BY <1>2, <1>3 DEF Accumulate, GraphTypeOK
<1>8. ASSUME NEW a \in Author
      PROVE  byAuthor'[a] = {e \in DOMAIN entities' : \E t \in entities'[e].authors : t.author = a}
  <2>1. byAuthor[a] = {e \in DOMAIN entities : \E t \in entities[e].authors : t.author = a}
    BY <1>2 DEF IndexesAgreeWithNodes
  <2> QED
    BY <2>1, <1>1, <1>6, <1>7
<1>9. authors' = {a \in Author : byAuthor'[a] # {}}
  <2>1. authors = {a \in Author : byAuthor[a] # {}}
    BY <1>2 DEF IndexesAgreeWithNodes
  <2>2. authors' = IF created = {} THEN authors ELSE authors \cup {pub}
    BY DEF Accumulate
  <2> QED
    BY <2>1, <2>2, <1>3, <1>7
<1> QED
  BY <1>4, <1>5, <1>8, <1>9 DEF IndexesAgreeWithNodes
-----------------------------------------------------------------------------
\* The empty graph.
LEMMA InitGraph == GraphInit => GraphInv
  BY DEF GraphInit, GraphInv, GraphTypeOK, KindsAgree, GraphIsItsBlocks, IndexesAgreeWithNodes

\* A call accumulates a block that is new, or changes nothing.
LEMMA CallsAccumulate ==
    ASSUME GraphNext
    PROVE  \/ \E d, created, payload : Handed(d, created, payload) /\ Accumulate(d, created, payload)
           \/ UNCHANGED graphVars
<1>1. PICK d \in Digest : Ingest(d) \/ \E p \in Payloads : IngestPayload(d, p)
  BY DEF GraphNext
<1>2. CASE d \in DOMAIN payloads
  BY <1>1, <1>2 DEF Ingest, IngestPayload, ingest
<1>3. CASE d \notin DOMAIN payloads /\ Ingest(d)
  <2>1. Accumulate(d, creations(content[d].ops), NoPayload)
    BY <1>3 DEF Ingest, ingest
  <2>2. Handed(d, creations(content[d].ops), NoPayload)
    BY <1>3 DEF Handed
  <2> QED
    BY <2>1, <2>2
<1>4. ASSUME NEW p \in Payloads, d \notin DOMAIN payloads, IngestPayload(d, p)
      PROVE  \E created, payload : Handed(d, created, payload) /\ Accumulate(d, created, payload)
  <2>1. Accumulate(d, creations(p.ops), p)
    BY <1>4 DEF IngestPayload, ingest
  <2>2. Handed(d, creations(p.ops), p)
    BY <1>4, PayloadsAreSomething DEF Handed
  <2> QED
    BY <2>1, <2>2
<1> QED
  BY <1>1, <1>2, <1>3, <1>4

\* GraphInv is inductive.
LEMMA GraphStep == GraphInv /\ [GraphNext]_graphVars => GraphInv'
<1> SUFFICES ASSUME GraphInv, [GraphNext]_graphVars PROVE GraphInv'
  OBVIOUS
<1>1. CASE UNCHANGED graphVars
  BY <1>1 DEF GraphInv, graphVars, GraphTypeOK, KindsAgree, GraphIsItsBlocks,
              IndexesAgreeWithNodes, IngestedOps
<1>2. ASSUME NEW d, NEW created, NEW payload, Handed(d, created, payload),
             Accumulate(d, created, payload)
      PROVE  GraphInv'
  BY <1>2, AccumulateType, AccumulateKeepsBlocks, AccumulateKeepsIndexes DEF GraphInv
<1> QED
  BY <1>1, <1>2, CallsAccumulate

\* It holds in every state.
LEMMA GraphInvariant == GraphSpec => []GraphInv
  BY InitGraph, GraphStep, PTL DEF GraphSpec

\* The graph of any number of callers, blocks and entities holds nodes, tags,
\* indexes and payloads of the right kinds.
THEOREM GraphTypeCorrect == GraphSpec => []GraphTypeOK
<1>1. GraphInv => GraphTypeOK
  BY DEF GraphInv
<1> QED
  BY <1>1, GraphInvariant, PTL

\* Every entity carries one record for each ingested block that defines it and
\* no other, whatever was ingested twice, refused, or came with a payload
\* (Graph.ingest).
THEOREM GraphIsAlwaysItsBlocks == GraphSpec => []GraphIsItsBlocks
<1>1. GraphInv => GraphIsItsBlocks
  BY DEF GraphInv
<1> QED
  BY <1>1, GraphInvariant, PTL

\* The indexes by kind and by author, the list of authors and the two orders
\* always say what a scan of the nodes would (Graph.add and the slices it
\* keeps).
THEOREM IndexesAlwaysAgree == GraphSpec => []IndexesAgreeWithNodes
<1>1. GraphInv => IndexesAgreeWithNodes
  BY DEF GraphInv
<1> QED
  BY <1>1, GraphInvariant, PTL

\* No call takes back an entity, a kind, a record or a payload.
THEOREM GraphAccumulates == GraphSpec => Accumulates
<1> DEFINE Kept ==
        /\ DOMAIN entities \subseteq DOMAIN entities'
        /\ \A e \in DOMAIN entities :
              /\ entities'[e].kind = entities[e].kind
              /\ entities[e].authors \subseteq entities'[e].authors
        /\ DOMAIN payloads \subseteq DOMAIN payloads'
        /\ \A d \in DOMAIN payloads : payloads'[d] = payloads[d]
<1>1. ASSUME GraphInv, [GraphNext]_graphVars PROVE [Kept]_graphVars
  <2>1. ASSUME NEW d, NEW created, NEW payload, Handed(d, created, payload),
               Accumulate(d, created, payload)
        PROVE  Kept
    <3>1. KindsAgree /\ KindsAgree'
      BY <1>1, <2>1, AccumulateType DEF GraphInv
    <3>2. /\ DOMAIN entities' = DOMAIN entities \cup created
          /\ DOMAIN payloads' = DOMAIN payloads \cup {d}
          /\ \A x \in DOMAIN payloads : payloads'[x] = payloads[x]
          /\ \A e \in DOMAIN entities \cup created : entities'[e].authors = TagsWith(e, d, created)
      BY <1>1, <2>1, AccumulateType DEF GraphInv
    <3>3. \A e \in DOMAIN entities : entities[e].authors \subseteq TagsWith(e, d, created)
      BY DEF TagsWith, Provenance
    <3> QED
      BY <3>1, <3>2, <3>3 DEF KindsAgree
  <2> QED
    BY <1>1, <2>1, CallsAccumulate
<1>2. Accumulates <=> [][Kept]_graphVars
  BY DEF Accumulates
<1> QED
  BY <1>1, <1>2, GraphInvariant, PTL DEF GraphSpec
-----------------------------------------------------------------------------
\* What the store of Acceptance is: whole, and listed by its referrers.
StoreWhole ==
    /\ MemTypeOK
    /\ \A x \in Digest : Range(referrers[x]) = {d \in blocks : x \in Range(Refs(d))}
    /\ \A d \in blocks : {content[d].prev} \cup Range(Refs(d)) \subseteq blocks \cup {NoDigest}

\* A new block whose ancestors and refs are held leaves the store whole.
LEMMA StoreKeepsWhole ==
    ASSUME StoreWhole, NEW d \in Digest, Store(d)
    PROVE  StoreWhole'
<1>1. MemTypeOK /\ d \in Digest \ blocks /\ Add(d)
  BY DEF Store, StoreWhole
<1>2. MemTypeOK' /\ blocks' = blocks \cup {d}
  BY <1>1, AddType
<1>3. ASSUME NEW x \in Digest
      PROVE  Range(referrers'[x]) = {e \in blocks' : x \in Range(Refs(e))}
  <2>1. referrers[x] \in Seq(Digest) /\ Range(referrers[x]) = {e \in blocks : x \in Range(Refs(e))}
    BY <1>1 DEF MemTypeOK, StoreWhole
  <2>2. referrers'[x] = IF x \in Range(Refs(d)) THEN Append(referrers[x], d) ELSE referrers[x]
    BY <1>1, AddedToIndexes
  <2>3. Range(Append(referrers[x], d)) = Range(referrers[x]) \cup {d}
    BY <2>1, RangeAppend
  <2> QED
    BY <1>2, <2>1, <2>2, <2>3
<1>4. \A e \in blocks' : {content[e].prev} \cup Range(Refs(e)) \subseteq blocks' \cup {NoDigest}
  BY <1>2 DEF Store, StoreWhole
<1> QED
  BY <1>2, <1>3, <1>4 DEF StoreWhole, Refs
-----------------------------------------------------------------------------
\* What a held block names is held: a digest it names is not null.
LEMMA NamedIsHeld ==
    ASSUME StoreWhole, NEW d \in blocks
    PROVE  /\ d \in Digest
           /\ content[d].prev \in blocks \cup {NoDigest}
           /\ Range(Refs(d)) \subseteq blocks
           /\ Range(Refs(d)) \subseteq Range(content[d].refs)
           /\ NoDigest \notin blocks
<1>1. d \in Digest /\ blocks \subseteq Digest /\ NoDigest \notin Digest
  BY NullsAssumption DEF StoreWhole, MemTypeOK
<1>2. Range(Refs(d)) \subseteq Digest
  BY <1>1, RefsType
<1>3. Range(Refs(d)) \subseteq Range(content[d].refs)
  BY DEF Refs, Range
<1> QED
  BY <1>1, <1>2, <1>3 DEF StoreWhole

\* An anchor is held, and is one of the digests the block names.
LEMMA AnchorIsNamed ==
    ASSUME StoreWhole, NEW d \in blocks
    PROVE  /\ anchor(d) \in blocks \cup {NoDigest}
           /\ anchor(d) # NoDigest =>
                anchor(d) = content[d].prev \/ anchor(d) \in Range(content[d].refs)
           /\ IsGenesis(d) => anchor(d) \in ClaimedBy(d) \cup {NoDigest}
<1>1. ClaimedBy(d) \subseteq Range(Refs(d)) \cap blocks
  BY DEF ClaimedBy
<1>2. rotationBehind(d) \in ClaimedBy(d) \cup {NoDigest}
  BY DEF rotationBehind
<1> QED
  BY <1>1, <1>2, NamedIsHeld DEF anchor

\* So no set of held blocks is anchored in itself.
LEMMA AnchorsEnd ==
    ASSUME StoreWhole, NEW S \in SUBSET blocks, S # {}
    PROVE  \E d \in S : anchor(d) \notin S
<1>1. S \in SUBSET Digest /\ NoDigest \notin S
  BY NullsAssumption DEF StoreWhole, MemTypeOK
<1>2. PICK d \in S : content[d].prev \notin S /\ Range(content[d].refs) \cap S = {}
  <2>1. S \in SUBSET Digest /\ S # {}
    BY <1>1
  <2> QED
    BY <2>1, HashesAreAcyclic, Zenon
<1> QED
  BY <1>1, <1>2, AnchorIsNamed
-----------------------------------------------------------------------------
\* The blocks of a sequence each follow the one before.
Linked(s) ==
    /\ s \in Seq(blocks)
    /\ s # <<>>
    /\ \A i \in 2..Len(s) : s[i - 1] = anchor(s[i])

\* No block comes twice in such a sequence, which is no longer than the store.
LEMMA LinkedIsSimple ==
    ASSUME StoreWhole, NEW s, Linked(s)
    PROVE  /\ \A i, j \in 1..Len(s) : s[i] = s[j] => i = j
           /\ Len(s) \in Nat \ {0}
           /\ Len(s) <= Cardinality(blocks)
<1>0. s \in [1..Len(s) -> blocks] /\ Len(s) \in Nat \ {0}
  BY EmptySeq DEF Linked
<1>1. ASSUME NEW i \in 1..Len(s), NEW j \in 1..Len(s), s[i] = s[j], i < j
      PROVE  FALSE
  <2> DEFINE S == {s[k] : k \in (i + 1)..j}
  <2>1. i + 1 \in (i + 1)..j /\ \A k \in (i + 1)..j : k \in 2..Len(s)
    BY <1>0, <1>1
  <2>2. S \in SUBSET blocks /\ S # {}
    BY <1>0, <2>1
  <2>3. ASSUME NEW k \in (i + 1)..j PROVE anchor(s[k]) \in S
    <3>1. anchor(s[k]) = s[k - 1]
      BY <1>0, <2>1 DEF Linked
    <3>2. CASE k = i + 1
      <4>1. s[k - 1] = s[j] /\ j \in (i + 1)..j
        BY <1>0, <1>1, <3>2
      <4> QED
        BY <3>1, <4>1
    <3>3. CASE k # i + 1
      <4>1. k - 1 \in (i + 1)..j
        BY <1>0, <3>3
      <4> QED
        BY <3>1, <4>1
    <3> QED
      BY <3>2, <3>3
  <2>4. \A x \in S : anchor(x) \in S
    BY <2>3
  <2> HIDE DEF S
  <2> QED
    BY <2>2, <2>4, AnchorsEnd
<1>2. \A i, j \in 1..Len(s) : s[i] = s[j] => i = j
  BY <1>0, <1>1
<1>3. IsFiniteSet(blocks)
  BY SetsOfDigests DEF StoreWhole, MemTypeOK
<1>4. Cardinality(1..Len(s)) <= Cardinality(blocks)
  <2>1. s \in Injection(1..Len(s), blocks)
    BY <1>0, <1>2 DEF Injection, IsInjective
  <2> QED
    BY <1>3, <2>1, FS_Injection
<1>5. Cardinality(1..Len(s)) = Len(s)
  BY <1>0, CountTo
<1> QED
  BY <1>0, <1>2, <1>4, <1>5

\* A line of d: the blocks its logical author published up to d.
IsLine(s, d) == Linked(s) /\ s[Len(s)] = d /\ anchor(s[1]) = NoDigest
Line(d) == CHOOSE s : IsLine(s, d)

\* A block goes on the line of the block it follows.
LEMMA LineGoesOn ==
    ASSUME StoreWhole, NEW d \in blocks
    PROVE  /\ anchor(d) = NoDigest => IsLine(<<d>>, d)
           /\ \A s : anchor(d) # NoDigest /\ IsLine(s, anchor(d)) => IsLine(Append(s, d), d)
           /\ \A s : anchor(d) = NoDigest /\ IsLine(s, d) => s = <<d>>
           /\ \A s : anchor(d) # NoDigest /\ IsLine(s, d) =>
                 \E t : IsLine(t, anchor(d)) /\ s = Append(t, d)
<1>0. d \in Digest /\ NoDigest \notin blocks
  BY NamedIsHeld
<1>1. anchor(d) = NoDigest => IsLine(<<d>>, d)
  BY DEF IsLine, Linked
<1>2. ASSUME NEW s, anchor(d) # NoDigest, IsLine(s, anchor(d))
      PROVE  IsLine(Append(s, d), d)
  <2> DEFINE t == Append(s, d)
  <2>1. s \in Seq(blocks) /\ s # <<>> /\ Len(s) \in Nat \ {0}
    BY <1>2, EmptySeq DEF IsLine, Linked
  <2>2. /\ t \in Seq(blocks) /\ t # <<>> /\ Len(t) = Len(s) + 1
        /\ \A i \in 1..Len(s) : t[i] = s[i]
        /\ t[Len(s) + 1] = d
    BY <2>1, AppendProperties
  <2> HIDE DEF t
  <2>3. t[Len(t)] = d /\ anchor(t[1]) = NoDigest
    BY <1>2, <2>1, <2>2 DEF IsLine
  <2>4. ASSUME NEW i \in 2..Len(t) PROVE t[i - 1] = anchor(t[i])
    <3>1. CASE i = Len(t)
      <4>1. t[i - 1] = s[Len(s)]
        BY <2>1, <2>2, <3>1
      <4> QED
        BY <1>2, <2>3, <3>1, <4>1 DEF IsLine
    <3>2. CASE i # Len(t)
      <4>1. i \in 2..Len(s) /\ i \in 1..Len(s) /\ i - 1 \in 1..Len(s)
        BY <2>1, <2>2, <3>2
      <4>2. s[i - 1] = anchor(s[i])
        BY <1>2, <4>1 DEF IsLine, Linked
      <4> QED
        BY <2>2, <4>1, <4>2
    <3> QED
      BY <3>1, <3>2
  <2> QED
    BY <2>2, <2>3, <2>4 DEF IsLine, Linked, t
<1>3. ASSUME NEW s, anchor(d) = NoDigest, IsLine(s, d)
      PROVE  s = <<d>>
  <2>1. s \in Seq(blocks) /\ s # <<>> /\ Len(s) \in Nat \ {0}
    BY <1>3, EmptySeq DEF IsLine, Linked
  <2>2. Len(s) = 1
    <3> SUFFICES ASSUME Len(s) # 1 PROVE FALSE
      OBVIOUS
    <3> DEFINE k == Len(s)
    <3>k. k \in Nat \ {0} /\ k # 1
      BY <2>1
    <3>l. k = Len(s)
      OBVIOUS
    <3> HIDE DEF k
    <3>1. k \in 2..k /\ k - 1 \in 1..k
      BY <3>k
    <3>2. s[k - 1] = NoDigest /\ s[k - 1] \in blocks
      BY <1>3, <2>1, <3>1, <3>l DEF IsLine, Linked
    <3> QED
      BY <1>0, <3>2
  <2>3. s[1] = d
    BY <1>3, <2>2 DEF IsLine
  <2> QED
    BY <2>1, <2>2, <2>3
<1>4. ASSUME NEW s, anchor(d) # NoDigest, IsLine(s, d)
      PROVE  \E t : IsLine(t, anchor(d)) /\ s = Append(t, d)
  <2>1. s \in Seq(blocks) /\ s # <<>> /\ Len(s) \in Nat \ {0}
    BY <1>4, EmptySeq DEF IsLine, Linked
  <2>2. Len(s) # 1
    BY <1>4, <2>1 DEF IsLine
  <2> DEFINE n == Len(s) - 1
             t == SubSeq(s, 1, n)
  <2>n. n \in Nat \ {0} /\ Len(s) = n + 1
    BY <2>1, <2>2
  <2> HIDE DEF n
  <2>3. \A i \in 1..n : s[i] \in blocks
    <3>1. \A i \in 1..n : i \in 1..Len(s)
      BY <2>n
    <3> QED
      BY <2>1, <3>1
  <2>4. t \in Seq(blocks) /\ Len(t) = n /\ \A i \in 1..n : t[i] = s[i]
    <3>1. 1 \in Int /\ n \in Int /\ 1 <= n
      BY <2>n
    <3>2. /\ t \in Seq(blocks) /\ Len(t) = IF 1 <= n THEN n - 1 + 1 ELSE 0
          /\ \A i \in 1..(n - 1 + 1) : t[i] = s[1 + i - 1]
      BY <2>3, <3>1, SubSeqProperties
    <3> HIDE DEF t
    <3> QED
      BY <2>n, <3>2
  <2> HIDE DEF t
  <2>5. Linked(t)
    <3>1. \A i \in 2..n : i \in 2..Len(s) /\ i \in 1..n /\ i - 1 \in 1..n
      BY <2>n
    <3>2. \A i \in 2..n : s[i - 1] = anchor(s[i])
      BY <1>4, <3>1 DEF IsLine, Linked
    <3>3. t # <<>>
      BY <2>n, <2>4
    <3> QED
      BY <2>4, <3>1, <3>2, <3>3 DEF Linked
  <2>6. t[Len(t)] = anchor(d)
    <3>1. n + 1 \in 2..Len(s) /\ n \in 1..n /\ (n + 1) - 1 = n
      BY <2>n
    <3>2. s[n] = anchor(s[n + 1])
      BY <1>4, <3>1 DEF IsLine, Linked
    <3> QED
      BY <1>4, <2>n, <2>4, <3>1, <3>2 DEF IsLine
  <2>7. anchor(t[1]) = NoDigest
    <3>1. 1 \in 1..n
      BY <2>n
    <3> QED
      BY <1>4, <2>4, <3>1 DEF IsLine
  <2>8. s = Append(t, d)
    <3> DEFINE u == Append(t, d)
    <3>1. /\ u \in Seq(blocks) /\ Len(u) = n + 1
          /\ \A i \in 1..n : u[i] = t[i]
          /\ u[n + 1] = d
      BY <2>4, AppendProperties
    <3> HIDE DEF u
    <3>2. Len(s) = n + 1 /\ s[n + 1] = d
      BY <1>4, <2>n DEF IsLine
    <3>3. \A i \in 1..Len(s) : i \in 1..n \/ i = n + 1
      BY <2>n
    <3>4. \A i \in 1..Len(s) : s[i] = u[i]
      BY <2>4, <3>1, <3>2, <3>3
    <3> QED
      BY <2>1, <3>1, <3>2, <3>4, SeqEqual DEF u
  <2> QED
    BY <2>5, <2>6, <2>7, <2>8 DEF IsLine
<1> QED
  BY <1>1, <1>2, <1>3, <1>4

\* Every held block has one line.
LEMMA LineOfBlock ==
    ASSUME StoreWhole, NEW d \in blocks
    PROVE  IsLine(Line(d), d) /\ \A s : IsLine(s, d) => s = Line(d)
<1> DEFINE Lines(x) == \E s : IsLine(s, x)
           One(x) == \A s, t : IsLine(s, x) /\ IsLine(t, x) => s = t
           S == {x \in blocks : ~(Lines(x) /\ One(x))}
<1>1. S = {}
  <2> SUFFICES ASSUME S # {} PROVE FALSE
    OBVIOUS
  <2>1. PICK x \in S : anchor(x) \notin S
    <3>1. S \in SUBSET blocks
      OBVIOUS
    <3> HIDE DEF S
    <3> QED
      BY <3>1, AnchorsEnd
  <2>2. x \in blocks /\ ~(Lines(x) /\ One(x))
    OBVIOUS
  <2>3. anchor(x) = NoDigest \/ (Lines(anchor(x)) /\ One(anchor(x)))
    BY <2>1, <2>2, AnchorIsNamed
  <2>4. CASE anchor(x) = NoDigest
    BY <2>2, <2>4, LineGoesOn
  <2>5. CASE anchor(x) # NoDigest
    <3>1. Lines(x)
      BY <2>2, <2>3, <2>5, LineGoesOn
    <3>2. ASSUME NEW s, NEW t, IsLine(s, x), IsLine(t, x) PROVE s = t
      <4>1. PICK u : IsLine(u, anchor(x)) /\ s = Append(u, x)
        BY <2>2, <2>5, <3>2, LineGoesOn
      <4>2. PICK v : IsLine(v, anchor(x)) /\ t = Append(v, x)
        BY <2>2, <2>5, <3>2, LineGoesOn
      <4>3. u = v
        BY <2>3, <2>5, <4>1, <4>2
      <4> QED
        BY <4>1, <4>2, <4>3
    <3> QED
      BY <2>2, <3>1, <3>2
  <2> QED
    BY <2>4, <2>5
<1>2. Lines(d) /\ One(d)
  BY <1>1
<1> QED
  BY <1>2 DEF Line

\* What the line of a block is made of.
LEMMA LineStep ==
    ASSUME StoreWhole, NEW d \in blocks
    PROVE  /\ Line(d) \in Seq(blocks)
           /\ anchor(d) = NoDigest => Line(d) = <<d>>
           /\ anchor(d) # NoDigest => Line(d) = Append(Line(anchor(d)), d)
<1>1. IsLine(Line(d), d)
  BY LineOfBlock
<1>2. CASE anchor(d) = NoDigest
  BY <1>1, <1>2, LineGoesOn DEF IsLine, Linked
<1>3. CASE anchor(d) # NoDigest
  <2>1. PICK t : IsLine(t, anchor(d)) /\ Line(d) = Append(t, d)
    BY <1>1, <1>3, LineGoesOn
  <2>2. anchor(d) \in blocks
    BY <1>3, AnchorIsNamed
  <2>3. t = Line(anchor(d))
    BY <2>1, <2>2, LineOfBlock
  <2> QED
    BY <1>1, <1>3, <2>1, <2>3 DEF IsLine, Linked
<1> QED
  BY <1>2, <1>3
-----------------------------------------------------------------------------
\* The paths back from d past blocks that o has not placed.
PathsTo(o, d) ==
    {s \in Seq(blocks) : /\ Linked(s)
                         /\ s[Len(s)] = d
                         /\ \A i \in 2..Len(s) : s[i] \notin DOMAIN o.pos}

\* Where the walk back stops.
Stops(o, x) == x \in DOMAIN o.pos \/ x \notin blocks \/ anchor(x) = NoDigest

\* A path that does not stop goes on with an anchor.
LEMMA PathBack ==
    ASSUME StoreWhole, NEW o, NEW d \in blocks, NEW s \in PathsTo(o, d), ~Stops(o, Head(s))
    PROVE  LET t == <<anchor(Head(s))>> \o s IN t \in PathsTo(o, d) /\ Len(t) = Len(s) + 1
<1> DEFINE a == anchor(Head(s))
           h == <<a>>
           t == h \o s
<1>1. s \in Seq(blocks) /\ s # <<>> /\ Head(s) = s[1] /\ Len(s) \in Nat \ {0}
  BY EmptySeq DEF PathsTo, Linked
<1>2. Head(s) \in blocks /\ a \in blocks /\ Head(s) \notin DOMAIN o.pos
  BY AnchorIsNamed DEF Stops
<1>3. h \in Seq(blocks) /\ Len(h) = 1 /\ h[1] = a
  BY <1>2
<1> HIDE DEF h
<1>4. /\ t \in Seq(blocks) /\ Len(t) = 1 + Len(s)
      /\ \A i \in 1..(1 + Len(s)) : t[i] = IF i <= 1 THEN h[i] ELSE s[i - 1]
  <2>1. /\ t \in Seq(blocks) /\ Len(t) = Len(h) + Len(s)
        /\ \A i \in 1..(Len(h) + Len(s)) : t[i] = IF i <= Len(h) THEN h[i] ELSE s[i - Len(h)]
    BY <1>1, <1>3, ConcatProperties
  <2> HIDE DEF t
  <2> QED
    BY <1>3, <2>1
<1> DEFINE n == Len(s)
<1>n. n \in Nat \ {0} /\ n = Len(s)
  BY <1>1
<1> HIDE DEF t, n
<1>5. /\ Len(t) = n + 1 /\ t[1] = a
      /\ \A i \in 1..n : t[i + 1] = s[i]
  <2>1. t[1] = a
    <3>1. 1 \in 1..(1 + n)
      BY <1>n
    <3> QED
      BY <1>3, <1>4, <1>n, <3>1
  <2>2. ASSUME NEW i \in 1..n PROVE t[i + 1] = s[i]
    <3>1. i + 1 \in 1..(1 + n) /\ ~(i + 1 <= 1) /\ (i + 1) - 1 = i
      BY <1>n
    <3> QED
      BY <1>4, <1>n, <3>1
  <2> QED
    BY <1>4, <1>n, <2>1, <2>2
<1>6. ASSUME NEW i \in 2..Len(t) PROVE t[i - 1] = anchor(t[i]) /\ t[i] \notin DOMAIN o.pos
  <2>1. CASE i = 2
    <3>1. t[2] = s[1] /\ t[2 - 1] = a
      <4>1. 1 \in 1..n
        BY <1>n
      <4>2. t[1 + 1] = s[1]
        BY <1>5, <4>1
      <4> QED
        BY <1>5, <4>2
    <3> QED
      BY <1>1, <1>2, <2>1, <3>1
  <2>2. CASE i # 2
    <3> DEFINE j == i - 1
    <3>1. j \in 2..n /\ j \in 1..n /\ j - 1 \in 1..n /\ i = j + 1 /\ (j - 1) + 1 = j
      BY <1>5, <1>n, <2>2
    <3> HIDE DEF j
    <3>2. s[j - 1] = anchor(s[j]) /\ s[j] \notin DOMAIN o.pos
      BY <1>n, <3>1 DEF PathsTo, Linked
    <3>3. t[j + 1] = s[j] /\ t[j] = s[j - 1]
      <4>1. t[(j - 1) + 1] = s[j - 1] /\ t[j + 1] = s[j]
        BY <1>5, <3>1
      <4> QED
        BY <3>1, <4>1
    <3>4. i - 1 = j
      BY <3>1
    <3> QED
      BY <3>1, <3>2, <3>3, <3>4
  <2> QED
    BY <2>1, <2>2
<1>7. t[Len(t)] = d
  <2>1. n \in 1..n /\ s[n] = d
    BY <1>n DEF PathsTo
  <2> QED
    BY <1>5, <2>1
<1>8. t # <<>>
  BY <1>5, <1>n
<1>9. t \in PathsTo(o, d)
  BY <1>4, <1>6, <1>7, <1>8 DEF PathsTo, Linked
<1> QED
  BY <1>5, <1>9, <1>n DEF t, h

\* The walk back stops before it runs out of blocks.
LEMMA PathToStops ==
    ASSUME StoreWhole, NEW o, NEW d \in blocks
    PROVE  PathTo(o, d) \in PathsTo(o, d) /\ Stops(o, Head(PathTo(o, d)))
<1> DEFINE T == PathsTo(o, d)
           first == <<d>>
           Onward(s) == IF Stops(o, Head(s)) THEN s ELSE <<anchor(Head(s))>> \o s
           Shape(f) == [n \in Nat |-> IF n = 0 THEN first ELSE Onward(f[n - 1])]
           Back == CHOOSE f : f = Shape(f)
           step == [s \in T |-> Onward(s)]
<1>1. first \in T /\ Len(first) = 1
  BY DEF PathsTo, Linked
<1>2. ASSUME NEW s \in T
      PROVE  /\ Onward(s) \in T
             /\ Len(s) \in Nat
             /\ ~Stops(o, Head(s)) => Len(Onward(s)) = Len(s) + 1
             /\ Stops(o, Head(s)) => Onward(s) = s
  <2>1. Len(s) \in Nat
    BY DEF PathsTo
  <2>2. CASE Stops(o, Head(s))
    BY <2>1, <2>2
  <2>3. CASE ~Stops(o, Head(s))
    BY <2>1, <2>3, PathBack
  <2> QED
    BY <2>2, <2>3
<1>3. step \in [T -> T]
  BY <1>2
<1>7. PathTo(o, d) = Back[Cardinality(blocks)]
  BY DEF PathTo, Stops
<1>t. T = PathsTo(o, d)
  OBVIOUS
<1>e. first \in T
  BY <1>1
<1> HIDE DEF step, first, T
<1>g. \E f \in [Nat -> T] : f[0] = first /\ \A n \in Nat : f[n + 1] = step[f[n]]
  BY <1>e, <1>3, RecursionExists
<1>4. PICK f \in [Nat -> T] : f[0] = first /\ \A n \in Nat : f[n + 1] = step[f[n]]
  BY <1>g
<1>s. \A s \in T : step[s] = Onward(s)
  BY DEF step
<1> HIDE DEF step
<1>5. f = Shape(f)
  <2>1. f = [n \in Nat |-> f[n]]
    OBVIOUS
  <2>2. ASSUME NEW n \in Nat PROVE f[n] = IF n = 0 THEN first ELSE Onward(f[n - 1])
    <3>1. CASE n = 0
      BY <1>4, <3>1
    <3>2. CASE n # 0
      <4>1. n - 1 \in Nat /\ (n - 1) + 1 = n
        BY <3>2
      <4>2. f[(n - 1) + 1] = step[f[n - 1]] /\ f[n - 1] \in T
        BY <1>4, <4>1
      <4> HIDE DEF T, Onward
      <4> QED
        BY <1>s, <3>2, <4>1, <4>2
    <3> QED
      BY <3>1, <3>2
  <2> HIDE DEF Onward
  <2>3. Shape(f) = [n \in Nat |-> f[n]]
    BY <2>2
  <2> QED
    BY <2>1, <2>3
<1>6. Back = Shape(Back)
  <2>1. \E g : g = Shape(g)
    BY <1>5
  <2> HIDE DEF Shape
  <2> QED
    BY <2>1
<1> HIDE DEF Back, T, Onward, first
<1>8. \A n \in Nat : Back[n] = IF n = 0 THEN first ELSE Onward(Back[n - 1])
  BY <1>6
<1> DEFINE Far(n) == Back[n] \in T /\ (Stops(o, Head(Back[n])) \/ Len(Back[n]) = n + 1)
           R == {n \in Nat : Far(n)}
<1>9. R = Nat
  <2>1. 0 \in R
    BY <1>1, <1>8
  <2>2. ASSUME NEW n \in R PROVE n + 1 \in R
    <3>1. n \in Nat /\ n + 1 \in Nat /\ n + 1 # 0 /\ (n + 1) - 1 = n
      BY <2>2
    <3>2. Back[n + 1] = Onward(Back[n]) /\ Back[n] \in T
      BY <1>8, <2>2, <3>1
    <3>3. CASE Stops(o, Head(Back[n]))
      BY <1>2, <3>1, <3>2, <3>3
    <3>4. CASE ~Stops(o, Head(Back[n]))
      BY <1>2, <2>2, <3>1, <3>2, <3>4
    <3> QED
      BY <3>3, <3>4
  <2> HIDE DEF R
  <2> QED
    BY <2>1, <2>2, Induction DEF R
<1>10. Cardinality(blocks) \in Nat
  BY SetsOfDigests DEF StoreWhole, MemTypeOK
<1> DEFINE c == Cardinality(blocks)
<1>11. Far(c)
  <2> HIDE DEF Far
  <2> QED
    BY <1>9, <1>10
<1>12. Back[c] \in T /\ Stops(o, Head(Back[c]))
  <2>1. Back[c] \in T
    BY <1>11
  <2>2. Linked(Back[c])
    BY <1>t, <2>1 DEF PathsTo
  <2>3. Len(Back[c]) <= c /\ Len(Back[c]) \in Nat
    BY <2>2, LinkedIsSimple
  <2>4. Len(Back[c]) # c + 1
    <3> HIDE DEF c
    <3> QED
      BY <1>10, <2>3 DEF c
  <2> QED
    BY <1>11, <2>1, <2>4
<1> QED
  BY <1>7, <1>12, <1>t
-----------------------------------------------------------------------------
\* Where d stands on its line.
Right(d) == [lineage |-> Line(d)[1], index |-> Len(Line(d)) - 1]

\* A block stands after the block it follows.
LEMMA RightStep ==
    ASSUME StoreWhole, NEW d \in blocks
    PROVE  /\ Right(d).lineage \in blocks /\ Right(d).index \in Nat
           /\ anchor(d) = NoDigest => Right(d) = [lineage |-> d, index |-> 0]
           /\ anchor(d) # NoDigest =>
                Right(d) = [lineage |-> Right(anchor(d)).lineage, index |-> Right(anchor(d)).index + 1]
<1>1. IsLine(Line(d), d)
  BY LineOfBlock
<1>2. Line(d) \in Seq(blocks) /\ Len(Line(d)) \in Nat \ {0}
  BY <1>1, LinkedIsSimple DEF IsLine, Linked
<1>3. Right(d).lineage \in blocks /\ Right(d).index \in Nat
  <2> DEFINE n == Len(Line(d))
  <2>1. n \in Nat \ {0} /\ n = Len(Line(d))
    BY <1>2
  <2> HIDE DEF n
  <2>2. 1 \in 1..n /\ n - 1 \in Nat
    BY <2>1
  <2> QED
    BY <1>2, <2>1, <2>2 DEF Right
<1>4. CASE anchor(d) = NoDigest
  <2>1. Line(d) = <<d>>
    BY <1>4, LineStep
  <2> QED
    BY <1>3, <1>4, <2>1 DEF Right
<1>5. CASE anchor(d) # NoDigest
  <2> DEFINE a == anchor(d)
             l == Line(a)
             n == Len(l)
  <2>1. a \in blocks
    BY <1>5, AnchorIsNamed
  <2>2. l \in Seq(blocks) /\ n \in Nat \ {0}
    BY <2>1, LineOfBlock, LinkedIsSimple DEF IsLine, Linked
  <2>3. Line(d) = Append(l, d)
    BY <1>5, LineStep
  <2>r. Right(a) = [lineage |-> l[1], index |-> n - 1]
    BY DEF Right
  <2>l. n = Len(l)
    OBVIOUS
  <2> HIDE DEF a, l, n
  <2>4. Len(Append(l, d)) = n + 1 /\ Append(l, d)[1] = l[1]
    <3>1. Len(Append(l, d)) = n + 1 /\ \A i \in 1..n : Append(l, d)[i] = l[i]
      BY <2>2, <2>l, AppendProperties
    <3>2. 1 \in 1..n
      BY <2>2
    <3> QED
      BY <3>1, <3>2
  <2>5. Right(d) = [lineage |-> l[1], index |-> (n + 1) - 1]
    BY <2>3, <2>4 DEF Right
  <2>6. (n + 1) - 1 = (n - 1) + 1
    BY <2>2
  <2>7. Right(d) = [lineage |-> Right(a).lineage, index |-> Right(a).index + 1]
    BY <2>5, <2>6, <2>r
  <2> QED
    BY <1>3, <1>5, <2>7 DEF a
<1> QED
  BY <1>4, <1>5
-----------------------------------------------------------------------------
\* What an order is made of.
Places == [lineage : blocks, index : Nat]
Orders == [pos : UNION {[D -> Places] : D \in SUBSET blocks},
           conflicts : SUBSET {reportAmbiguity(B) : B \in SUBSET blocks},
           failed : {FALSE}]

\* It has placed blocks where they stand, each after what it follows, and told
\* of every succession in doubt that one of them begins.
IsRight(o) ==
    /\ o \in Orders
    /\ \A x \in DOMAIN o.pos :
          /\ o.pos[x] = Right(x)
          /\ anchor(x) # NoDigest => anchor(x) \in DOMAIN o.pos
          /\ IsGenesis(x) => \A B \in Doubts(x) : reportAmbiguity(B) \in o.conflicts

\* An order has a function of places, and its parts can be replaced.
LEMMA OrderParts ==
    ASSUME NEW o \in Orders
    PROVE  /\ DOMAIN o.pos \in SUBSET blocks
           /\ o.pos \in [DOMAIN o.pos -> Places]
           /\ o.conflicts \subseteq {reportAmbiguity(B) : B \in SUBSET blocks}
           /\ o.failed = FALSE
           /\ \A C, p : [[o EXCEPT !.conflicts = C] EXCEPT !.pos = p]
                            = [pos |-> p, conflicts |-> C, failed |-> FALSE]
<1>1. /\ o = [pos |-> o.pos, conflicts |-> o.conflicts, failed |-> FALSE]
      /\ o.pos \in UNION {[D -> Places] : D \in SUBSET blocks}
      /\ o.conflicts \subseteq {reportAmbiguity(B) : B \in SUBSET blocks}
      /\ o.failed = FALSE
  BY DEF Orders
<1>2. PICK D \in SUBSET blocks : o.pos \in [D -> Places]
  BY <1>1
<1>3. \A C, p : [[o EXCEPT !.conflicts = C] EXCEPT !.pos = p]
                    = [pos |-> p, conflicts |-> C, failed |-> FALSE]
  <2> SUFFICES ASSUME NEW C, NEW p
               PROVE  [[o EXCEPT !.conflicts = C] EXCEPT !.pos = p]
                          = [pos |-> p, conflicts |-> C, failed |-> FALSE]
    OBVIOUS
  <2>1. PICK P, K, F : F = FALSE /\ o = [pos |-> P, conflicts |-> K, failed |-> F]
    BY <1>1, Zenon
  <2>2. o = [pos |-> P, conflicts |-> K, failed |-> F]
    BY <2>1
  <2> DEFINE q == [o EXCEPT !.conflicts = C]
             w == [q EXCEPT !.pos = p]
  <2>3. q = [pos |-> P, conflicts |-> C, failed |-> F]
    BY ONLY <2>2
  <2> HIDE DEF q
  <2>4. w = [pos |-> p, conflicts |-> C, failed |-> F]
    BY ONLY <2>3
  <2> HIDE DEF w
  <2>5. w = [pos |-> p, conflicts |-> C, failed |-> FALSE]
    BY <2>1, <2>4, Zenon
  <2> QED
    BY <2>5 DEF w, q
<1> QED
  BY <1>1, <1>2, <1>3

\* What is in doubt about a held block is about held blocks.
LEMMA DoubtsAreHeld ==
    ASSUME StoreWhole, NEW g
    PROVE  g \in blocks => Doubts(g) \subseteq SUBSET blocks
<1> SUFFICES ASSUME g \in blocks PROVE Doubts(g) \subseteq SUBSET blocks
  OBVIOUS
<1>1. ClaimedBy(g) \subseteq blocks
  BY DEF ClaimedBy
<1>2. \A r \in blocks : Successors(r) \subseteq blocks
  BY DEF Successors, StoreWhole, MemTypeOK, BlocksReferencing
<1> QED
  BY <1>1, <1>2 DEF Doubts

\* Every block of a path stands as far after the first as on the path.
LEMMA PathIsRight ==
    ASSUME StoreWhole, NEW o, IsRight(o), NEW d \in blocks, NEW s \in PathsTo(o, d),
           Stops(o, Head(s)),
           NEW base, base = IF Head(s) \in DOMAIN o.pos THEN o.pos[Head(s)]
                                                        ELSE [lineage |-> Head(s), index |-> 0]
    PROVE  /\ base \in Places
           /\ \A i \in 1..Len(s) : Right(s[i]) = [base EXCEPT !.index = @ + i - 1]
<1>1. s \in Seq(blocks) /\ Head(s) = s[1] /\ Len(s) \in Nat \ {0} /\ s[1] \in blocks
  <2>1. s \in Seq(blocks) /\ s # <<>> /\ Len(s) \in Nat \ {0}
    BY EmptySeq DEF PathsTo, Linked
  <2> QED
    BY <2>1
<1>2. base = Right(s[1]) /\ base \in Places
  <2>1. Right(s[1]) \in Places
    BY <1>1, RightStep DEF Places, Right
  <2>2. CASE Head(s) \in DOMAIN o.pos
    BY <1>1, <2>1, <2>2 DEF IsRight
  <2>3. CASE Head(s) \notin DOMAIN o.pos
    <3>1. anchor(s[1]) = NoDigest
      BY <1>1, <2>3 DEF Stops
    <3> QED
      BY <1>1, <2>1, <2>3, <3>1, RightStep
  <2> QED
    BY <2>2, <2>3
<1> DEFINE n == Len(s)
           After(i) == [lineage |-> base.lineage, index |-> base.index + i]
           R == {i \in 0..(n - 1) : Right(s[i + 1]) = After(i)}
<1>n. n \in Nat \ {0} /\ n = Len(s) /\ n - 1 \in Nat
  BY <1>1
<1>b. base.index \in Nat /\ base = [lineage |-> base.lineage, index |-> base.index]
  BY <1>2 DEF Places
<1> HIDE DEF n
<1>3. 0 \in R
  <2>1. 0 \in 0..(n - 1) /\ 0 + 1 = 1 /\ base.index + 0 = base.index
    BY <1>n, <1>b
  <2>2. After(0) = base
    BY <1>b, <2>1
  <2> HIDE DEF After
  <2> QED
    BY <1>2, <2>1, <2>2
<1>4. ASSUME NEW i \in 1..(n - 1), i - 1 \in R PROVE i \in R
  <2>1. /\ i \in 0..(n - 1) /\ i + 1 \in 2..n /\ i \in 1..n /\ i + 1 \in 1..n
        /\ (i - 1) + 1 = i /\ (i + 1) - 1 = i
    BY <1>n
  <2>2. s[i] = anchor(s[i + 1]) /\ s[i + 1] \in blocks /\ s[i] \in blocks
    BY <1>1, <1>n, <2>1 DEF PathsTo, Linked
  <2>3. s[i] # NoDigest
    BY <2>2, NamedIsHeld
  <2>4. Right(s[i + 1]) = [lineage |-> Right(s[i]).lineage, index |-> Right(s[i]).index + 1]
    BY <2>2, <2>3, RightStep
  <2>5. Right(s[i]) = After(i - 1)
    BY <1>4, <2>1
  <2>6. Right(s[i]).lineage = base.lineage /\ Right(s[i]).index = base.index + (i - 1)
    BY <2>5
  <2>7. (base.index + (i - 1)) + 1 = base.index + i
    BY <1>b, <2>1
  <2> QED
    BY <2>1, <2>4, <2>6, <2>7
<1> HIDE DEF R
<1>5. 0..(n - 1) \subseteq R
  BY <1>n, <1>3, <1>4, InductionTo
<1>6. ASSUME NEW i \in 1..n PROVE Right(s[i]) = [base EXCEPT !.index = @ + i - 1]
  <2>1. i - 1 \in 0..(n - 1) /\ (i - 1) + 1 = i /\ base.index + (i - 1) = base.index + i - 1
    BY <1>n, <1>b
  <2>2. Right(s[i]) = After(i - 1)
    BY <1>5, <2>1 DEF R
  <2> QED
    BY <1>b, <2>1, <2>2
<1> QED
  BY <1>2, <1>6, <1>n

\* Placing a path gives every block of it its place.
LEMMA PlacedIsRight ==
    ASSUME StoreWhole, NEW o, IsRight(o), NEW d \in blocks, NEW s \in PathsTo(o, d),
           Stops(o, Head(s))
    PROVE  /\ DOMAIN Placed(o, s) = DOMAIN o.pos \cup Range(s)
           /\ \A x \in DOMAIN o.pos \cup Range(s) : Placed(o, s)[x] = Right(x)
<1> DEFINE first == Head(s)
           base == IF first \in DOMAIN o.pos THEN o.pos[first] ELSE [lineage |-> first, index |-> 0]
           place(x) == CHOOSE i \in DOMAIN s : s[i] = x
           U == DOMAIN o.pos \cup Range(s)
<1>1. Placed(o, s) = [x \in U |-> IF x \in DOMAIN o.pos
                                  THEN o.pos[x]
                                  ELSE [base EXCEPT !.index = @ + place(x) - 1]]
  BY DEF Placed
<1>2. \A i \in 1..Len(s) : Right(s[i]) = [base EXCEPT !.index = @ + i - 1]
  BY PathIsRight
<1>3. DOMAIN s = 1..Len(s)
  BY DEF PathsTo
<1>4. ASSUME NEW x \in Range(s) PROVE place(x) \in 1..Len(s) /\ s[place(x)] = x
  <2>1. \E i \in DOMAIN s : s[i] = x
    BY DEF Range
  <2> QED
    BY <1>3, <2>1
<1> HIDE DEF place, base
<1>5. ASSUME NEW x \in U PROVE Placed(o, s)[x] = Right(x)
  <2>1. CASE x \in DOMAIN o.pos
    BY <1>1, <2>1 DEF IsRight
  <2>2. CASE x \notin DOMAIN o.pos
    <3>1. x \in Range(s)
      BY <2>2
    <3>2. Placed(o, s)[x] = [base EXCEPT !.index = @ + place(x) - 1]
      BY <1>1, <2>2
    <3> QED
      BY <1>2, <1>4, <3>1, <3>2
  <2> QED
    BY <2>1, <2>2
<1> QED
  BY <1>1, <1>5

\* Placing a block leaves an order right, and placed the block.
LEMMA OfIsRight ==
    ASSUME StoreWhole, NEW o, IsRight(o), NEW d \in blocks
    PROVE  /\ IsRight(of(o, d))
           /\ d \in DOMAIN of(o, d).pos
           /\ DOMAIN o.pos \subseteq DOMAIN of(o, d).pos
           /\ o.conflicts \subseteq of(o, d).conflicts
<1> DEFINE s == PathTo(o, d)
           found == UNION {Doubts(g) : g \in {x \in Range(s) \cap blocks : IsGenesis(x)}}
           C == o.conflicts \cup {reportAmbiguity(B) : B \in found}
           p == of(o, d)
<1>1. s \in PathsTo(o, d) /\ Stops(o, Head(s))
  BY PathToStops
<1>2. s \in Seq(blocks) /\ Head(s) = s[1] /\ Len(s) \in Nat \ {0} /\ s[Len(s)] = d
      /\ \A i \in 1..Len(s) : s[i] \in blocks
  <2>1. s \in Seq(blocks) /\ s # <<>> /\ Len(s) \in Nat \ {0} /\ s[Len(s)] = d
    BY <1>1, EmptySeq DEF PathsTo, Linked
  <2> QED
    BY <2>1
<1>3. of(o, d) = Along(o, s)
  BY DEF of
<1>4. Head(s) \in blocks
  <2>1. 1 \in 1..Len(s)
    BY <1>2
  <2> QED
    BY <1>2, <2>1
<1> HIDE DEF s
<1>5. p = [[o EXCEPT !.conflicts = C] EXCEPT !.pos = Placed(o, s)]
  <2>1. Along(o, s) = [[o EXCEPT !.conflicts = @ \cup {reportAmbiguity(B) : B \in found}]
                         EXCEPT !.pos = Placed(o, s)]
    BY <1>4 DEF Along
  <2> QED
    BY <1>3, <2>1
<1>6. p = [pos |-> Placed(o, s), conflicts |-> C, failed |-> FALSE]
  <2>1. \A K, f : [[o EXCEPT !.conflicts = K] EXCEPT !.pos = f]
                      = [pos |-> f, conflicts |-> K, failed |-> FALSE]
    BY OrderParts DEF IsRight
  <2> DEFINE f == Placed(o, s)
  <2>2. p = [[o EXCEPT !.conflicts = C] EXCEPT !.pos = f]
    BY <1>5
  <2> HIDE DEF C, p, f
  <2>3. p = [pos |-> f, conflicts |-> C, failed |-> FALSE]
    BY <2>1, <2>2
  <2> QED
    BY <2>3 DEF f
<1>7. DOMAIN Placed(o, s) = DOMAIN o.pos \cup Range(s)
      /\ \A x \in DOMAIN o.pos \cup Range(s) : Placed(o, s)[x] = Right(x)
  BY <1>1, PlacedIsRight
<1>8. Range(s) \subseteq blocks /\ d \in Range(s) /\ \A i \in 1..Len(s) : s[i] \in Range(s)
  <2>1. DOMAIN s = 1..Len(s) /\ Len(s) \in 1..Len(s)
    BY <1>2
  <2> QED
    BY <1>2, <2>1 DEF Range
<1>9. DOMAIN o.pos \subseteq blocks
  BY OrderParts DEF IsRight
<1>10. C \subseteq {reportAmbiguity(B) : B \in SUBSET blocks}
  <2>1. found \subseteq SUBSET blocks
    BY DoubtsAreHeld
  <2> HIDE DEF found
  <2> QED
    BY <2>1, OrderParts DEF IsRight
<1>11. p \in Orders
  <2> DEFINE D == DOMAIN o.pos \cup Range(s)
             f == Placed(o, s)
  <2>1. D \in SUBSET blocks /\ \A x \in D : Right(x) \in Places
    BY <1>8, <1>9, RightStep DEF Places, Right
  <2>2. f = [x \in D |-> f[x]]
    BY <1>7 DEF Placed
  <2>3. f \in [D -> Places]
    BY <1>7, <2>1, <2>2
  <2> HIDE DEF D, f
  <2>4. Placed(o, s) \in UNION {[X -> Places] : X \in SUBSET blocks}
    BY <2>1, <2>3 DEF f
  <2> HIDE DEF C
  <2> QED
    BY <1>6, <1>10, <2>4 DEF Orders
<1>12. ASSUME NEW x \in Range(s), x \notin DOMAIN o.pos, anchor(x) # NoDigest
       PROVE  anchor(x) \in Range(s)
  <2>1. PICK i \in 1..Len(s) : x = s[i]
    BY <1>2 DEF Range
  <2>2. CASE i = 1
    BY <1>1, <1>2, <1>4, <1>12, <2>1, <2>2 DEF Stops
  <2>3. CASE i # 1
    <3>1. i \in 2..Len(s) /\ i - 1 \in 1..Len(s)
      BY <1>2, <2>3
    <3>2. s[i - 1] = anchor(s[i])
      BY <1>1, <3>1 DEF PathsTo, Linked
    <3> QED
      BY <1>8, <2>1, <3>1, <3>2
  <2> QED
    BY <2>2, <2>3
<1>13. ASSUME NEW x \in DOMAIN p.pos
       PROVE  /\ p.pos[x] = Right(x)
              /\ anchor(x) # NoDigest => anchor(x) \in DOMAIN p.pos
              /\ IsGenesis(x) => \A B \in Doubts(x) : reportAmbiguity(B) \in p.conflicts
  <2>0. p.pos = Placed(o, s) /\ p.conflicts = C
    BY <1>6
  <2> HIDE DEF p
  <2>1. p.pos[x] = Right(x)
    BY <1>7, <2>0
  <2>2. CASE x \in DOMAIN o.pos
    BY <1>7, <2>0, <2>1, <2>2 DEF IsRight
  <2>3. CASE x \notin DOMAIN o.pos
    <3>1. x \in Range(s) /\ x \in blocks
      BY <1>7, <1>8, <2>0, <2>3
    <3>2. IsGenesis(x) => Doubts(x) \subseteq found
      BY <3>1
    <3>3. IsGenesis(x) => \A B \in Doubts(x) : reportAmbiguity(B) \in C
      BY <3>2
    <3> QED
      BY <1>7, <1>12, <2>0, <2>1, <2>3, <3>1, <3>3
  <2> QED
    BY <2>2, <2>3
<1>14. d \in DOMAIN p.pos /\ DOMAIN o.pos \subseteq DOMAIN p.pos /\ o.conflicts \subseteq p.conflicts
  BY <1>6, <1>7, <1>8
<1> HIDE DEF p
<1>15. IsRight(p)
  BY <1>11, <1>13 DEF IsRight
<1> QED
  BY <1>14, <1>15 DEF p
-----------------------------------------------------------------------------
\* The n-th of some digests is one of them, and each of them is the n-th.
LEMMA NthCounts ==
    ASSUME NEW D \in SUBSET Digest
    PROVE  /\ \A n \in 1..Cardinality(D) : Nth(D, n) \in D
           /\ \A d \in D : \E n \in 1..Cardinality(D) : d = Nth(D, n)
<1> DEFINE s == Ascending(D)
           k == Cardinality(D)
           Lower(d) == {x \in D : rank[x] < rank[d]}
<1>1. s \in Seq(D) /\ Range(s) = D /\ InRank(s) /\ Len(s) = k
  BY AscendingType
<1>k. k \in Nat /\ k = Cardinality(D)
  BY SetsOfDigests
<1> HIDE DEF s, k
<1>2. s \in [1..k -> D] /\ DOMAIN s = 1..k
  BY <1>1
<1>3. ASSUME NEW i \in 1..k PROVE Cardinality(Lower(s[i])) = i - 1
  <2> DEFINE f == [j \in 1..(i - 1) |-> s[j]]
  <2>0. i - 1 \in Nat /\ \A j \in 1..(i - 1) : j \in 1..k /\ j < i
    BY <1>k
  <2>r. \A x \in D : rank[x] \in Nat
    BY RankAssumption
  <2>1. \A j \in 1..k : j < i => rank[s[j]] < rank[s[i]]
    BY <1>1, <1>2 DEF InRank
  <2>2. \A j \in 1..k : i < j => rank[s[i]] < rank[s[j]]
    BY <1>1, <1>2 DEF InRank
  <2>3. \A j \in 1..k : rank[s[j]] < rank[s[i]] => j \in 1..(i - 1)
    <3> SUFFICES ASSUME NEW j \in 1..k, rank[s[j]] < rank[s[i]], ~(j \in 1..(i - 1)) PROVE FALSE
      OBVIOUS
    <3>1. j = i \/ i < j
      BY <1>k
    <3>2. rank[s[i]] \in Nat /\ rank[s[j]] \in Nat
      BY <1>2, <2>r
    <3> QED
      BY <2>2, <3>1, <3>2
  <2>4. f \in [1..(i - 1) -> Lower(s[i])]
    BY <1>2, <2>0, <2>1
  <2>5. ASSUME NEW a \in 1..(i - 1), NEW b \in 1..(i - 1), f[a] = f[b] PROVE a = b
    <3>1. a \in 1..k /\ b \in 1..k /\ s[a] = s[b]
      BY <2>0, <2>5
    <3>2. a < b => rank[s[a]] < rank[s[b]]
      BY <1>1, <1>2, <3>1 DEF InRank
    <3>3. b < a => rank[s[b]] < rank[s[a]]
      BY <1>1, <1>2, <3>1 DEF InRank
    <3>4. rank[s[a]] \in Nat
      BY <1>2, <2>r, <3>1
    <3> QED
      BY <3>1, <3>2, <3>3, <3>4
  <2>6. ASSUME NEW x \in Lower(s[i]) PROVE \E j \in 1..(i - 1) : f[j] = x
    <3>1. PICK j \in 1..k : s[j] = x
      BY <1>1, <1>2 DEF Range
    <3> QED
      BY <2>3, <3>1
  <2>7. f \in Bijection(1..(i - 1), Lower(s[i]))
    <3> HIDE DEF f, Lower
    <3> QED
      BY <2>4, <2>5, <2>6 DEF Bijection, Injection, Surjection, IsInjective
  <2>8. IsFiniteSet(1..(i - 1)) /\ Cardinality(1..(i - 1)) = i - 1
    BY <2>0, CountTo
  <2> HIDE DEF f, Lower
  <2> QED
    BY <2>7, <2>8, FS_Bijection DEF ExistsBijection
<1>4. ASSUME NEW n \in 1..k PROVE Nth(D, n) = s[n] /\ s[n] \in D
  <2> DEFINE Is(d) == Cardinality(Lower(d)) = n - 1
  <2>1. s[n] \in D /\ Is(s[n])
    BY <1>2, <1>3
  <2>2. ASSUME NEW d \in D, Is(d) PROVE d = s[n]
    <3>1. PICK i \in 1..k : s[i] = d
      BY <1>1, <1>2 DEF Range
    <3>2. i - 1 = n - 1
      BY <1>3, <2>2, <3>1
    <3>3. i = n
      BY <1>k, <3>2
    <3> QED
      BY <3>1, <3>3
  <2>3. Nth(D, n) = CHOOSE d \in D : Is(d)
    BY DEF Nth
  <2> HIDE DEF Is
  <2> QED
    BY <2>1, <2>2, <2>3
<1>5. ASSUME NEW d \in D PROVE \E n \in 1..k : d = Nth(D, n)
  <2>1. PICK n \in 1..k : s[n] = d
    BY <1>1, <1>2 DEF Range
  <2> QED
    BY <1>4, <2>1
<1> QED
  BY <1>4, <1>5, <1>k

\* Placing a set of held blocks leaves an order right, and placed them all.
LEMMA PlaceAllIsRight ==
    ASSUME StoreWhole, NEW o, IsRight(o), NEW D \in SUBSET blocks
    PROVE  /\ IsRight(PlaceAll(o, D))
           /\ D \subseteq DOMAIN PlaceAll(o, D).pos
<1> DEFINE T == {p \in Orders : IsRight(p)}
           k == Cardinality(D)
           Onward(p, n) == IF p.failed THEN p ELSE of(p, Nth(D, n))
           Shape(f) == [n \in 0..k |-> IF n = 0 THEN o ELSE Onward(f[n - 1], n)]
           After == CHOOSE f : f = Shape(f)
           step == [n \in 1..k |-> [p \in T |-> of(p, Nth(D, n))]]
<1>0. D \in SUBSET Digest /\ k \in Nat
  BY SetsOfDigests DEF StoreWhole, MemTypeOK
<1>1. \A n \in 1..k : Nth(D, n) \in D /\ Nth(D, n) \in blocks
  BY <1>0, NthCounts
<1>2. o \in T
  BY DEF IsRight
<1>3. ASSUME NEW n \in 1..k, NEW p \in T
      PROVE  /\ Onward(p, n) = of(p, Nth(D, n)) /\ of(p, Nth(D, n)) \in T
             /\ Nth(D, n) \in DOMAIN of(p, Nth(D, n)).pos
             /\ DOMAIN p.pos \subseteq DOMAIN of(p, Nth(D, n)).pos
  <2>1. IsRight(p) /\ p.failed = FALSE
    BY OrderParts
  <2> DEFINE x == Nth(D, n)
  <2>2. x \in blocks
    BY <1>1
  <2> HIDE DEF x
  <2>3. IsRight(of(p, x)) /\ x \in DOMAIN of(p, x).pos /\ DOMAIN p.pos \subseteq DOMAIN of(p, x).pos
    BY <2>1, <2>2, OfIsRight
  <2>4. of(p, x) \in T
    BY <2>3 DEF IsRight
  <2>5. Onward(p, n) = of(p, x)
    BY <2>1 DEF x
  <2> HIDE DEF Onward, T
  <2> QED
    BY <2>3, <2>4, <2>5 DEF x
<1>4. step \in Turns(k, T)
  <2> HIDE DEF T, k, Onward
  <2> QED
    BY <1>3 DEF Turns
<1>5. PlaceAll(o, D) = After[k]
  BY DEF PlaceAll
<1> HIDE DEF T
<1>6. \E f \in [0..k -> T] : f[0] = o /\ \A n \in 1..k : f[n] = step[n][f[n - 1]]
  <2> HIDE DEF step, k
  <2> QED
    BY <1>0, <1>2, <1>4, RecursionTo
<1>7. PICK f \in [0..k -> T] : f[0] = o /\ \A n \in 1..k : f[n] = step[n][f[n - 1]]
  BY <1>6
<1>8. \A n \in 1..k : f[n] = Onward(f[n - 1], n)
  <2>1. \A n \in 1..k : n - 1 \in 0..k
    BY <1>0
  <2>2. \A n \in 1..k, p \in T : step[n][p] = of(p, Nth(D, n))
    OBVIOUS
  <2> HIDE DEF step, Onward, k
  <2> QED
    BY <1>3, <1>7, <2>1, <2>2
<1>9. f = Shape(f)
  <2>1. \A n \in 0..k : n = 0 \/ n \in 1..k
    BY <1>0
  <2> HIDE DEF k, Onward
  <2>2. \A n \in 0..k : f[n] = IF n = 0 THEN o ELSE Onward(f[n - 1], n)
    BY ONLY <1>7, <1>8, <2>1, Zenon
  <2>3. f = [n \in 0..k |-> f[n]]
    BY ONLY <1>7
  <2> QED
    BY ONLY <2>2, <2>3
<1>10. After = Shape(After)
  <2>1. \E g : g = Shape(g)
    BY <1>9
  <2> HIDE DEF Shape
  <2> QED
    BY <2>1
<1> HIDE DEF After
<1>11. \A n \in 0..k : After[n] = IF n = 0 THEN o ELSE Onward(After[n - 1], n)
  BY <1>10
<1> DEFINE Done(n) == After[n] \in T /\ \A i \in 1..n : Nth(D, i) \in DOMAIN After[n].pos
           R == {n \in 0..k : Done(n)}
<1> HIDE DEF k, Onward
<1>12. 0 \in R
  <2>1. 0 \in 0..k /\ 1..0 = {}
    BY <1>0
  <2>2. After[0] = o
    BY <1>11, <2>1
  <2> QED
    BY <1>2, <2>1, <2>2
<1>13. ASSUME NEW n \in 1..k, n - 1 \in R PROVE n \in R
  <2>1. n \in 0..k /\ n # 0 /\ \A i \in 1..n : i = n \/ i \in 1..(n - 1)
    BY <1>0
  <2> DEFINE p == After[n - 1]
  <2>2. p \in T /\ \A i \in 1..(n - 1) : Nth(D, i) \in DOMAIN p.pos
    BY <1>13
  <2>3. After[n] = Onward(p, n)
    BY <1>11, <2>1
  <2> HIDE DEF p
  <2>4. /\ Onward(p, n) \in T
        /\ Nth(D, n) \in DOMAIN Onward(p, n).pos
        /\ DOMAIN p.pos \subseteq DOMAIN Onward(p, n).pos
    BY <1>3, <2>2
  <2>5. \A i \in 1..n : Nth(D, i) \in DOMAIN After[n].pos
    BY <2>1, <2>2, <2>3, <2>4
  <2> QED
    BY <2>1, <2>3, <2>4, <2>5
<1> HIDE DEF R
<1>14. 0..k \subseteq R
  BY <1>0, <1>12, <1>13, InductionTo
<1>15. Done(k)
  <2>1. k \in 0..k
    BY <1>0
  <2> QED
    BY <1>14, <2>1 DEF R
<1>16. D \subseteq DOMAIN After[k].pos
  <2>1. \A d \in D : \E n \in 1..k : d = Nth(D, n)
    BY <1>0, NthCounts DEF k
  <2> QED
    BY <1>15, <2>1
<1> QED
  BY <1>5, <1>15, <1>16 DEF T

\* A new order is right, having placed nothing.
LEMMA NewOrderIsRight == IsRight(newBlockOrder)
<1> DEFINE none == [d \in {} |-> [lineage |-> d, index |-> 0]]
<1>1. newBlockOrder = [pos |-> none, conflicts |-> {}, failed |-> FALSE]
  BY DEF newBlockOrder
<1>2. none \in [{} -> Places] /\ {} \in SUBSET blocks /\ DOMAIN none = {}
  OBVIOUS
<1>3. none \in UNION {[D -> Places] : D \in SUBSET blocks}
  <2> HIDE DEF none
  <2> QED
    BY <1>2
<1> HIDE DEF none
<1>4. newBlockOrder \in Orders
  BY <1>1, <1>3 DEF Orders
<1>5. DOMAIN newBlockOrder.pos = {}
  BY <1>1, <1>2
<1> QED
  BY <1>4, <1>5 DEF IsRight
-----------------------------------------------------------------------------
\* What pairs reach from X: the least set with X that they do not lead out of.
LEMMA ReachedIsLeast ==
    ASSUME NEW pairs, IsFiniteSet(pairs), NEW X
    PROVE  /\ X \subseteq ReachedFrom(pairs, X)
           /\ \A q \in pairs : q[1] \in ReachedFrom(pairs, X) => q[2] \in ReachedFrom(pairs, X)
           /\ \A S : X \subseteq S /\ (\A q \in pairs : q[1] \in S => q[2] \in S)
                        => ReachedFrom(pairs, X) \subseteq S
<1> DEFINE D == {q[2] : q \in pairs}
           T == SUBSET (X \cup D)
           Onward(C) == C \cup {p[2] : p \in {q \in pairs : q[1] \in C}}
           Shape(f) == [n \in Nat |-> IF n = 0 THEN X ELSE Onward(f[n - 1])]
           Within == CHOOSE f : f = Shape(f)
           step == [C \in T |-> Onward(C)]
           k == Cardinality(pairs)
<1>1. k \in Nat /\ IsFiniteSet(D) /\ Cardinality(D) <= k
  <2> DEFINE second == [q \in pairs |-> q[2]]
  <2>1. second \in Surjection(pairs, D)
    BY DEF Surjection
  <2> HIDE DEF second, D
  <2> QED
    BY <2>1, FS_Surjection, FS_CardinalityType
<1>x. X \in T /\ step \in [T -> T]
  OBVIOUS
<1>2. X \in T /\ step \in [T -> T] /\ \A C \in T : step[C] = Onward(C) /\ C \subseteq step[C]
  OBVIOUS
<1>3. X \cup D \in T /\ \A C \in T : C \subseteq X \cup D
  OBVIOUS
<1>4. ReachedFrom(pairs, X) = Within[k]
  BY DEF ReachedFrom
<1>o. \A C \in T : Onward(C) = C \cup {p[2] : p \in {q \in pairs : q[1] \in C}}
  OBVIOUS
<1>t. T = SUBSET (X \cup D)
  OBVIOUS
<1>d. D = {q[2] : q \in pairs}
  OBVIOUS
<1> HIDE DEF step, T, k, D, Onward
<1>5. \E f \in [Nat -> T] : f[0] = X /\ \A n \in Nat : f[n + 1] = step[f[n]]
  BY <1>x, RecursionExists
<1>6. PICK f \in [Nat -> T] : f[0] = X /\ \A n \in Nat : f[n + 1] = step[f[n]]
  BY <1>5
<1>7. f = Shape(f)
  <2>1. ASSUME NEW n \in Nat PROVE f[n] = IF n = 0 THEN X ELSE Onward(f[n - 1])
    <3>1. CASE n = 0
      BY <1>6, <3>1
    <3>2. CASE n # 0
      <4>1. n - 1 \in Nat /\ (n - 1) + 1 = n
        BY <3>2
      <4>2. f[(n - 1) + 1] = step[f[n - 1]] /\ f[n - 1] \in T
        BY <1>6, <4>1
      <4> QED
        BY <1>2, <3>2, <4>1, <4>2
    <3> QED
      BY <3>1, <3>2
  <2>2. f = [n \in Nat |-> f[n]]
    OBVIOUS
  <2> QED
    BY <2>1, <2>2
<1>8. Within = Shape(Within)
  <2>1. \E g : g = Shape(g)
    BY <1>7
  <2> HIDE DEF Shape
  <2> QED
    BY <2>1
<1> HIDE DEF Within
<1>9. \A n \in Nat : Within[n] = IF n = 0 THEN X ELSE Onward(Within[n - 1])
  BY <1>8
<1> DEFINE R == {n \in Nat : Within[n] = f[n]}
<1>10. 0 \in R
  BY <1>6, <1>9
<1>11. ASSUME NEW n \in R PROVE n + 1 \in R
  <2>1. n \in Nat /\ n + 1 \in Nat /\ n + 1 # 0 /\ (n + 1) - 1 = n
    OBVIOUS
  <2>2. Within[n + 1] = Onward(f[n])
    BY <1>9, <2>1
  <2>3. f[n + 1] = step[f[n]] /\ f[n] \in T
    BY <1>6, <2>1
  <2> QED
    BY <1>2, <2>1, <2>2, <2>3
<1> HIDE DEF R
<1>12. Within[k] = f[k]
  BY <1>1, <1>10, <1>11, Induction DEF R
<1>13. /\ f[k] \in T
       /\ X \subseteq f[k]
       /\ step[f[k]] = f[k]
       /\ \A S \in T : X \subseteq S /\ (\A C \in T : C \subseteq S => step[C] \subseteq S)
                          => f[k] \subseteq S
  BY SMTT(30), <1>1, <1>2, <1>3, <1>6, SaturationFrom
<1>14. \A q \in pairs : q[1] \in f[k] => q[2] \in f[k]
  <2>1. Onward(f[k]) = f[k]
    BY <1>2, <1>13
  <2> QED
    BY <1>13, <1>o, <2>1
<1>15. ASSUME NEW S, X \subseteq S, \A q \in pairs : q[1] \in S => q[2] \in S
       PROVE  f[k] \subseteq S
  <2> DEFINE U == S \cap (X \cup D)
  <2>1. U \in T /\ X \subseteq U
    BY <1>15, <1>t
  <2>2. ASSUME NEW C \in T, C \subseteq U PROVE step[C] \subseteq U
    <3>1. step[C] = C \cup {p[2] : p \in {q \in pairs : q[1] \in C}}
      BY <1>2, <1>o
    <3>2. \A p \in {q \in pairs : q[1] \in C} : p[2] \in U
      BY <1>15, <1>d, <2>2
    <3> QED
      BY <2>2, <3>1, <3>2
  <2> HIDE DEF U
  <2>3. f[k] \subseteq U
    BY <1>13, <2>1, <2>2
  <2> QED
    BY <2>3 DEF U
<1> QED
  BY <1>4, <1>12, <1>13, <1>14, <1>15
-----------------------------------------------------------------------------
\* The claims of a genesis block are the rotation blocks it continues, and
\* the successors of a rotation block are those that continue it.
LEMMA ClaimsAndSuccessors ==
    ASSUME StoreWhole
    PROVE  /\ \A g \in blocks : IsGenesis(g) =>
                 ClaimedBy(g) = {r \in blocks : Continues(r, g)}
           /\ \A r \in blocks : IsRotation(r) =>
                 Successors(r) = {g \in blocks : Continues(r, g)}
           /\ \A g \in blocks : IsFiniteSet(ClaimedBy(g))
           /\ \A r \in blocks : IsFiniteSet(Successors(r))
<1>0. IsFiniteSet(blocks) /\ blocks \subseteq Digest
  BY SetsOfDigests DEF StoreWhole, MemTypeOK
<1>1. ASSUME NEW g \in blocks, IsGenesis(g)
      PROVE  ClaimedBy(g) = {r \in blocks : Continues(r, g)}
  BY <1>1 DEF ClaimedBy, Continues
<1>2. ASSUME NEW r \in blocks
      PROVE  Range(referrers[r]) = {d \in blocks : r \in Range(Refs(d))}
  BY <1>0 DEF StoreWhole
<1>3. ASSUME NEW r \in blocks, IsRotation(r)
      PROVE  Successors(r) = {g \in blocks : Continues(r, g)}
  BY <1>2, <1>3 DEF Successors, BlocksReferencing, Continues
<1>4. \A g \in blocks : ClaimedBy(g) \subseteq blocks
  BY DEF ClaimedBy
<1>5. \A r \in blocks : Successors(r) \subseteq blocks
  BY <1>2 DEF Successors, BlocksReferencing
<1> QED
  BY <1>0, <1>1, <1>3, <1>4, <1>5, FS_Subset

\* More than one is two.
LEMMA MoreThanOne ==
    ASSUME NEW S, IsFiniteSet(S)
    PROVE  Cardinality(S) > 1 <=> \E x, y \in S : x # y
<1>1. Cardinality(S) \in Nat
  BY FS_CardinalityType
<1>2. ASSUME NEW x \in S, NEW y \in S, x # y PROVE Cardinality(S) > 1
  <2>1. Cardinality(S) # 0
    BY FS_EmptySet
  <2>2. Cardinality(S) # 1
    <3> SUFFICES ASSUME Cardinality(S) = 1 PROVE FALSE
      OBVIOUS
    <3>1. PICK z : S = {z}
      BY FS_Singleton
    <3> QED
      BY <1>2, <3>1
  <2> QED
    BY <1>1, <2>1, <2>2
<1>3. ASSUME ~ \E x, y \in S : x # y PROVE ~(Cardinality(S) > 1)
  <2>1. CASE S = {}
    BY <2>1, FS_EmptySet
  <2>2. CASE S # {}
    <3>1. PICK x : S = {x}
      BY <1>3, <2>2
    <3>2. Cardinality(S) = 1
      BY <3>1, FS_Singleton
    <3> QED
      BY <3>2
  <2> QED
    BY <2>1, <2>2
<1> QED
  BY <1>2, <1>3

\* A claim is in doubt if another claim is made, or another block makes it:
\* what is reported then names both ends. Otherwise the two are joined.
LEMMA JoinedOrDoubted ==
    ASSUME StoreWhole, NEW r \in blocks, NEW g \in blocks, Continues(r, g)
    PROVE  /\ Joined(r, g) => Doubts(g) = {} /\ ClaimedBy(g) = {r}
           /\ ~Joined(r, g) => \E B \in Doubts(g) : {r, g} \subseteq B
<1> DEFINE claims == ClaimedBy(g)
<1>0. IsGenesis(g) /\ IsRotation(r)
  BY DEF Continues
<1>1. claims = {x \in blocks : Continues(x, g)} /\ r \in claims /\ IsFiniteSet(claims)
  BY <1>0, ClaimsAndSuccessors
<1>2. /\ Successors(r) = {x \in blocks : Continues(r, x)} /\ g \in Successors(r)
      /\ IsFiniteSet(Successors(r))
  BY <1>0, ClaimsAndSuccessors
<1>3. Doubts(g) = IF Cardinality(claims) > 1
                  THEN {claims \cup {g}}
                  ELSE {Successors(x) \cup {x} : x \in {y \in claims : Ambiguous(y)}}
  BY DEF Doubts
<1>4. Cardinality(claims) > 1 <=> \E x, y \in claims : x # y
  BY <1>1, MoreThanOne
<1>5. Ambiguous(r) <=> \E x, y \in Successors(r) : x # y
  BY <1>2, MoreThanOne DEF Ambiguous
<1> HIDE DEF claims
<1>6. ASSUME Joined(r, g) PROVE Doubts(g) = {} /\ claims = {r}
  <2>1. \A x \in claims : x = r
    BY <1>1, <1>6 DEF Joined
  <2>2. claims = {r} /\ ~(Cardinality(claims) > 1)
    BY <1>1, <1>4, <2>1
  <2>3. ~Ambiguous(r)
    BY <1>2, <1>5, <1>6 DEF Joined
  <2> QED
    BY <1>3, <2>2, <2>3
<1>7. ASSUME ~Joined(r, g) PROVE \E B \in Doubts(g) : {r, g} \subseteq B
  <2>1. CASE Cardinality(claims) > 1
    <3>1. claims \cup {g} \in Doubts(g) /\ {r, g} \subseteq claims \cup {g}
      BY <1>1, <1>3, <2>1
    <3> QED
      BY <3>1
  <2>2. CASE ~(Cardinality(claims) > 1)
    <3>1. \A x \in blocks : Continues(x, g) => x = r
      BY <1>1, <1>4, <2>2
    <3>2. PICK x \in blocks : Continues(r, x) /\ x # g
      BY <1>7, <3>1 DEF Joined
    <3>3. Ambiguous(r)
      BY <1>2, <1>5, <3>2
    <3>4. Successors(r) \cup {r} \in Doubts(g)
      BY <1>1, <1>3, <2>2, <3>3
    <3> QED
      BY <1>2, <3>4
  <2> QED
    BY <2>1, <2>2
<1> QED
  BY <1>6, <1>7 DEF claims

\* The block the order lets x follow is the one x follows.
LEMMA FollowsIsAnchor ==
    ASSUME StoreWhole, NEW x \in blocks, NEW y \in blocks
    PROVE  content[x].prev = y \/ Joined(y, x) <=> anchor(x) = y
<1>0. y # NoDigest
  BY NamedIsHeld
<1>1. CASE ~IsGenesis(x)
  BY <1>1 DEF anchor, Joined, Continues
<1>2. CASE IsGenesis(x)
  <2>1. anchor(x) = rotationBehind(x) /\ content[x].prev # y
    BY <1>0, <1>2 DEF anchor, IsGenesis
  <2>2. ASSUME Joined(y, x) PROVE rotationBehind(x) = y
    <3>1. Doubts(x) = {} /\ ClaimedBy(x) = {y}
      BY <2>2, JoinedOrDoubted DEF Joined
    <3> QED
      BY <3>1 DEF rotationBehind
  <2>3. ASSUME rotationBehind(x) = y PROVE Joined(y, x)
    <3>1. Doubts(x) = {} /\ y \in ClaimedBy(x)
      BY <1>0, <2>3 DEF rotationBehind
    <3>2. Continues(y, x)
      BY <1>2, <3>1, ClaimsAndSuccessors
    <3> QED
      BY <3>1, <3>2, JoinedOrDoubted
  <2> QED
    BY <2>1, <2>2, <2>3
<1> QED
  BY <1>1, <1>2
-----------------------------------------------------------------------------
\* A block's history, by Follows, is its line.
LEMMA HistoryIsLine ==
    ASSUME StoreWhole
    PROVE  \A d \in blocks : Histories[d] = Range(Line(d))
<1> SUFFICES ASSUME NEW d \in blocks PROVE Histories[d] = Range(Line(d))
  OBVIOUS
<1> DEFINE s == Line(d)
           H == ReachedFrom(Follows, {d})
<1>1. Histories[d] = H
  BY DEF Histories
<1>2. IsFiniteSet(Follows)
  <2>1. IsFiniteSet(blocks)
    BY SetsOfDigests DEF StoreWhole, MemTypeOK
  <2>2. IsFiniteSet(blocks \X blocks) /\ Follows \in SUBSET (blocks \X blocks)
    BY <2>1, FS_Product DEF Follows
  <2> QED
    BY <2>2, FS_Subset
<1>3. \A q \in Follows : q[1] \in blocks /\ q[2] \in blocks /\ anchor(q[1]) = q[2]
  BY FollowsIsAnchor DEF Follows
<1>4. \A x, y \in blocks : anchor(x) = y => <<x, y>> \in Follows
  BY FollowsIsAnchor DEF Follows
<1>5. IsLine(s, d)
  BY LineOfBlock
<1>6. /\ s \in Seq(blocks) /\ Len(s) \in Nat \ {0} /\ s[Len(s)] = d
      /\ anchor(s[1]) = NoDigest
      /\ \A i \in 2..Len(s) : s[i - 1] = anchor(s[i])
      /\ \A i \in 1..Len(s) : s[i] \in blocks
  BY <1>5, LinkedIsSimple DEF IsLine, Linked
<1> DEFINE n == Len(s)
<1>n. n \in Nat \ {0} /\ n = Len(s)
  BY <1>6
<1> HIDE DEF s, H, n
<1>7. Range(s) = {s[i] : i \in 1..n}
  BY <1>6, <1>n DEF Range
<1>8. H \subseteq Range(s)
  <2>1. {d} \subseteq Range(s)
    <3>1. n \in 1..n
      BY <1>n
    <3> QED
      BY <1>6, <1>7, <1>n, <3>1
  <2>2. ASSUME NEW q \in Follows, q[1] \in Range(s) PROVE q[2] \in Range(s)
    <3>1. PICK i \in 1..n : q[1] = s[i]
      BY <1>7, <2>2
    <3>2. anchor(s[i]) \in blocks /\ q[2] = anchor(s[i]) /\ NoDigest \notin blocks
      BY <1>3, <3>1, NamedIsHeld
    <3>3. i \in 2..n /\ i - 1 \in 1..n
      <4>1. i # 1
        BY <1>6, <3>2
      <4> QED
        BY <1>n, <4>1
    <3> QED
      BY <1>6, <1>7, <1>n, <3>2, <3>3
  <2> QED
    BY <1>2, <2>1, <2>2, ReachedIsLeast DEF H
<1>9. Range(s) \subseteq H
  <2>0. d \in H /\ \A q \in Follows : q[1] \in H => q[2] \in H
    BY <1>2, ReachedIsLeast DEF H
  <2> DEFINE R == {k \in 0..(n - 1) : s[n - k] \in H}
  <2>1. 0 \in R
    <3>1. n - 0 = n /\ 0 \in 0..(n - 1)
      BY <1>n
    <3> QED
      BY <1>6, <1>n, <2>0, <3>1
  <2>2. ASSUME NEW k \in 1..(n - 1), k - 1 \in R PROVE k \in R
    <3> DEFINE i == n - (k - 1)
    <3>1. i \in 2..n /\ i \in 1..n /\ i - 1 = n - k /\ i - 1 \in 1..n /\ k \in 0..(n - 1)
      BY <1>n
    <3>i. i = n - (k - 1)
      OBVIOUS
    <3> HIDE DEF i
    <3>2. s[i] \in H
      BY <2>2, <3>i
    <3>3. s[i - 1] = anchor(s[i]) /\ s[i] \in blocks /\ s[i - 1] \in blocks
      BY <1>6, <1>n, <3>1
    <3>4. s[i - 1] \in H
      <4> DEFINE q == <<s[i], s[i - 1]>>
      <4>1. q \in Follows
        BY <1>4, <3>3
      <4>2. q[1] = s[i] /\ q[2] = s[i - 1]
        OBVIOUS
      <4> HIDE DEF q
      <4> QED
        BY <2>0, <3>2, <4>1, <4>2
    <3> QED
      BY <3>1, <3>4
  <2> HIDE DEF R
  <2>3. 0..(n - 1) \subseteq R
    <3>1. n - 1 \in Nat
      BY <1>n
    <3> QED
      BY <2>1, <2>2, <3>1, InductionTo
  <2>4. ASSUME NEW i \in 1..n PROVE s[i] \in H
    <3>1. n - i \in 0..(n - 1) /\ n - (n - i) = i
      BY <1>n
    <3>2. n - i \in R
      BY <2>3, <3>1
    <3> QED
      BY <3>1, <3>2 DEF R
  <2> QED
    BY <1>7, <2>4
<1> QED
  BY <1>1, <1>8, <1>9 DEF s

\* A line has as many blocks as it is long, and begins with the one block of
\* it whose history is itself.
LEMMA LineCounts ==
    ASSUME StoreWhole, NEW d \in blocks
    PROVE  /\ Cardinality(Histories[d]) = Len(Line(d))
           /\ Origin(Histories, d) = Line(d)[1]
           /\ Histories[d] \subseteq blocks
<1> DEFINE s == Line(d)
           n == Len(s)
<1>1. IsLine(s, d)
  BY LineOfBlock
<1>2. /\ s \in Seq(blocks) /\ n \in Nat \ {0}
      /\ anchor(s[1]) = NoDigest
      /\ \A i \in 2..n : s[i - 1] = anchor(s[i])
      /\ \A i, j \in 1..n : s[i] = s[j] => i = j
      /\ \A i \in 1..n : s[i] \in blocks
  BY <1>1, LinkedIsSimple DEF IsLine, Linked
<1>n. n = Len(s)
  OBVIOUS
<1>3. Histories[d] = Range(s)
  BY HistoryIsLine
<1> HIDE DEF s, n
<1>4. Range(s) = {s[i] : i \in 1..n}
  BY <1>2, <1>n DEF Range
<1>5. Cardinality(Range(s)) = n
  <2>1. s \in Bijection(1..n, Range(s))
    <3>1. s \in [1..n -> Range(s)]
      BY <1>2, <1>n, <1>4
    <3>2. s \in Surjection(1..n, Range(s))
      BY <1>4, <3>1 DEF Surjection
    <3>3. s \in Injection(1..n, Range(s))
      BY <1>2, <3>1 DEF Injection, IsInjective
    <3> QED
      BY <3>2, <3>3 DEF Bijection
  <2>2. IsFiniteSet(1..n) /\ Cardinality(1..n) = n
    BY <1>2, CountTo
  <2> QED
    BY <2>1, <2>2, FS_Bijection DEF ExistsBijection
<1> DEFINE a == s[1]
<1>6. a \in Range(s) /\ a \in blocks /\ Histories[a] = {a}
  <2>1. 1 \in 1..n
    BY <1>2
  <2>2. a \in blocks /\ a \in Range(s)
    BY <1>2, <1>4, <2>1
  <2>3. Line(a) = <<a>>
    BY <1>2, <2>2, LineStep
  <2>4. Histories[a] = Range(<<a>>)
    BY <2>2, <2>3, HistoryIsLine
  <2>5. Range(<<a>>) = {a}
    BY DEF Range
  <2> QED
    BY <2>2, <2>4, <2>5
<1>7. ASSUME NEW x \in Range(s), Histories[x] = {x} PROVE x = a
  <2>1. PICK i \in 1..n : x = s[i]
    BY <1>4
  <2>2. CASE i = 1
    BY <2>1, <2>2
  <2>3. CASE i # 1
    <3>1. i \in 2..n /\ i - 1 \in 1..n
      BY <1>2, <2>3
    <3>2. anchor(x) = s[i - 1] /\ s[i - 1] \in blocks /\ x \in blocks
      BY <1>2, <2>1, <3>1
    <3>4. Line(x) = Append(Line(anchor(x)), x) /\ anchor(x) \in Range(Line(x))
      <4>1. anchor(x) # NoDigest
        BY <3>2, NamedIsHeld
      <4>2. Line(x) = Append(Line(anchor(x)), x)
        BY <3>2, <4>1, LineStep
      <4>3. IsLine(Line(anchor(x)), anchor(x))
        BY <3>2, LineOfBlock
      <4>4. Line(anchor(x)) \in Seq(blocks) /\ Len(Line(anchor(x))) \in Nat \ {0}
        BY <4>3, LinkedIsSimple DEF IsLine, Linked
      <4>5. Range(Append(Line(anchor(x)), x)) = Range(Line(anchor(x))) \cup {x}
        <5> DEFINE t == Line(anchor(x))
        <5>1. t \in Seq(blocks)
          BY <4>4
        <5> HIDE DEF t
        <5>2. Range(Append(t, x)) = Range(t) \cup {x}
          BY <3>2, <5>1, RangeAppend
        <5> QED
          BY <5>2 DEF t
      <4>6. anchor(x) \in Range(Line(anchor(x)))
        <5> DEFINE t == Line(anchor(x))
        <5>1. t \in Seq(blocks) /\ Len(t) \in Nat \ {0} /\ t[Len(t)] = anchor(x)
          BY <4>3, <4>4 DEF IsLine
        <5> HIDE DEF t
        <5>2. Len(t) \in DOMAIN t
          BY <5>1
        <5>3. anchor(x) \in Range(t)
          BY <5>1, <5>2 DEF Range
        <5> QED
          BY <5>3 DEF t
      <4> QED
        BY <4>2, <4>5, <4>6
    <3>5. anchor(x) \in Histories[x]
      BY <3>2, <3>4, HistoryIsLine
    <3>6. anchor(x) = x
      BY <1>7, <3>5
    <3>7. {x} \in SUBSET blocks /\ {x} # {}
      BY <3>2
    <3>8. \E y \in {x} : anchor(y) \notin {x}
      BY <3>7, AnchorsEnd
    <3> QED
      BY <3>6, <3>8
  <2> QED
    BY <2>2, <2>3
<1>8. Origin(Histories, d) = a
  <2>1. Origin(Histories, d) = CHOOSE x \in Histories[d] : Histories[x] = {x}
    BY DEF Origin
  <2> HIDE DEF a
  <2> QED
    BY <1>3, <1>6, <1>7, <2>1
<1>9. Range(s) \subseteq blocks
  BY <1>2, <1>4
<1> QED
  BY <1>3, <1>5, <1>8, <1>9, <1>n DEF s
-----------------------------------------------------------------------------
\* The store is whole, the graph is what its blocks make it, and no block is
\* ingested that the store does not hold.
AcceptInv == StoreWhole /\ GraphInv /\ DOMAIN payloads \subseteq blocks

\* It holds at first, and every step of the way of a block keeps it.
LEMMA AcceptInit == Init => AcceptInv
<1> SUFFICES ASSUME Init PROVE AcceptInv
  OBVIOUS
<1>1. GraphInv
  BY InitGraph DEF Init
<1>2. MemTypeOK /\ \A x \in Digest : referrers[x] = <<>>
  BY DEF Init, MemInit, MemTypeOK
<1>3. Range(<<>>) = {}
  BY DEF Range
<1>4. blocks = {} /\ DOMAIN payloads = {}
  BY DEF Init, MemInit, GraphInit
<1> QED
  BY <1>1, <1>2, <1>3, <1>4 DEF AcceptInv, StoreWhole

\* Who ingests a block may do so.
LEMMA IngestedIsHeld ==
    ASSUME AcceptInv, NEW d \in Digest,
           IngestPlain(d) \/ \E p \in Payloads : IngestOpened(d, p)
    PROVE  /\ d \in blocks
           /\ UNCHANGED <<memVars, subscribed>>
           /\ GraphNext
           /\ DOMAIN payloads' \subseteq DOMAIN payloads \cup {d}
<1>1. MayIngest(d) /\ UNCHANGED <<memVars, subscribed>>
  BY DEF IngestPlain, IngestOpened
<1>2. Ingest(d) \/ \E p \in Payloads : IngestPayload(d, p)
  BY DEF IngestPlain, IngestOpened
<1>3. \E ops, p : ingest(d, ops, p)
  BY <1>2 DEF Ingest, IngestPayload
<1>4. DOMAIN payloads' \subseteq DOMAIN payloads \cup {d}
  <2>1. CASE UNCHANGED graphVars
    BY <2>1 DEF graphVars
  <2>2. ASSUME NEW ops, NEW p, Accumulate(d, creations(ops), p)
        PROVE  DOMAIN payloads' \subseteq DOMAIN payloads \cup {d}
    BY <2>2 DEF Accumulate
  <2> QED
    BY <1>3, <2>1, <2>2 DEF ingest
<1> QED
  BY <1>1, <1>2, <1>4 DEF MayIngest, GraphNext

\* Blocks are stored whole and ingested from the store.
LEMMA AcceptStep == AcceptInv /\ [Next]_vars => AcceptInv'
<1> SUFFICES ASSUME AcceptInv, [Next]_vars PROVE AcceptInv'
  OBVIOUS
<1>1. ASSUME NEW d \in Digest, Store(d) PROVE AcceptInv'
  <2>1. StoreWhole'
    BY <1>1, StoreKeepsWhole DEF AcceptInv
  <2>2. UNCHANGED graphVars
    BY <1>1 DEF Store
  <2>3. GraphInv'
    BY <2>2, GraphStep DEF AcceptInv
  <2>4. blocks \subseteq blocks'
    BY <1>1 DEF Store, Add
  <2> QED
    BY <2>1, <2>2, <2>3, <2>4 DEF AcceptInv, graphVars
<1>2. ASSUME NEW d \in Digest, IngestPlain(d) \/ \E p \in Payloads : IngestOpened(d, p)
      PROVE  AcceptInv'
  <2>1. /\ d \in blocks /\ UNCHANGED memVars /\ GraphNext
        /\ DOMAIN payloads' \subseteq DOMAIN payloads \cup {d}
    BY <1>2, IngestedIsHeld
  <2>2. GraphInv'
    BY <2>1, GraphStep DEF AcceptInv
  <2>3. StoreWhole'
    BY <2>1 DEF AcceptInv, StoreWhole, memVars, MemTypeOK, Refs
  <2> QED
    BY <2>1, <2>2, <2>3 DEF AcceptInv, memVars
<1>3. CASE UNCHANGED vars
  <2>1. UNCHANGED memVars /\ UNCHANGED graphVars
    BY <1>3 DEF vars
  <2>2. GraphInv'
    BY <2>1, GraphStep DEF AcceptInv
  <2>3. StoreWhole'
    BY <2>1 DEF AcceptInv, StoreWhole, memVars, MemTypeOK, Refs
  <2> QED
    BY <2>1, <2>2, <2>3 DEF AcceptInv, memVars, graphVars
<1> QED
  BY <1>1, <1>2, <1>3 DEF Next

\* It holds of every state the layers get to.
LEMMA AcceptInvariant == Spec => []AcceptInv
  BY AcceptInit, AcceptStep, PTL DEF Spec

\* The way of blocks through the layers uses the graph as its callers may.
THEOREM AcceptanceUsesTheGraph == Spec => GraphSpec
<1>1. Init => GraphInit
  BY DEF Init
<1>2. AcceptInv /\ [Next]_vars => [GraphNext]_graphVars
  <2> SUFFICES ASSUME AcceptInv, [Next]_vars PROVE [GraphNext]_graphVars
    OBVIOUS
  <2>1. ASSUME NEW d \in Digest, Store(d) PROVE UNCHANGED graphVars
    BY <2>1 DEF Store
  <2>2. ASSUME NEW d \in Digest, IngestPlain(d) \/ \E p \in Payloads : IngestOpened(d, p)
        PROVE  GraphNext
    BY <2>2, IngestedIsHeld
  <2>3. UNCHANGED vars => UNCHANGED graphVars
    BY DEF vars
  <2> QED
    BY <2>1, <2>2, <2>3 DEF Next
<1> QED
  BY <1>1, <1>2, AcceptInvariant, PTL DEF Spec, GraphSpec
-----------------------------------------------------------------------------
\* The blocks a view places are held.
LEMMA PublishedAreHeld ==
    ASSUME AcceptInv, NEW S
    PROVE  Published(entities, InView(entities, S)) \subseteq blocks
<1>1. \A e \in DOMAIN entities : \A t \in entities[e].authors : t.block \in DOMAIN payloads
  <2>1. \A e \in DOMAIN entities :
          entities[e].authors =
              {TagOf(d) : d \in {x \in DOMAIN payloads : e \in creations(IngestedOps(x))}}
    BY DEF AcceptInv, GraphInv, GraphIsItsBlocks
  <2>2. \A d : TagOf(d).block = d
    BY DEF TagOf
  <2> QED
    BY <2>1, <2>2
<1>2. InView(entities, S) \subseteq DOMAIN entities
  BY DEF InView
<1> QED
  BY <1>1, <1>2 DEF Published, AcceptInv

\* What of a view comes from its order.
LEMMA ViewParts ==
    ASSUME NEW g, NEW S
    PROVE  /\ Build(g, S).positions = Positions(OrderOf(g, S), Published(g, InView(g, S)))
           /\ OrderOf(g, S).conflicts \subseteq Build(g, S).conflicts
           /\ Build(g, S).entries = InView(g, S)
<1> DEFINE E == InView(g, S)
           o == OrderOf(g, S)
           claims == read(g, E, S)
           standing == Standing(claims, o)
           class == ClassOf(E, On(standing, "equivalence"))
<1>1. Build(g, S) = Readings(S, g, o, claims, standing, class)
  BY DEF Build, Close
<1>2. DOMAIN class = E
  BY DEF ClassOf
<1> HIDE DEF standing, claims, o, class, E
<1>3. /\ Readings(S, g, o, claims, standing, class).positions = Positions(o, Published(g, DOMAIN class))
      /\ Readings(S, g, o, claims, standing, class).entries = DOMAIN class
      /\ o.conflicts \subseteq Readings(S, g, o, claims, standing, class).conflicts
  BY DEF Readings
<1> QED
  BY <1>1, <1>2, <1>3 DEF o, E

\* The order of a view is right, and has placed what the view places.
LEMMA OrderOfIsRight ==
    ASSUME AcceptInv, NEW S
    PROVE  LET o == OrderOf(entities, S)
           IN  /\ IsRight(o)
               /\ Published(entities, InView(entities, S)) \subseteq DOMAIN o.pos
<1>1. StoreWhole
  BY DEF AcceptInv
<1> QED
  BY <1>1, NewOrderIsRight, PublishedAreHeld, PlaceAllIsRight DEF OrderOf

\* A right order that has placed d has placed the history of d.
LEMMA HistoryIsPlaced ==
    ASSUME StoreWhole, NEW o, IsRight(o), NEW d \in DOMAIN o.pos
    PROVE  Histories[d] \subseteq DOMAIN o.pos
<1>1. DOMAIN o.pos \subseteq blocks /\ d \in blocks
  BY OrderParts DEF IsRight
<1>2. Histories[d] = ReachedFrom(Follows, {d})
  BY <1>1 DEF Histories
<1>3. ASSUME NEW q \in Follows, q[1] \in DOMAIN o.pos PROVE q[2] \in DOMAIN o.pos
  <2>1. q[1] \in blocks /\ q[2] \in blocks /\ anchor(q[1]) = q[2]
    BY FollowsIsAnchor DEF Follows
  <2>2. q[2] # NoDigest
    BY <2>1, NamedIsHeld
  <2> QED
    BY <1>3, <2>1, <2>2 DEF IsRight
<1>4. IsFiniteSet(Follows)
  <2>1. IsFiniteSet(blocks)
    BY SetsOfDigests DEF StoreWhole, MemTypeOK
  <2>2. IsFiniteSet(blocks \X blocks) /\ Follows \in SUBSET (blocks \X blocks)
    BY <2>1, FS_Product DEF Follows
  <2> QED
    BY <2>2, FS_Subset
<1>5. {d} \subseteq DOMAIN o.pos
  OBVIOUS
<1> QED
  BY <1>2, <1>3, <1>4, <1>5, ReachedIsLeast

\* In every state and for every subscription, a block of a view stands after
\* as many blocks as its history holds before it, in the lineage that history
\* begins, and every succession in doubt on the way is among the conflicts
\* (order.go, of, rotationBehind, reportAmbiguity).
THEOREM OrderAlwaysFollowsHistory == Spec => []OrderFollowsHistory
<1>1. AcceptInv => OrderFollowsHistory
  <2> SUFFICES ASSUME AcceptInv, NEW v \in Views
               PROVE  LET told == {c.blocks : c \in {x \in v.conflicts : x.kind = "succession"}}
                          history == Histories
                      IN  \A d \in DOMAIN v.positions :
                            /\ v.positions[d].lineage = Origin(history, d)
                            /\ v.positions[d].height = Cardinality(history[d]) - 1
                            /\ \A g \in history[d], r \in {x \in blocks : IsRotation(x)} :
                                  Continues(r, g) /\ ~Joined(r, g) => \E B \in told : {r, g} \subseteq B
    BY DEF OrderFollowsHistory
  <2> DEFINE told == {c.blocks : c \in {x \in v.conflicts : x.kind = "succession"}}
             o == OrderOf(entities, subscribed)
             P == Published(entities, InView(entities, subscribed))
  <2>0. StoreWhole
    BY DEF AcceptInv
  <2>1. v.positions = Positions(o, P) /\ o.conflicts \subseteq v.conflicts
    BY ViewParts DEF Views
  <2>2. IsRight(o) /\ P \subseteq DOMAIN o.pos /\ P \subseteq blocks
    BY OrderOfIsRight, PublishedAreHeld
  <2> HIDE DEF o, P
  <2>3. ASSUME NEW d \in P
        PROVE  v.positions[d].lineage = o.pos[d].lineage /\ v.positions[d].height = o.pos[d].index
    BY <2>1 DEF Positions
  <2>4. DOMAIN v.positions = P
    BY <2>1 DEF Positions
  <2>5. ASSUME NEW d \in P
        PROVE  /\ v.positions[d].lineage = Origin(Histories, d)
               /\ v.positions[d].height = Cardinality(Histories[d]) - 1
    <3>1. d \in blocks /\ o.pos[d] = Right(d)
      BY <2>2 DEF IsRight
    <3>2. Right(d).lineage = Line(d)[1] /\ Right(d).index = Len(Line(d)) - 1
      BY DEF Right
    <3> QED
      BY <2>0, <2>3, <3>1, <3>2, LineCounts
  <2>6. ASSUME NEW d \in P, NEW g \in Histories[d], NEW r \in blocks,
               Continues(r, g), ~Joined(r, g)
        PROVE  \E B \in told : {r, g} \subseteq B
    <3>1. g \in DOMAIN o.pos
      BY <2>0, <2>2, HistoryIsPlaced
    <3>2. g \in blocks /\ IsGenesis(g)
      BY <2>6, <2>2, <3>1, OrderParts DEF IsRight, Continues
    <3>3. PICK B \in Doubts(g) : {r, g} \subseteq B
      BY <2>0, <2>6, <3>2, JoinedOrDoubted
    <3>4. reportAmbiguity(B) \in v.conflicts
      BY <2>1, <2>2, <3>1, <3>2 DEF IsRight
    <3>5. reportAmbiguity(B).kind = "succession" /\ reportAmbiguity(B).blocks = B
      BY DEF reportAmbiguity
    <3>6. B \in told
      BY <3>4, <3>5
    <3> QED
      BY <3>3, <3>6
  <2> HIDE DEF told
  <2> QED
    BY <2>4, <2>5, <2>6 DEF told
<1> QED
  BY <1>1, AcceptInvariant, PTL
-----------------------------------------------------------------------------
\* The chain of a genesis block is the block.
LEMMA WalkOfGenesis ==
    ASSUME NEW g, IsGenesis(g), IsFiniteSet(blocks)
    PROVE  walk(g) = <<g>>
<1> DEFINE one == <<g>>
           Onward(s) == IF Head(s) \notin blocks \/ IsGenesis(Head(s))
                        THEN s ELSE <<content[Head(s)].prev>> \o s
           Shape(f) == [n \in Nat |-> IF n = 0 THEN one ELSE Onward(f[n - 1])]
           Back == CHOOSE f : f = Shape(f)
           k == Cardinality(blocks)
<1>1. Onward(one) = one
  OBVIOUS
<1>2. walk(g) = Back[k]
  BY DEF walk
<1>3. k \in Nat
  BY FS_CardinalityType
<1> HIDE DEF one, Onward
<1> DEFINE f == [n \in Nat |-> one]
<1>4. f = Shape(f)
  <2>1. \A n \in Nat : one = IF n = 0 THEN one ELSE Onward(f[n - 1])
    <3> SUFFICES ASSUME NEW n \in Nat, n # 0 PROVE one = Onward(f[n - 1])
      OBVIOUS
    <3>1. n - 1 \in Nat
      OBVIOUS
    <3> QED
      BY <1>1, <3>1
  <2> HIDE DEF f
  <2>2. Shape(f) = [n \in Nat |-> one]
    BY <2>1
  <2> QED
    BY <2>2 DEF f
<1>5. Back = Shape(Back)
  <2>1. \E h : h = Shape(h)
    BY <1>4
  <2> HIDE DEF Shape
  <2> QED
    BY <2>1
<1> HIDE DEF Back, f
<1>6. \A n \in Nat : Back[n] = IF n = 0 THEN one ELSE Onward(Back[n - 1])
  BY <1>5
<1> DEFINE R == {n \in Nat : Back[n] = one}
<1>7. 0 \in R
  BY <1>6
<1>8. ASSUME NEW n \in R PROVE n + 1 \in R
  <2>1. n \in Nat /\ n + 1 \in Nat /\ n + 1 # 0 /\ (n + 1) - 1 = n
    OBVIOUS
  <2>2. Back[n + 1] = Onward(Back[n])
    BY <1>6, <2>1
  <2> QED
    BY <1>1, <2>1, <2>2
<1> HIDE DEF R, k
<1>9. Back[k] = one
  BY <1>3, <1>7, <1>8, Induction DEF R
<1> QED
  BY <1>2, <1>9 DEF one

\* In every state the order joins a genesis block to a rotation block exactly
\* when ValidateHistory, which reads the store for itself, accepts the two as
\* one history (order.go, rotationBehind; chain.go, ValidateHistory).
THEOREM HistoriesAlwaysAgree == Spec => []HistoriesAgree
<1>1. AcceptInv => HistoriesAgree
  <2> SUFFICES ASSUME AcceptInv, NEW r \in blocks, NEW g \in blocks,
                      IsRotation(r), IsGenesis(g), Cardinality(ClaimedBy(g)) = 1,
                      g \in Validated, ValidateChain(r, Validated)
               PROVE  ValidateHistory(<<r, g>>, Validated)
                          <=> of(newBlockOrder, g).pos[g].index > 0 /\ r \in ClaimedBy(g)
    BY DEF HistoriesAgree
  <2>0. StoreWhole /\ IsFiniteSet(blocks)
    BY SetsOfDigests DEF AcceptInv, StoreWhole, MemTypeOK
  <2>1. walk(g) = <<g>>
    BY <2>0, WalkOfGenesis
  <2>2. Head(walk(g)) = g /\ ValidateChain(g, Validated)
    <3>1. Range(<<g>>) = {g}
      BY DEF Range
    <3> QED
      BY <2>1, <3>1 DEF ValidateChain
  <2>3. ValidateHistory(<<r, g>>, Validated) <=> Continues(r, g) /\ ~Ambiguous(r)
    <3> DEFINE tips == <<r, g>>
    <3>1. DOMAIN tips = {1, 2} /\ tips[1] = r /\ tips[2] = g /\ tips # <<>> /\ tips[2 - 1] = r
      OBVIOUS
    <3>2. ValidateHistory(tips, Validated) <=>
             \A i \in DOMAIN tips :
                /\ ValidateChain(tips[i], Validated)
                /\ i > 1 => Continues(tips[i - 1], Head(walk(tips[i]))) /\ ~Ambiguous(tips[i - 1])
      BY <3>1 DEF ValidateHistory
    <3> HIDE DEF tips
    <3>3. 2 > 1 /\ ~(1 > 1)
      OBVIOUS
    <3>4. ValidateHistory(tips, Validated) <=> Continues(r, g) /\ ~Ambiguous(r)
      BY <2>2, <3>1, <3>2, <3>3
    <3> QED
      BY <3>4 DEF tips
  <2>4. of(newBlockOrder, g).pos[g] = Right(g)
    BY <2>0, NewOrderIsRight, OfIsRight DEF IsRight
  <2>5. Right(g).index > 0 <=> anchor(g) # NoDigest
    <3>1. CASE anchor(g) = NoDigest
      <4>1. Right(g).index = 0
        BY <2>0, <3>1, RightStep
      <4> QED
        BY <3>1, <4>1
    <3>2. CASE anchor(g) # NoDigest
      <4>1. anchor(g) \in blocks
        BY <2>0, <3>2, AnchorIsNamed
      <4>2. Right(anchor(g)).index \in Nat
        BY <2>0, <4>1, RightStep
      <4>3. Right(g).index = Right(anchor(g)).index + 1
        BY <2>0, <3>2, RightStep
      <4> QED
        BY <3>2, <4>2, <4>3
    <3> QED
      BY <3>1, <3>2
  <2>6. ClaimedBy(g) = {x \in blocks : Continues(x, g)} /\ IsFiniteSet(ClaimedBy(g))
    BY <2>0, ClaimsAndSuccessors
  <2>7. PICK s : ClaimedBy(g) = {s}
    BY <2>6, FS_Singleton
  <2>8. s \in blocks /\ Continues(s, g) /\ IsRotation(s) /\ s # NoDigest
    BY <2>0, <2>6, <2>7, NamedIsHeld DEF Continues
  <2>9. anchor(g) # NoDigest <=> ~Ambiguous(s)
    <3>1. ~(Cardinality(ClaimedBy(g)) > 1)
      OBVIOUS
    <3>2. Doubts(g) = {Successors(x) \cup {x} : x \in {y \in ClaimedBy(g) : Ambiguous(y)}}
      BY <3>1 DEF Doubts
    <3>3. Doubts(g) = {} <=> ~Ambiguous(s)
      BY <2>7, <3>2
    <3>4. anchor(g) = IF Doubts(g) # {} THEN NoDigest ELSE s
      BY <2>7 DEF anchor, rotationBehind
    <3> QED
      BY <2>8, <3>3, <3>4
  <2>10. r \in ClaimedBy(g) <=> Continues(r, g)
    BY <2>6
  <2>11. r \in ClaimedBy(g) <=> r = s
    BY <2>7
  <2> QED
    BY <2>3, <2>4, <2>5, <2>9, <2>10, <2>11
<1> QED
  BY <1>1, AcceptInvariant, PTL
-----------------------------------------------------------------------------
\* What a graph says of who published what comes from held blocks.
TagsHeld(g) == \A e \in DOMAIN g : \A t \in g[e].authors : t.block \in blocks

\* h is g and what one block of author a adds to it.
GrownBy(g, h, a) ==
    /\ DOMAIN g \subseteq DOMAIN h
    /\ \A e \in DOMAIN g : g[e].authors \subseteq h[e].authors
    /\ \A e \in DOMAIN h : \A t \in h[e].authors :
          t.author # a => e \in DOMAIN g /\ t \in g[e].authors

\* The claims of the view of S.
ClaimsOf(g, S) == read(g, InView(g, S), S)

\* One block more.
LEMMA OneBlockMore ==
    ASSUME AcceptInv, [Next]_vars, NEW d \in DOMAIN payloads' \ DOMAIN payloads
    PROVE  /\ UNCHANGED <<memVars, subscribed>>
           /\ StoreWhole
           /\ TagsHeld(entities) /\ TagsHeld(entities')
           /\ GrownBy(entities, entities', content[d].pub)
<1>1. AcceptInv'
  BY AcceptStep
<1>2. PICK b \in Digest : IngestPlain(b) \/ \E p \in Payloads : IngestOpened(b, p)
  <2>1. ~UNCHANGED vars
    BY DEF vars, graphVars
  <2>2. \A x \in Digest : ~Store(x)
    BY DEF Store, graphVars
  <2> QED
    BY <2>1, <2>2 DEF Next
<1>3. UNCHANGED <<memVars, subscribed>> /\ GraphNext
  BY <1>2, IngestedIsHeld
<1>4. ~UNCHANGED graphVars
  BY DEF graphVars
<1>5. PICK e, created, payload : Handed(e, created, payload) /\ Accumulate(e, created, payload)
  BY <1>3, <1>4, CallsAccumulate
<1>6. /\ DOMAIN entities' = DOMAIN entities \cup created
      /\ DOMAIN payloads' = DOMAIN payloads \cup {e}
      /\ \A x \in DOMAIN entities \cup created : entities'[x].authors = TagsWith(x, e, created)
  BY <1>5, AccumulateType DEF AcceptInv, GraphInv
<1>7. e = d
  BY <1>6
<1>8. GrownBy(entities, entities', content[d].pub)
  <2>1. TagOf(d).author = content[d].pub
    BY DEF TagOf
  <2> QED
    BY <1>6, <1>7, <2>1 DEF GrownBy, TagsWith, Provenance
<1>9. \A x : TagOf(x).block = x
  BY DEF TagOf
<1>10. TagsHeld(entities)
  BY <1>9 DEF AcceptInv, GraphInv, GraphIsItsBlocks, TagsHeld
<1>11. TagsHeld(entities')
  <2>1. blocks' = blocks
    BY <1>3 DEF memVars
  <2>2. d \in blocks
    BY <1>1, <2>1 DEF AcceptInv
  <2>3. \A x \in DOMAIN entities' : \A t \in TagsWith(x, d, created) : t.block \in blocks
    BY <1>9, <1>10, <2>2 DEF TagsWith, TagsHeld, Provenance
  <2> QED
    BY <1>6, <1>7, <2>3 DEF TagsHeld
<1> QED
  BY <1>3, <1>8, <1>10, <1>11 DEF AcceptInv

\* An order has placed the block of every tag a view reads.
LEMMA TagsArePlaced ==
    ASSUME StoreWhole, NEW g, TagsHeld(g), NEW S
    PROVE  /\ IsRight(OrderOf(g, S))
           /\ \A e \in InView(g, S) : \A t \in subscribedProvenance(g, e, S) :
                 OrderOf(g, S).pos[t.block] = Right(t.block)
<1> DEFINE P == Published(g, InView(g, S))
<1>1. InView(g, S) \subseteq DOMAIN g
  BY DEF InView
<1>2. P \in SUBSET blocks
  BY <1>1 DEF Published, TagsHeld
<1>3. \A e \in InView(g, S) : \A t \in subscribedProvenance(g, e, S) : t.block \in P
  BY DEF Published, subscribedProvenance
<1> HIDE DEF P
<1>4. IsRight(PlaceAll(newBlockOrder, P)) /\ P \subseteq DOMAIN PlaceAll(newBlockOrder, P).pos
  BY <1>2, NewOrderIsRight, PlaceAllIsRight
<1>5. OrderOf(g, S) = PlaceAll(newBlockOrder, P)
  BY DEF OrderOf, P
<1> QED
  BY <1>3, <1>4, <1>5 DEF IsRight

\* A claim is one of an entity of the view, with what backs publishing it.
LEMMA ClaimParts ==
    ASSUME NEW g, NEW S, NEW cl \in ClaimsOf(g, S)
    PROVE  /\ cl.meta \in InView(g, S) /\ cl.meta \in MetaIn(InView(g, S)) /\ FitsTemplate(cl.meta)
           /\ cl = Claim(g, cl.meta, S)
           /\ cl.bond = molecule[cl.meta].bond
           /\ cl.prov = subscribedProvenance(g, cl.meta, S)
<1>1. PICK m \in MetaIn(InView(g, S)) : FitsTemplate(m) /\ cl = Claim(g, m, S)
  BY DEF ClaimsOf, read
<1>2. Claim(g, m, S).meta = m /\ Claim(g, m, S).bond = molecule[m].bond
      /\ Claim(g, m, S).prov = subscribedProvenance(g, m, S)
  BY DEF Claim
<1> QED
  BY <1>1, <1>2 DEF MetaIn

\* The claims of a view are in the view of who was told no less.
LEMMA ClaimsGrow ==
    ASSUME NEW g, NEW h, NEW a, GrownBy(g, h, a), NEW S
    PROVE  /\ InView(g, S) \subseteq InView(h, S)
           /\ \A cl \in ClaimsOf(g, S) : Claim(h, cl.meta, S) \in ClaimsOf(h, S)
           /\ \A e \in InView(h, S) : \A t \in subscribedProvenance(h, e, S) :
                 t.author # a => e \in InView(g, S) /\ t \in subscribedProvenance(g, e, S)
           /\ \A e \in InView(g, S) : subscribedProvenance(g, e, S) \subseteq subscribedProvenance(h, e, S)
<1>1. \A e \in DOMAIN g : subscribedProvenance(g, e, S) \subseteq subscribedProvenance(h, e, S)
  BY DEF GrownBy, subscribedProvenance
<1>2. InView(g, S) \subseteq InView(h, S)
  BY <1>1 DEF GrownBy, InView
<1>3. MetaIn(InView(g, S)) \subseteq MetaIn(InView(h, S))
  BY <1>2 DEF MetaIn
<1>4. \A cl \in ClaimsOf(g, S) : Claim(h, cl.meta, S) \in ClaimsOf(h, S)
  BY <1>3, ClaimParts DEF ClaimsOf, read
<1>5. \A e \in DOMAIN h : \A t \in subscribedProvenance(h, e, S) :
         t.author # a => e \in DOMAIN g /\ t \in subscribedProvenance(g, e, S)
  BY DEF GrownBy, subscribedProvenance
<1> QED
  BY <1>1, <1>2, <1>4, <1>5 DEF InView
-----------------------------------------------------------------------------
\* What a claim is made of, whoever asks.
Statement(t, p) == [author |-> t.author, pos |-> p.pos[t.block], backs |-> TRUE]
Word(t, p, x) == [author |-> t.author, pos |-> p.pos[t.block], backs |-> x.bond = "assertion"]

\* Publishing a claim backs it, and a truth claim about it speaks for or against.
LEMMA StatementsAre ==
    ASSUME NEW cl, NEW claims, NEW p, NEW r
    PROVE  r \in Statements(cl, claims, p) <=>
              \/ \E t \in cl.prov : r = Statement(t, p)
              \/ \E x \in Truths(claims) : \E t \in x.prov :
                    /\ x.a = cl.meta
                    /\ \E u \in cl.prov : t.author = u.author
                    /\ r = Word(t, p, x)
  BY DEF Statements, Statement, Word

\* Only its publishers back a claim.
LEMMA BackersPublished ==
    ASSUME NEW cl, NEW claims, NEW p, NEW b \in backers(cl, claims, p)
    PROVE  \E t \in cl.prov : b = t.author
<1>1. PICK r \in Statements(cl, claims, p) : b = r.author
  BY DEF backers, LastOf
<1>2. \A t, z : Statement(t, p).author = t.author /\ Word(t, p, z).author = t.author
  BY DEF Statement, Word
<1>3. \/ \E t \in cl.prov : r = Statement(t, p)
      \/ \E x \in Truths(claims) : \E t \in x.prov :
            /\ x.a = cl.meta
            /\ \E u \in cl.prov : t.author = u.author
            /\ r = Word(t, p, x)
  BY StatementsAre
<1> QED
  BY <1>1, <1>2, <1>3

\* What a view calls withdrawn.
LEMMA WithdrawnInView ==
    ASSUME NEW S
    PROVE  \A g : /\ Build(g, S).withdrawn = Withdrawn(ClaimsOf(g, S), OrderOf(g, S))
                  /\ Build(g, S).entries = InView(g, S)
<1> SUFFICES ASSUME NEW g
             PROVE  /\ Build(g, S).withdrawn = Withdrawn(ClaimsOf(g, S), OrderOf(g, S))
                    /\ Build(g, S).entries = InView(g, S)
  OBVIOUS
<1> DEFINE E == InView(g, S)
           o == OrderOf(g, S)
           claims == ClaimsOf(g, S)
           standing == Standing(claims, o)
           class == ClassOf(E, On(standing, "equivalence"))
<1>1. Build(g, S) = Readings(S, g, o, claims, standing, class)
  BY DEF Build, Close, ClaimsOf
<1> HIDE DEF standing, claims, o, class
<1>2. Readings(S, g, o, claims, standing, class).withdrawn = Withdrawn(claims, o)
  BY DEF Readings
<1> QED
  BY <1>1, <1>2, ViewParts DEF claims, o

\* Who backs a claim depends on what that author has said.
LEMMA BackersByAuthor ==
    ASSUME NEW c1, NEW claims1, NEW p1, NEW c2, NEW claims2, NEW p2, NEW b,
           \A r : r.author = b =>
                    (r \in Statements(c1, claims1, p1) <=> r \in Statements(c2, claims2, p2))
    PROVE  b \in backers(c1, claims1, p1) <=> b \in backers(c2, claims2, p2)
<1> DEFINE A == Statements(c1, claims1, p1)
           B == Statements(c2, claims2, p2)
<1>1. \A r : r.author = b => (r \in A <=> r \in B)
  OBVIOUS
<1>2. b \in backers(c1, claims1, p1) <=> \E r \in LastOf(A) : r.backs /\ r.author = b
  BY DEF backers
<1>3. b \in backers(c2, claims2, p2) <=> \E r \in LastOf(B) : r.backs /\ r.author = b
  BY DEF backers
<1> HIDE DEF A, B
<1>4. \A r : r.author = b => (r \in LastOf(A) <=> r \in LastOf(B))
  BY <1>1 DEF LastOf
<1> QED
  BY <1>2, <1>3, <1>4 DEF LastOf

\* Another author's block changes nothing an author has said of a claim.
LEMMA OthersSayNothing ==
    ASSUME StoreWhole, NEW g, NEW h, TagsHeld(g), TagsHeld(h), NEW a, GrownBy(g, h, a), NEW S,
           NEW m, Claim(g, m, S) \in ClaimsOf(g, S), NEW b, b # a
    PROVE  b \in backers(Claim(g, m, S), ClaimsOf(g, S), OrderOf(g, S))
              <=> b \in backers(Claim(h, m, S), ClaimsOf(h, S), OrderOf(h, S))
<1> DEFINE C == ClaimsOf(g, S)
           D == ClaimsOf(h, S)
           o == OrderOf(g, S)
           p == OrderOf(h, S)
           c == Claim(g, m, S)
           k == Claim(h, m, S)
<1>1. /\ \A e \in InView(g, S) : \A t \in subscribedProvenance(g, e, S) : o.pos[t.block] = Right(t.block)
      /\ \A e \in InView(h, S) : \A t \in subscribedProvenance(h, e, S) : p.pos[t.block] = Right(t.block)
  BY TagsArePlaced
<1>2. c.meta = m /\ k.meta = m /\ m \in InView(g, S) /\ m \in InView(h, S)
      /\ c.prov = subscribedProvenance(g, m, S) /\ k.prov = subscribedProvenance(h, m, S)
  <2>1. c.meta = m /\ k.meta = m /\ c.prov = subscribedProvenance(g, m, S)
        /\ k.prov = subscribedProvenance(h, m, S)
    BY DEF Claim
  <2>2. m \in InView(g, S)
    BY <2>1, ClaimParts
  <2> QED
    BY <2>1, <2>2, ClaimsGrow
<1>3. \A e \in InView(g, S) : \A t \in subscribedProvenance(g, e, S) :
         /\ e \in InView(h, S) /\ t \in subscribedProvenance(h, e, S)
         /\ o.pos[t.block] = p.pos[t.block]
  BY <1>1, ClaimsGrow
<1>4. \A e \in InView(h, S) : \A t \in subscribedProvenance(h, e, S) :
         t.author = b => e \in InView(g, S) /\ t \in subscribedProvenance(g, e, S)
  BY ClaimsGrow
<1>5. \A t : t.author = b => (t \in c.prov <=> t \in k.prov)
  BY <1>2, <1>3, <1>4
<1>6. ASSUME NEW x \in Truths(C)
      PROVE  \E y \in Truths(D) : y.a = x.a /\ y.bond = x.bond /\ x.prov \subseteq y.prov
  <2> DEFINE y == Claim(h, x.meta, S)
  <2>1. x \in C /\ x.bond \in {"assertion", "retraction"}
    BY DEF Truths, On
  <2>2. x = Claim(g, x.meta, S) /\ x.meta \in InView(g, S)
        /\ x.prov = subscribedProvenance(g, x.meta, S)
    BY <2>1, ClaimParts
  <2>3. y \in D
    BY <2>1, ClaimsGrow
  <2>4. y.a = Claim(g, x.meta, S).a /\ y.bond = Claim(g, x.meta, S).bond
        /\ y.prov = subscribedProvenance(h, x.meta, S)
    BY DEF Claim
  <2>5. y.a = x.a /\ y.bond = x.bond
    BY <2>2, <2>4, Zenon
  <2>6. x.prov \subseteq y.prov
    BY <1>3, <2>2, <2>4
  <2> HIDE DEF y, C, D
  <2> QED
    BY <2>1, <2>3, <2>5, <2>6 DEF Truths, On
<1>7. ASSUME NEW y \in Truths(D), NEW t \in y.prov, t.author = b
      PROVE  \E x \in Truths(C) : x.a = y.a /\ x.bond = y.bond /\ t \in x.prov
  <2> DEFINE x == Claim(g, y.meta, S)
  <2>1. y \in D /\ y.bond \in {"assertion", "retraction"}
    BY DEF Truths, On
  <2>2. y = Claim(h, y.meta, S) /\ y.meta \in MetaIn(InView(h, S)) /\ y.meta \in InView(h, S)
        /\ FitsTemplate(y.meta)
        /\ y.prov = subscribedProvenance(h, y.meta, S)
    BY <2>1, ClaimParts
  <2>3. y.meta \in InView(g, S) /\ t \in subscribedProvenance(g, y.meta, S)
    BY <1>4, <1>7, <2>2
  <2>4. x \in C
    BY <2>2, <2>3 DEF ClaimsOf, read, MetaIn
  <2>5. x.a = Claim(h, y.meta, S).a /\ x.bond = Claim(h, y.meta, S).bond
        /\ x.prov = subscribedProvenance(g, y.meta, S)
    BY DEF Claim
  <2>6. x.a = y.a /\ x.bond = y.bond
    BY <2>2, <2>5, Zenon
  <2> HIDE DEF x, C, D
  <2> QED
    BY <2>1, <2>3, <2>4, <2>5, <2>6 DEF Truths, On
<1>8. \A x \in Truths(C) : \A t \in x.prov : o.pos[t.block] = p.pos[t.block]
  <2> SUFFICES ASSUME NEW x \in Truths(C), NEW t \in x.prov PROVE o.pos[t.block] = p.pos[t.block]
    OBVIOUS
  <2>1. x \in C
    BY DEF Truths, On
  <2>2. x.meta \in InView(g, S) /\ x.prov = subscribedProvenance(g, x.meta, S)
    BY <2>1, ClaimParts
  <2> QED
    BY <1>3, <2>2
<1>9. \A t \in c.prov : o.pos[t.block] = p.pos[t.block]
  BY <1>2, <1>3
<1> HIDE DEF C, D, o, p, c, k
<1>10. ASSUME NEW r, r.author = b
       PROVE  r \in Statements(c, C, o) <=> r \in Statements(k, D, p)
  <2>0. \A t, q, z : Statement(t, q).author = t.author /\ Word(t, q, z).author = t.author
    BY DEF Statement, Word
  <2>1. ASSUME NEW t \in c.prov, r = Statement(t, o)
        PROVE  r \in Statements(k, D, p)
    <3>1. t.author = b /\ t \in k.prov
      BY <1>5, <1>10, <2>0, <2>1
    <3>2. r = Statement(t, p)
      BY <1>9, <2>1 DEF Statement
    <3> QED
      BY <3>1, <3>2, StatementsAre
  <2>2. ASSUME NEW t \in k.prov, r = Statement(t, p)
        PROVE  r \in Statements(c, C, o)
    <3>1. t.author = b /\ t \in c.prov
      BY <1>5, <1>10, <2>0, <2>2
    <3>2. r = Statement(t, o)
      BY <1>9, <2>2, <3>1 DEF Statement
    <3> QED
      BY <3>1, <3>2, StatementsAre
  <2>3. ASSUME NEW x \in Truths(C), NEW t \in x.prov, x.a = c.meta,
               NEW u \in c.prov, t.author = u.author, r = Word(t, o, x)
        PROVE  r \in Statements(k, D, p)
    <3>1. t.author = b /\ u \in k.prov
      BY <1>5, <1>10, <2>0, <2>3
    <3>2. PICK y \in Truths(D) : y.a = x.a /\ y.bond = x.bond /\ t \in y.prov
      BY <1>6
    <3>3. r = Word(t, p, y)
      BY <1>8, <2>3, <3>2 DEF Word
    <3>4. y.a = k.meta
      BY <1>2, <2>3, <3>2
    <3> QED
      BY <2>3, <3>1, <3>2, <3>3, <3>4, StatementsAre
  <2>4. ASSUME NEW y \in Truths(D), NEW t \in y.prov, y.a = k.meta,
               NEW u \in k.prov, t.author = u.author, r = Word(t, p, y)
        PROVE  r \in Statements(c, C, o)
    <3>1. t.author = b /\ u \in c.prov
      BY <1>5, <1>10, <2>0, <2>4
    <3>2. PICK x \in Truths(C) : x.a = y.a /\ x.bond = y.bond /\ t \in x.prov
      BY <1>7, <3>1
    <3>3. r = Word(t, o, x)
      BY <1>8, <2>4, <3>2 DEF Word
    <3>4. x.a = c.meta
      BY <1>2, <2>4, <3>2
    <3> QED
      BY <2>4, <3>1, <3>2, <3>3, <3>4, StatementsAre
  <2>5. ASSUME r \in Statements(c, C, o) PROVE r \in Statements(k, D, p)
    <3>1. \/ \E t \in c.prov : r = Statement(t, o)
          \/ \E x \in Truths(C) : \E t \in x.prov :
                /\ x.a = c.meta
                /\ \E u \in c.prov : t.author = u.author
                /\ r = Word(t, o, x)
      BY <2>5, StatementsAre
    <3> QED
      BY <2>1, <2>3, <3>1
  <2>6. ASSUME r \in Statements(k, D, p) PROVE r \in Statements(c, C, o)
    <3>1. \/ \E t \in k.prov : r = Statement(t, p)
          \/ \E y \in Truths(D) : \E t \in y.prov :
                /\ y.a = k.meta
                /\ \E u \in k.prov : t.author = u.author
                /\ r = Word(t, p, y)
      BY <2>6, StatementsAre
    <3> QED
      BY <2>2, <2>4, <3>1
  <2> QED
    BY <2>5, <2>6
<1>11. b \in backers(c, C, o) <=> b \in backers(k, D, p)
  BY <1>10, BackersByAuthor
<1> QED
  BY <1>11 DEF C, D, o, p, c, k
-----------------------------------------------------------------------------
\* A claim is withdrawn by nobody but its publishers, in every state and for
\* every subscription (standing.go, backers).
THEOREM NobodyEverHasAVeto == Spec => NobodyHasAVeto
<1> DEFINE Kept ==
        \A d \in DOMAIN payloads' \ DOMAIN payloads :
          \A v \in Views, w \in {Build(entities', subscribed)} :
              \A m \in (w.withdrawn \ v.withdrawn) \cap v.entries :
                  content[d].pub \in {t.author : t \in Provenance(m)}
<1>1. ASSUME AcceptInv, [Next]_vars PROVE [Kept]_vars
  <2> SUFFICES ASSUME NEW d \in DOMAIN payloads' \ DOMAIN payloads,
                      NEW m, m \in Build(entities', subscribed).withdrawn,
                      m \notin Build(entities, subscribed).withdrawn,
                      m \in Build(entities, subscribed).entries,
                      \A t \in Provenance(m) : t.author # content[d].pub
               PROVE  FALSE
    BY DEF Views
  <2> DEFINE g == entities
             h == entities'
             S == subscribed
             a == content[d].pub
             cl == Claim(g, m, S)
  <2>1. StoreWhole /\ TagsHeld(g) /\ TagsHeld(h) /\ GrownBy(g, h, a)
    BY <1>1, OneBlockMore
  <2> HIDE DEF g, h, S, a
  <2>2. \A x : /\ Build(x, S).withdrawn = Withdrawn(ClaimsOf(x, S), OrderOf(x, S))
               /\ Build(x, S).entries = InView(x, S)
    BY WithdrawnInView
  <2>3. m \in InView(g, S) /\ m \in Withdrawn(ClaimsOf(h, S), OrderOf(h, S))
        /\ m \notin Withdrawn(ClaimsOf(g, S), OrderOf(g, S))
    BY <2>2 DEF g, h, S
  <2>4. PICK k \in Gated(ClaimsOf(h, S)) : k.meta = m /\ backers(k, ClaimsOf(h, S), OrderOf(h, S)) = {}
    BY <2>3 DEF Withdrawn
  <2>5. k \in ClaimsOf(h, S) /\ k = Claim(h, m, S) /\ m \in MetaIn(InView(h, S)) /\ FitsTemplate(m)
    BY <2>4, ClaimParts DEF Gated
  <2>6. cl \in ClaimsOf(g, S)
    BY <2>3, <2>5 DEF ClaimsOf, read, MetaIn
  <2>7. cl \in Gated(ClaimsOf(g, S)) /\ cl.meta = m
    <3>1. cl.bond = k.bond /\ cl.meta = m
      <4>1. Claim(g, m, S).bond = Claim(h, m, S).bond /\ Claim(g, m, S).meta = m
        BY DEF Claim
      <4> QED
        BY <2>5, <4>1, Zenon
    <3> HIDE DEF cl
    <3> QED
      BY <2>4, <2>6, <3>1 DEF Gated, Truths, On
  <2>8. PICK b : b \in backers(cl, ClaimsOf(g, S), OrderOf(g, S))
    BY <2>3, <2>7 DEF Withdrawn
  <2>9. b # a
    <3>1. \E t \in cl.prov : b = t.author
      BY <2>8, BackersPublished
    <3>2. cl.prov = subscribedProvenance(g, m, S)
      BY DEF Claim
    <3>3. subscribedProvenance(g, m, S) \subseteq Provenance(m)
      BY <2>3 DEF subscribedProvenance, Provenance, InView, g
    <3> QED
      BY <3>1, <3>2, <3>3 DEF a
  <2>10. b \in backers(Claim(h, m, S), ClaimsOf(h, S), OrderOf(h, S))
    BY <2>1, <2>6, <2>8, <2>9, OthersSayNothing
  <2> QED
    BY <2>4, <2>5, <2>10
<1>2. NobodyHasAVeto <=> [][Kept]_vars
  BY DEF NobodyHasAVeto
<1> QED
  BY <1>1, <1>2, AcceptInvariant, PTL DEF Spec
-----------------------------------------------------------------------------
\* A block of an author who is not subscribed to brings a view no claim.
LEMMA SameClaims ==
    ASSUME NEW g, NEW h, NEW a, GrownBy(g, h, a), NEW S, a \notin S
    PROVE  /\ InView(h, S) = InView(g, S)
           /\ ClaimsOf(h, S) = ClaimsOf(g, S)
           /\ Who(h, InView(h, S), S) = Who(g, InView(g, S), S)
<1>1. \A e \in DOMAIN g : subscribedProvenance(h, e, S) = subscribedProvenance(g, e, S)
  BY DEF GrownBy, subscribedProvenance
<1>2. \A e \in DOMAIN h : subscribedProvenance(h, e, S) # {} => e \in DOMAIN g
  BY DEF GrownBy, subscribedProvenance
<1>3. InView(h, S) = InView(g, S)
  BY <1>1, <1>2 DEF GrownBy, InView
<1>4. \A m \in InView(g, S) : Claim(h, m, S) = Claim(g, m, S)
  BY <1>1 DEF Claim, InView
<1>5. MetaIn(InView(g, S)) \subseteq InView(g, S)
  BY DEF MetaIn
<1>6. read(h, InView(g, S), S) = read(g, InView(g, S), S)
  BY <1>4, <1>5 DEF read
<1>7. Who(h, InView(g, S), S) = Who(g, InView(g, S), S)
  BY <1>1 DEF Who, InView
<1> QED
  BY <1>3, <1>6, <1>7 DEF ClaimsOf

\* It may move no block whose place a claim depends on.
LEMMA SamePlaces ==
    ASSUME StoreWhole, NEW g, NEW h, TagsHeld(g), TagsHeld(h), NEW a, GrownBy(g, h, a),
           NEW S, a \notin S, NEW cl \in ClaimsOf(g, S), NEW t \in cl.prov
    PROVE  OrderOf(h, S).pos[t.block] = OrderOf(g, S).pos[t.block]
<1>1. cl.meta \in InView(g, S) /\ t \in subscribedProvenance(g, cl.meta, S)
  BY ClaimParts
<1>2. cl.meta \in InView(h, S) /\ t \in subscribedProvenance(h, cl.meta, S)
  BY <1>1, ClaimsGrow
<1> QED
  BY <1>1, <1>2, TagsArePlaced

\* The claim cl where the authors of B back it.
Backed(cl, B) == [cl EXCEPT !.backing = {t \in cl.prov : t.author \in B}]

\* The record of one publication of a truth claim.
TruthRecord(class, cl, t, o) ==
    [class |-> class[cl.a], lineage |-> o.pos[t.block].lineage,
     index |-> o.pos[t.block].index, author |-> t.author, stance |-> cl.bond,
     meta |-> cl.meta, block |-> t.block, subject |-> cl.a]

\* A view has a record of each.
LEMMA TruthRecordsAre ==
    ASSUME NEW class, NEW claims, NEW o, NEW r
    PROVE  r \in TruthRecords(class, claims, o) <=>
              \E cl \in Truths(claims) : \E t \in cl.prov :
                 cl.a \in DOMAIN class /\ r = TruthRecord(class, cl, t, o)
  BY DEF TruthRecords, TruthRecord

\* What stands, what is withdrawn and what is said of the truth of a class
\* depends on the order only at the blocks that publish claims.
LEMMA PlacesDecide ==
    ASSUME NEW C, NEW o, NEW p,
           \A cl \in C : \A t \in cl.prov : p.pos[t.block] = o.pos[t.block]
    PROVE  /\ Standing(C, p) = Standing(C, o)
           /\ Withdrawn(C, p) = Withdrawn(C, o)
           /\ \A class : TruthRecords(class, C, p) = TruthRecords(class, C, o)
<1>1. Truths(C) \subseteq C /\ Gated(C) \subseteq C
  BY DEF Truths, On, Gated
<1>2. \A cl \in C : \A t \in cl.prov : Statement(t, p) = Statement(t, o)
  BY DEF Statement
<1>3. \A cl \in C : \A t \in cl.prov : \A x : Word(t, p, x) = Word(t, o, x)
  BY DEF Word
<1>4. \A cl \in C : Statements(cl, C, p) = Statements(cl, C, o)
  <2> SUFFICES ASSUME NEW cl \in C, NEW r
               PROVE  r \in Statements(cl, C, p) <=> r \in Statements(cl, C, o)
    <3>1. \A cl \in C : \A r : r \in Statements(cl, C, p) <=> r \in Statements(cl, C, o)
      OBVIOUS
    <3>2. \A cl \in C : /\ Statements(cl, C, p) \subseteq Statements(cl, C, o)
                        /\ Statements(cl, C, o) \subseteq Statements(cl, C, p)
      BY <3>1
    <3> QED
      BY <3>2
  <2> QED
    BY <1>1, <1>2, <1>3, StatementsAre
<1>5. \A cl \in Gated(C) : backers(cl, C, p) = backers(cl, C, o)
  BY <1>1, <1>4 DEF backers
<1>6. Withdrawn(C, p) = Withdrawn(C, o)
  BY <1>5 DEF Withdrawn
<1>7. \A q : Standing(C, q) =
                {Backed(cl, backers(cl, C, q)) : cl \in {x \in Gated(C) : backers(x, C, q) # {}}}
  BY DEF Standing, Backed
<1>8. Standing(C, p) = Standing(C, o)
  BY <1>5, <1>7
<1>9. ASSUME NEW class PROVE TruthRecords(class, C, p) = TruthRecords(class, C, o)
  <2>1. \A cl \in C : \A t \in cl.prov : TruthRecord(class, cl, t, p) = TruthRecord(class, cl, t, o)
    BY DEF TruthRecord
  <2>2. \A r : r \in TruthRecords(class, C, p) <=> r \in TruthRecords(class, C, o)
    BY <1>1, <2>1, TruthRecordsAre
  <2>3. /\ TruthRecords(class, C, p) \subseteq TruthRecords(class, C, o)
        /\ TruthRecords(class, C, o) \subseteq TruthRecords(class, C, p)
    BY <2>2
  <2> QED
    BY <2>3
<1> QED
  BY <1>6, <1>8, <1>9

\* What a view is made of, its positions and the successions in doubt aside.
ReadsAs(v, who, standing, class, records, withdrawn) ==
    /\ v.entries = DOMAIN who
    /\ v.class = class
    /\ v.assertions = records
    /\ v.supersedes = Edges(class, On(standing, "supersession"))
    /\ v.contradicts = {{e[1], e[2]} : e \in Edges(class, On(standing, "contradiction"))}
    /\ v.withdrawn = withdrawn
    /\ v.malformed = Malformed(DOMAIN who)
    /\ {c \in v.conflicts : c.kind # "succession"} =
          TruthConflicts(class, records) \cup LoopConflicts(class, On(standing, "supersession"))
             \cup ContradictionConflicts(class, On(standing, "contradiction"), who)

\* Each kind of conflict calls itself what it is.
LEMMA ConflictKinds ==
    ASSUME NEW class, NEW R, NEW who
    PROVE  /\ \A c \in TruthConflicts(class, R) : c.kind = "truth"
           /\ \A c \in LoopConflicts(class, R) : c.kind = "loop"
           /\ \A c \in ContradictionConflicts(class, R, who) : c.kind = "contradiction"
<1>1. \A c \in TruthConflicts(class, R) : c.kind = "truth"
  <2> DEFINE last(c) == {r \in Latest(R) : r.class = c}
             side(c, stance) == {r.author : r \in {q \in last(c) : q.stance = stance}}
             record(c) == [kind |-> "truth", molecules |-> MembersOf(class, {c}),
                           isTrue |-> side(c, "assertion"), isUntrue |-> side(c, "retraction"),
                           meta |-> {r.meta : r \in last(c)},
                           declarers |-> {r.author : r \in {q \in R : q.class = c}}]
  <2>1. TruthConflicts(class, R) = {record(c) : c \in {x \in Range(class) : TruthState(R, x) = "conflicted"}}
    BY DEF TruthConflicts
  <2> HIDE DEF last, side
  <2>2. \A c : record(c).kind = "truth"
    OBVIOUS
  <2> HIDE DEF record
  <2> QED
    BY <2>1, <2>2
<1>2. \A c \in LoopConflicts(class, R) : c.kind = "loop"
  <2> DEFINE within(C) == {cl \in BothIn(DOMAIN class, R) : {class[cl.a], class[cl.b]} \subseteq C}
             edges == Edges(class, R)
             record(C) == [kind |-> "loop", molecules |-> MembersOf(class, C),
                           meta |-> Declared(within(C)).meta,
                           declarers |-> Declared(within(C)).declarers]
  <2>1. LoopConflicts(class, R) = {record(C) : C \in cycles(DOMAIN Replaces(edges), Replaces(edges))}
    BY DEF LoopConflicts
  <2> HIDE DEF within, edges
  <2>2. \A C : record(C).kind = "loop"
    OBVIOUS
  <2> HIDE DEF record
  <2> QED
    BY <2>1, <2>2
<1>3. \A c \in ContradictionConflicts(class, R, who) : c.kind = "contradiction"
  <2> DEFINE pairs == {{e[1], e[2]} : e \in Edges(class, R)}
             on(P) == {cl \in BothIn(DOMAIN class, R) : {class[cl.a], class[cl.b]} = P}
             record(P) == [kind |-> "contradiction", molecules |-> MembersOf(class, P),
                           sides |-> {Side(MembersOf(class, {c}), who) : c \in P},
                           meta |-> Declared(on(P)).meta, declarers |-> Declared(on(P)).declarers]
  <2>1. ContradictionConflicts(class, R, who) = {record(P) : P \in pairs}
    BY DEF ContradictionConflicts
  <2> HIDE DEF on, pairs
  <2>2. \A P : record(P).kind = "contradiction"
    OBVIOUS
  <2> HIDE DEF record
  <2> QED
    BY <2>1, <2>2
<1> QED
  BY <1>1, <1>2, <1>3

\* What Build makes of claims that stand.
LEMMA ViewReadsClaims ==
    ASSUME NEW g, NEW S, IsRight(OrderOf(g, S)),
           NEW standing, standing = Standing(ClaimsOf(g, S), OrderOf(g, S)),
           NEW class, class = ClassOf(InView(g, S), On(standing, "equivalence"))
    PROVE  ReadsAs(Build(g, S), Who(g, InView(g, S), S), standing, class,
                 TruthRecords(class, ClaimsOf(g, S), OrderOf(g, S)),
                 Withdrawn(ClaimsOf(g, S), OrderOf(g, S)))
<1> DEFINE E == InView(g, S)
           o == OrderOf(g, S)
           C == ClaimsOf(g, S)
           records == TruthRecords(class, C, o)
           over == On(standing, "supersession")
           against == On(standing, "contradiction")
           R == Readings(S, g, o, C, standing, class)
           told == TruthConflicts(class, records) \cup LoopConflicts(class, over)
                        \cup ContradictionConflicts(class, against, Who(g, E, S))
<1>1. Build(g, S) = R
  BY DEF Build, Close, ClaimsOf
<1>2. DOMAIN class = E
  BY DEF ClassOf
<1>3. o.conflicts \subseteq {reportAmbiguity(B) : B \in SUBSET blocks}
  BY OrderParts DEF IsRight
<1>4. \A c \in o.conflicts : c.kind = "succession"
  BY <1>3 DEF reportAmbiguity
<1> HIDE DEF C, o, E, records, over, against
<1>5. \A c \in told : c.kind # "succession"
  <2>1. /\ \A c \in TruthConflicts(class, records) : c.kind = "truth"
        /\ \A c \in LoopConflicts(class, over) : c.kind = "loop"
    BY ConflictKinds
  <2>2. \A c \in ContradictionConflicts(class, against, Who(g, E, S)) : c.kind = "contradiction"
    BY ConflictKinds
  <2> QED
    BY <2>1, <2>2
<1>6. /\ R.entries = DOMAIN class /\ R.class = class
      /\ R.assertions = records /\ R.supersedes = Edges(class, over)
      /\ R.contradicts = {{e[1], e[2]} : e \in Edges(class, against)}
      /\ R.withdrawn = Withdrawn(C, o) /\ R.malformed = Malformed(DOMAIN class)
      /\ R.conflicts = told \cup o.conflicts
  BY <1>2 DEF Readings, records, over, against
<1> HIDE DEF R, told
<1>7. {c \in R.conflicts : c.kind # "succession"} = told
  BY <1>4, <1>5, <1>6
<1>8. ReadsAs(R, Who(g, E, S), standing, class, records, Withdrawn(C, o))
  <2>1. DOMAIN Who(g, E, S) = E
    BY DEF Who
  <2> QED
    BY <1>2, <1>6, <1>7, <2>1 DEF ReadsAs, told, over, against
<1> QED
  BY <1>1, <1>8 DEF C, o, E, records
-----------------------------------------------------------------------------
\* In every state and for every subscription, ingesting a block of somebody
\* not subscribed to leaves every reading of the view as it is
\* (view.go, Build; meta.go, read).
THEOREM OthersNeverChangeAnything == Spec => OthersChangeNothing
<1> DEFINE Kept ==
        \A d \in DOMAIN payloads' \ DOMAIN payloads :
          content[d].pub \notin subscribed =>
              \A v \in Views, w \in {Build(entities', subscribed)} :
              LET told(x) == {c \in x.conflicts : c.kind # "succession"}
              IN  /\ w.entries = v.entries /\ w.class = v.class
                  /\ w.assertions = v.assertions
                  /\ w.supersedes = v.supersedes /\ w.contradicts = v.contradicts
                  /\ w.withdrawn = v.withdrawn /\ w.malformed = v.malformed
                  /\ told(w) = told(v)
<1>1. ASSUME AcceptInv, [Next]_vars PROVE [Kept]_vars
  <2> DEFINE g == entities
             h == entities'
             S == subscribed
             v == Build(g, S)
             w == Build(h, S)
             told(x) == {c \in x.conflicts : c.kind # "succession"}
  <2> SUFFICES ASSUME NEW d \in DOMAIN payloads' \ DOMAIN payloads,
                      content[d].pub \notin subscribed
               PROVE  /\ w.entries = v.entries /\ w.class = v.class
                      /\ w.assertions = v.assertions
                      /\ w.supersedes = v.supersedes /\ w.contradicts = v.contradicts
                      /\ w.withdrawn = v.withdrawn /\ w.malformed = v.malformed
                      /\ told(w) = told(v)
    BY DEF Views
  <2> DEFINE a == content[d].pub
  <2>1. StoreWhole /\ TagsHeld(g) /\ TagsHeld(h) /\ GrownBy(g, h, a) /\ a \notin S
    BY <1>1, OneBlockMore
  <2> HIDE DEF g, h, S, a
  <2>2. /\ InView(h, S) = InView(g, S) /\ ClaimsOf(h, S) = ClaimsOf(g, S)
        /\ Who(h, InView(h, S), S) = Who(g, InView(g, S), S)
    BY <2>1, SameClaims
  <2>3. \A cl \in ClaimsOf(g, S) : \A t \in cl.prov :
           OrderOf(h, S).pos[t.block] = OrderOf(g, S).pos[t.block]
    BY <2>1, SamePlaces
  <2>4. /\ Standing(ClaimsOf(g, S), OrderOf(h, S)) = Standing(ClaimsOf(g, S), OrderOf(g, S))
        /\ Withdrawn(ClaimsOf(g, S), OrderOf(h, S)) = Withdrawn(ClaimsOf(g, S), OrderOf(g, S))
        /\ \A class : TruthRecords(class, ClaimsOf(g, S), OrderOf(h, S))
                         = TruthRecords(class, ClaimsOf(g, S), OrderOf(g, S))
    BY <2>3, PlacesDecide
  <2>5. IsRight(OrderOf(g, S)) /\ IsRight(OrderOf(h, S))
    BY <2>1, TagsArePlaced
  <2> DEFINE standing == Standing(ClaimsOf(g, S), OrderOf(g, S))
             class == ClassOf(InView(g, S), On(standing, "equivalence"))
             records == TruthRecords(class, ClaimsOf(g, S), OrderOf(g, S))
             withdrawn == Withdrawn(ClaimsOf(g, S), OrderOf(g, S))
  <2>6. ReadsAs(v, Who(g, InView(g, S), S), standing, class, records, withdrawn)
    BY <2>5, ViewReadsClaims
  <2>7. ReadsAs(w, Who(g, InView(g, S), S), standing, class, records, withdrawn)
    <3> DEFINE again == TruthRecords(class, ClaimsOf(h, S), OrderOf(h, S))
    <3>1. /\ standing = Standing(ClaimsOf(h, S), OrderOf(h, S))
          /\ records = again
          /\ withdrawn = Withdrawn(ClaimsOf(h, S), OrderOf(h, S))
      BY <2>2, <2>4
    <3>2. class = ClassOf(InView(h, S), On(standing, "equivalence"))
      BY <2>2
    <3> HIDE DEF standing, class, records, withdrawn
    <3>3. ReadsAs(w, Who(h, InView(h, S), S), standing, class, again, Withdrawn(ClaimsOf(h, S), OrderOf(h, S)))
      BY <2>5, <3>1, <3>2, ViewReadsClaims
    <3> QED
      BY <2>2, <3>1, <3>3
  <2> HIDE DEF v, w, standing, class, records, withdrawn
  <2> QED
    BY <2>6, <2>7 DEF ReadsAs
<1>2. OthersChangeNothing <=> [][Kept]_vars
  BY DEF OthersChangeNothing
<1> QED
  BY <1>1, <1>2, AcceptInvariant, PTL DEF Spec
-----------------------------------------------------------------------------
\* A record of a class stands for a word on it.
StandsFor(r, w, c) ==
    /\ r.class = c /\ r.block = w.block /\ r.meta = w.said
    /\ r.author = content[w.block].pub
    /\ r.stance = molecule[w.said].bond
    /\ r.lineage = Origin(Histories, w.block)
    /\ r.index = Cardinality(Histories[w.block]) - 1

\* What a subscribed author's truth claim is, in the graph and in a view.
LEMMA WordParts ==
    ASSUME NEW M, NEW w
    PROVE  w \in Words(M) <=>
              /\ w = [block |-> w.block, said |-> w.said]
              /\ w.block \in DOMAIN payloads
              /\ w.said \in DOMAIN molecule
              /\ molecule[w.said].bond \in {"assertion", "retraction"}
              /\ FitsTemplate(w.said)
              /\ molecule[w.said].fillers[1].ref \in M
              /\ content[w.block].pub \in subscribed
              /\ w.said \in creations(IngestedOps(w.block))
  BY DEF Words

\* A block of a view, placed where its history says.
LEMMA WhereItStands ==
    ASSUME AcceptInv, NEW e \in InView(entities, subscribed),
           NEW t \in subscribedProvenance(entities, e, subscribed)
    PROVE  LET p == OrderOf(entities, subscribed).pos[t.block]
           IN  /\ p.lineage = Origin(Histories, t.block)
               /\ p.index = Cardinality(Histories[t.block]) - 1
               /\ Cardinality(Histories[t.block]) \in Nat
<1>1. StoreWhole
  BY DEF AcceptInv
<1>2. TagsHeld(entities)
  BY DEF AcceptInv, GraphInv, GraphIsItsBlocks, TagsHeld, TagOf
<1>3. OrderOf(entities, subscribed).pos[t.block] = Right(t.block)
  BY <1>1, <1>2, TagsArePlaced
<1>4. t.block \in blocks
  BY <1>2 DEF TagsHeld, InView, subscribedProvenance
<1>5. Right(t.block).lineage = Line(t.block)[1] /\ Right(t.block).index = Len(Line(t.block)) - 1
  BY DEF Right
<1>6. Len(Line(t.block)) \in Nat
  BY <1>1, <1>4, LineOfBlock DEF IsLine, Linked
<1> QED
  BY <1>1, <1>3, <1>4, <1>5, <1>6, LineCounts

\* A view has one record for each word said on a class, and no other.
LEMMA RecordsAreWords ==
    ASSUME AcceptInv, NEW class, DOMAIN class = InView(entities, subscribed), NEW c
    PROVE  LET R == TruthRecords(class, ClaimsOf(entities, subscribed), OrderOf(entities, subscribed))
               W == Words(MembersOf(class, {c}))
           IN  /\ \A w \in W : \E r \in R : StandsFor(r, w, c)
               /\ \A r \in R : r.class = c => \E w \in W : StandsFor(r, w, c)
<1> DEFINE g == entities
           S == subscribed
           o == OrderOf(g, S)
           C == ClaimsOf(g, S)
           R == TruthRecords(class, C, o)
           M == MembersOf(class, {c})
           W == Words(M)
<1>1. \A e \in M : e \in DOMAIN class /\ class[e] = c
  BY DEF MembersOf
<1>2. \A e \in DOMAIN class : class[e] = c => e \in M
  BY DEF MembersOf
<1>3. DOMAIN molecule = {e \in Entity : kind[e] = "molecule"}
  BY MoleculeAssumption
<1>4. /\ DOMAIN g = UNION {creations(IngestedOps(d)) : d \in DOMAIN payloads}
      /\ \A e \in DOMAIN g :
            g[e].authors = {TagOf(d) : d \in {x \in DOMAIN payloads : e \in creations(IngestedOps(x))}}
      /\ DOMAIN g \subseteq Entity
  BY DEF AcceptInv, GraphInv, GraphTypeOK, GraphIsItsBlocks
<1>5. \A d : TagOf(d).author = content[d].pub /\ TagOf(d).block = d
  BY DEF TagOf
<1>6. ASSUME NEW cl, NEW t
      PROVE  LET r == TruthRecord(class, cl, t, o)
             IN  /\ r.class = class[cl.a] /\ r.block = t.block /\ r.meta = cl.meta
                 /\ r.author = t.author /\ r.stance = cl.bond
                 /\ r.lineage = o.pos[t.block].lineage /\ r.index = o.pos[t.block].index
  BY DEF TruthRecord
<1>7. \A e : /\ Claim(g, e, S).meta = e /\ Claim(g, e, S).bond = molecule[e].bond
             /\ Claim(g, e, S).a = molecule[e].fillers[1].ref
             /\ Claim(g, e, S).prov = subscribedProvenance(g, e, S)
  BY DEF Claim
<1> HIDE DEF M, R, C, o
<1>8. ASSUME NEW w \in W PROVE \E r \in R : StandsFor(r, w, c)
  <2> DEFINE e == w.said
             t == TagOf(w.block)
             cl == Claim(g, e, S)
  <2>1. /\ w.block \in DOMAIN payloads /\ e \in DOMAIN molecule
        /\ molecule[e].bond \in {"assertion", "retraction"}
        /\ FitsTemplate(e) /\ molecule[e].fillers[1].ref \in M
        /\ content[w.block].pub \in S /\ e \in creations(IngestedOps(w.block))
    BY WordParts
  <2>2. e \in DOMAIN g /\ t \in g[e].authors
    BY <1>4, <2>1
  <2>3. t \in subscribedProvenance(g, e, S) /\ e \in InView(g, S)
    BY <1>5, <2>1, <2>2 DEF subscribedProvenance, InView
  <2>4. e \in MetaIn(InView(g, S))
    BY <1>3, <2>1, <2>3 DEF MetaIn
  <2> HIDE DEF g, S, e, t
  <2>5. cl \in C
    BY <2>1, <2>4 DEF C, ClaimsOf, read
  <2>6. /\ cl.meta = e /\ cl.bond = molecule[e].bond /\ cl.a = molecule[e].fillers[1].ref
        /\ t \in cl.prov
    BY <1>7, <2>3
  <2> HIDE DEF cl
  <2>7. cl \in Truths(C)
    BY <2>1, <2>5, <2>6 DEF Truths, On
  <2>8. cl.a \in DOMAIN class /\ class[cl.a] = c
    BY <1>1, <2>1, <2>6
  <2> DEFINE r == TruthRecord(class, cl, t, o)
  <2>9. r \in R
    BY <2>6, <2>7, <2>8, TruthRecordsAre DEF R
  <2>10. /\ r.class = c /\ r.block = t.block /\ r.meta = e
         /\ r.author = t.author /\ r.stance = molecule[e].bond
         /\ r.lineage = o.pos[t.block].lineage /\ r.index = o.pos[t.block].index
    BY <1>6, <2>6, <2>8
  <2>11. /\ o.pos[t.block].lineage = Origin(Histories, t.block)
         /\ o.pos[t.block].index = Cardinality(Histories[t.block]) - 1
    BY <2>3, WhereItStands DEF o, g, S
  <2>12. t.block = w.block /\ t.author = content[w.block].pub
    BY <1>5 DEF t
  <2> HIDE DEF r
  <2>13. StandsFor(r, w, c)
    BY <2>10, <2>11, <2>12 DEF StandsFor, e
  <2> QED
    BY <2>9, <2>13
<1>9. ASSUME NEW r \in R, r.class = c PROVE \E w \in W : StandsFor(r, w, c)
  <2>1. PICK cl \in Truths(C) : \E t \in cl.prov :
                 cl.a \in DOMAIN class /\ r = TruthRecord(class, cl, t, o)
    BY TruthRecordsAre DEF R
  <2>2. PICK t \in cl.prov : cl.a \in DOMAIN class /\ r = TruthRecord(class, cl, t, o)
    BY <2>1
  <2> DEFINE e == cl.meta
             w == [block |-> t.block, said |-> e]
  <2>3. cl \in C /\ cl.bond \in {"assertion", "retraction"}
    BY DEF Truths, On
  <2>4. /\ e \in InView(g, S) /\ e \in MetaIn(InView(g, S)) /\ FitsTemplate(e)
        /\ cl = Claim(g, e, S) /\ cl.prov = subscribedProvenance(g, e, S)
    BY <2>3, ClaimParts DEF C
  <2>5. /\ cl.bond = molecule[e].bond /\ cl.a = molecule[e].fillers[1].ref
    BY <1>7, <2>4
  <2>6. t \in g[e].authors /\ t.author \in S /\ e \in DOMAIN g
    BY <2>2, <2>4 DEF subscribedProvenance, InView
  <2>7. PICK d \in DOMAIN payloads : t = TagOf(d) /\ e \in creations(IngestedOps(d))
    BY <1>4, <2>6
  <2>8. e \in DOMAIN molecule
    BY <1>3, <1>4, <2>4, <2>6 DEF MetaIn
  <2>9. /\ r.class = class[cl.a] /\ r.block = t.block /\ r.meta = e
        /\ r.author = t.author /\ r.stance = cl.bond
        /\ r.lineage = o.pos[t.block].lineage /\ r.index = o.pos[t.block].index
    BY <1>6, <2>2
  <2>10. cl.a \in M
    BY <1>2, <1>9, <2>2, <2>9
  <2>11. t.block = d /\ t.author = content[d].pub
    BY <1>5, <2>7
  <2>12. /\ o.pos[t.block].lineage = Origin(Histories, t.block)
         /\ o.pos[t.block].index = Cardinality(Histories[t.block]) - 1
    BY <2>2, <2>4, WhereItStands DEF o
  <2>13. w.block = t.block /\ w.said = e
    OBVIOUS
  <2> HIDE DEF e
  <2>14. w \in W
    <3>1. w = [block |-> w.block, said |-> w.said]
      OBVIOUS
    <3> HIDE DEF w
    <3> QED
      BY <2>3, <2>4, <2>5, <2>6, <2>7, <2>8, <2>10, <2>11, <2>13, <3>1, WordParts
  <2> HIDE DEF w
  <2>15. StandsFor(r, w, c)
    BY <1>9, <2>5, <2>9, <2>11, <2>12, <2>13 DEF StandsFor
  <2> QED
    BY <2>14, <2>15
<1> QED
  BY <1>8, <1>9 DEF W, M, R, C, o

\* A record is the last of its lineage exactly when the word is.
LEMMA LastWords ==
    ASSUME NEW R, NEW W, NEW c,
           \A w \in W : \E r \in R : StandsFor(r, w, c),
           \A r \in R : r.class = c => \E w \in W : StandsFor(r, w, c),
           \A w \in W : Cardinality(Histories[w.block]) \in Nat,
           NEW r \in R, NEW w \in W, StandsFor(r, w, c)
    PROVE  r \in Latest(R) <=> IsLast(Histories, w, W)
<1> DEFINE N(x) == Cardinality(Histories[x.block])
           O(x) == Origin(Histories, x.block)
<1>1. \A x \in W : N(x) \in Nat
  OBVIOUS
<1>2. r \in Latest(R) <=> \A q \in R : q.class = r.class /\ q.lineage = r.lineage => q.index <= r.index
  BY DEF Latest
<1>3. IsLast(Histories, w, W) <=> \A u \in W : O(u) = O(w) => N(u) <= N(w)
  BY DEF IsLast
<1>4. \A q, u : StandsFor(q, u, c) => q.class = c /\ q.lineage = O(u) /\ q.index = N(u) - 1
  BY DEF StandsFor
<1> HIDE DEF N, O
<1>5. ASSUME r \in Latest(R), NEW u \in W, O(u) = O(w) PROVE N(u) <= N(w)
  <2>1. PICK q \in R : StandsFor(q, u, c)
    OBVIOUS
  <2>2. q.index <= r.index
    BY <1>2, <1>4, <1>5, <2>1
  <2>3. q.index = N(u) - 1 /\ r.index = N(w) - 1
    BY <1>4, <2>1
  <2> QED
    BY <1>1, <2>2, <2>3
<1>6. ASSUME IsLast(Histories, w, W), NEW q \in R, q.class = r.class, q.lineage = r.lineage
      PROVE  q.index <= r.index
  <2>1. PICK u \in W : StandsFor(q, u, c)
    BY <1>4, <1>6
  <2>2. N(u) <= N(w)
    BY <1>3, <1>4, <1>6, <2>1
  <2>3. q.index = N(u) - 1 /\ r.index = N(w) - 1
    BY <1>4, <2>1
  <2> QED
    BY <1>1, <2>2, <2>3
<1> QED
  BY <1>2, <1>3, <1>5, <1>6

\* In every state and for every subscription, a molecule is conflicted exactly
\* when last words on its class oppose, and then a conflict names who said
\* either (view.go, markLatest, applyClass).
THEOREM DisagreementsAreAlwaysSurfaced == Spec => []DisagreementsAreSurfaced
<1>1. AcceptInv => DisagreementsAreSurfaced
  <2> SUFFICES ASSUME AcceptInv, NEW v \in Views, NEW m \in {e \in v.entries : kind[e] = "molecule"}
               PROVE  LET W == Words(EquivalenceClass(v, m))
                          last == {w \in W : IsLast(Histories, w, W)}
                          who(bond) == {content[w.block].pub : w \in {u \in last : molecule[u.said].bond = bond}}
                          opposed == who("assertion") # {} /\ who("retraction") # {}
                      IN  /\ Truth(v, m) = "conflicted" <=> opposed
                          /\ opposed => \E c \in v.conflicts :
                                            /\ c.kind = "truth"
                                            /\ m \in c.molecules
                                            /\ c.isTrue = who("assertion")
                                            /\ c.isUntrue = who("retraction")
    BY Zenon DEF DisagreementsAreSurfaced
  <2> DEFINE g == entities
             S == subscribed
  <2>0. v = Build(g, S)
    BY DEF Views
  <2> DEFINE o == OrderOf(g, S)
             C == ClaimsOf(g, S)
             standing == Standing(C, o)
             class == ClassOf(InView(g, S), On(standing, "equivalence"))
             R == TruthRecords(class, C, o)
             c == class[m]
             W == Words(EquivalenceClass(v, m))
             last == {w \in W : IsLast(Histories, w, W)}
             who(bond) == {content[w.block].pub : w \in {u \in last : molecule[u.said].bond = bond}}
             latest == {r \in Latest(R) : r.class = c}
             side(stance) == {r.author : r \in {q \in latest : q.stance = stance}}
  <2>1. IsRight(o)
    BY OrderOfIsRight
  <2>2. ReadsAs(v, Who(g, InView(g, S), S), standing, class, R, Withdrawn(C, o))
    <3> HIDE DEF g, S
    <3> QED
      BY <2>0, <2>1, ViewReadsClaims
  <2>3. DOMAIN class = InView(g, S)
    BY DEF ClassOf
  <2> HIDE DEF standing, class
  <2>4. v.entries = InView(g, S) /\ v.class = class /\ v.assertions = R
        /\ TruthConflicts(class, R) \subseteq v.conflicts
    BY <2>2 DEF ReadsAs, Who
  <2>5. EquivalenceClass(v, m) = MembersOf(class, {c}) /\ Truth(v, m) = TruthState(R, c)
    BY <2>4 DEF EquivalenceClass, Truth
  <2>6. /\ \A w \in W : \E r \in R : StandsFor(r, w, c)
        /\ \A r \in R : r.class = c => \E w \in W : StandsFor(r, w, c)
    <3> HIDE DEF c
    <3> QED
      BY <2>3, <2>5, RecordsAreWords
  <2>7. \A w \in W : Cardinality(Histories[w.block]) \in Nat
    <3>1. \A w \in W : w.block \in blocks
      BY WordParts DEF AcceptInv
    <3>2. StoreWhole
      BY DEF AcceptInv
    <3>3. \A d \in blocks : Cardinality(Histories[d]) \in Nat
      BY <3>2, LineCounts, LineOfBlock DEF IsLine, Linked
    <3> QED
      BY <3>1, <3>3
  <2>8. \A w \in W : molecule[w.said].bond \in {"assertion", "retraction"}
    BY WordParts
  <2>9. \A r, w : StandsFor(r, w, c) =>
           r.class = c /\ r.author = content[w.block].pub /\ r.stance = molecule[w.said].bond
    BY DEF StandsFor
  <2> HIDE DEF R, W, c, o, C, g, S
  <2>10. \A r \in R, w \in W : StandsFor(r, w, c) => (r \in Latest(R) <=> IsLast(Histories, w, W))
    BY <2>6, <2>7, LastWords
  <2>11. Latest(R) \subseteq R
    BY DEF Latest
  <2>12. ASSUME NEW bond PROVE side(bond) = who(bond)
    <3>1. ASSUME NEW r \in latest, r.stance = bond PROVE r.author \in who(bond)
      <4>1. PICK w \in W : StandsFor(r, w, c)
        BY <2>6, <2>11
      <4>2. w \in last /\ molecule[w.said].bond = bond /\ r.author = content[w.block].pub
        BY <2>9, <2>10, <2>11, <3>1, <4>1
      <4> QED
        BY <4>2
    <3>2. ASSUME NEW w \in last, molecule[w.said].bond = bond PROVE content[w.block].pub \in side(bond)
      <4>1. PICK r \in R : StandsFor(r, w, c)
        BY <2>6
      <4>2. r \in latest /\ r.stance = bond /\ r.author = content[w.block].pub
        BY <2>9, <2>10, <3>2, <4>1
      <4> QED
        BY <4>2
    <3> HIDE DEF latest, last
    <3> QED
      BY <3>1, <3>2
  <2>13. Stances(R, c) = {r.stance : r \in latest}
    BY DEF Stances
  <2>14. \A r \in latest : r.stance \in {"assertion", "retraction"}
    BY <2>6, <2>8, <2>9, <2>11
  <2>15. TruthState(R, c) = "conflicted" <=> side("assertion") # {} /\ side("retraction") # {}
    <3> HIDE DEF latest
    <3>1. side("assertion") # {} <=> "assertion" \in Stances(R, c)
      BY <2>13
    <3>2. side("retraction") # {} <=> "retraction" \in Stances(R, c)
      BY <2>13
    <3>3. Stances(R, c) \subseteq {"assertion", "retraction"}
      BY <2>13, <2>14
    <3> HIDE DEF side
    <3>4. Stances(R, c) \in {{}, {"assertion"}, {"retraction"}, {"assertion", "retraction"}}
      BY <3>3
    <3> QED
      BY <3>1, <3>2, <3>4 DEF TruthState
  <2>16. ASSUME TruthState(R, c) = "conflicted"
         PROVE  \E x \in v.conflicts :
                   /\ x.kind = "truth" /\ m \in x.molecules
                   /\ x.isTrue = side("assertion") /\ x.isUntrue = side("retraction")
    <3> DEFINE x == [kind |-> "truth", molecules |-> MembersOf(class, {c}),
                     isTrue |-> side("assertion"), isUntrue |-> side("retraction"),
                     meta |-> {r.meta : r \in latest},
                     declarers |-> {r.author : r \in {q \in R : q.class = c}}]
    <3>1. c \in Range(class) /\ m \in DOMAIN class
      BY <2>3, <2>4 DEF c, Range
    <3>2. x \in TruthConflicts(class, R)
      BY <2>16, <3>1 DEF TruthConflicts
    <3>3. m \in MembersOf(class, {c})
      BY <3>1 DEF MembersOf, c
    <3> HIDE DEF side
    <3>4. x.kind = "truth" /\ m \in x.molecules
          /\ x.isTrue = side("assertion") /\ x.isUntrue = side("retraction")
      BY <3>3
    <3> HIDE DEF x
    <3> QED
      BY <2>4, <3>2, <3>4
  <2> HIDE DEF side, who
  <2>17. Truth(v, m) = "conflicted" <=> who("assertion") # {} /\ who("retraction") # {}
    BY <2>5, <2>12, <2>15
  <2>18. who("assertion") # {} /\ who("retraction") # {} =>
            \E x \in v.conflicts :
                   /\ x.kind = "truth" /\ m \in x.molecules
                   /\ x.isTrue = who("assertion") /\ x.isUntrue = who("retraction")
    BY <2>12, <2>15, <2>16
  <2> QED
    BY <2>17, <2>18 DEF who, last, W
<1> QED
  BY <1>1, AcceptInvariant, PTL
-----------------------------------------------------------------------------
\* A parent function leads down in rank, to members that are their own parent.
Forest(p) ==
    /\ p \in [DOMAIN p -> DOMAIN p]
    /\ IsFiniteSet(DOMAIN p)
    /\ DOMAIN p \subseteq Entity
    /\ \A x \in DOMAIN p : p[x] = x \/ entityRank[p[x]] < entityRank[x]

\* From x to parent after parent.
Ways(p, x) ==
    {s \in Seq(DOMAIN p) :
        /\ s # <<>>
        /\ s[1] = x
        /\ \A i \in 1..(Len(s) - 1) : p[s[i]] # s[i] /\ s[i + 1] = p[s[i]]}

\* Such a way visits nobody twice.
LEMMA WayIsShort ==
    ASSUME NEW p, Forest(p), NEW x, NEW s \in Ways(p, x)
    PROVE  /\ s \in [1..Len(s) -> DOMAIN p] /\ Len(s) \in Nat \ {0}
           /\ Len(s) <= Cardinality(DOMAIN p)
           /\ \A i \in 1..Len(s) : entityRank[s[i]] <= entityRank[x]
<1> DEFINE k == Len(s)
           r(i) == entityRank[s[i]]
<1>1. s \in [1..k -> DOMAIN p] /\ k \in Nat \ {0}
  BY EmptySeq DEF Ways
<1>2. \A i \in 1..k : r(i) \in Nat
  BY <1>1, MoleculeAssumption DEF Forest
<1>3. \A i \in 1..(k - 1) : r(i + 1) < r(i)
  <2>1. \A i \in 1..(k - 1) : i \in 1..k /\ p[s[i]] # s[i] /\ s[i + 1] = p[s[i]]
    BY <1>1 DEF Ways
  <2> QED
    BY <1>1, <2>1 DEF Forest
<1>k. k = Len(s) /\ s[1] = x
  BY DEF Ways
<1> HIDE DEF k, r
<1>4. ASSUME NEW i \in 1..k, NEW j \in 1..k, i < j PROVE r(j) < r(i)
  <2> DEFINE R == {n \in Nat : i + 1 + n \in 1..k => r(i + 1 + n) < r(i)}
  <2>1. 0 \in R
    BY <1>1, <1>3
  <2>2. ASSUME NEW n \in R PROVE n + 1 \in R
    <3> SUFFICES ASSUME i + 1 + (n + 1) \in 1..k PROVE r(i + 1 + (n + 1)) < r(i)
      OBVIOUS
    <3> DEFINE m == i + 1 + n
    <3>1. m \in 1..(k - 1) /\ m \in 1..k /\ m + 1 \in 1..k /\ m + 1 = i + 1 + (n + 1)
      BY <1>1
    <3>2. r(m) < r(i)
      BY <2>2, <3>1
    <3> HIDE DEF m
    <3>3. r(m + 1) < r(m)
      BY <1>3, <3>1
    <3>4. r(m + 1) \in Nat /\ r(m) \in Nat /\ r(i) \in Nat
      BY <1>2, <3>1
    <3>5. r(m + 1) < r(i)
      BY <3>2, <3>3, <3>4
    <3> QED
      BY <3>1, <3>5
  <2> HIDE DEF R
  <2>3. R = Nat
    <3>1. R \in SUBSET Nat
      BY DEF R
    <3> QED
      BY <2>1, <2>2, <3>1, Induction
  <2>4. j - i - 1 \in R /\ i + 1 + (j - i - 1) = j
    BY <1>1, <1>4, <2>3
  <2> QED
    BY <2>4 DEF R
<1>5. \A i, j \in 1..k : s[i] = s[j] => i = j
  <2> SUFFICES ASSUME NEW i \in 1..k, NEW j \in 1..k, s[i] = s[j], i < j PROVE FALSE
    BY <1>1
  <2>1. r(j) < r(i) /\ r(i) = r(j) /\ r(i) \in Nat
    BY <1>2, <1>4 DEF r
  <2> QED
    BY <2>1
<1>6. Cardinality(1..k) <= Cardinality(DOMAIN p) /\ Cardinality(1..k) = k
  <2>1. s \in Injection(1..k, DOMAIN p)
    BY <1>1, <1>5 DEF Injection, IsInjective
  <2>2. IsFiniteSet(DOMAIN p)
    BY DEF Forest
  <2> QED
    BY <1>1, <2>1, <2>2, FS_Injection, CountTo
<1>7. \A i \in 1..k : r(i) <= r(1)
  <2> SUFFICES ASSUME NEW i \in 1..k PROVE r(i) <= r(1)
    OBVIOUS
  <2>1. 1 \in 1..k /\ (i = 1 \/ 1 < i)
    BY <1>1
  <2>2. r(i) \in Nat /\ r(1) \in Nat
    BY <1>2, <2>1
  <2> QED
    BY <1>4, <2>1, <2>2
<1> QED
  BY <1>1, <1>6, <1>7, <1>k DEF r

\* A way that has not come to a root goes on.
LEMMA WayUp ==
    ASSUME NEW p, Forest(p), NEW x, NEW s \in Ways(p, x), p[s[Len(s)]] # s[Len(s)]
    PROVE  LET t == Append(s, p[s[Len(s)]]) IN t \in Ways(p, x) /\ Len(t) = Len(s) + 1
<1> DEFINE k == Len(s)
           y == p[s[k]]
           t == Append(s, y)
<1>1. s \in Seq(DOMAIN p) /\ k \in Nat \ {0} /\ s[1] = x /\ s[k] \in DOMAIN p
      /\ \A i \in 1..(k - 1) : p[s[i]] # s[i] /\ s[i + 1] = p[s[i]]
  BY WayIsShort DEF Ways
<1>2. y \in DOMAIN p
  BY <1>1 DEF Forest
<1>3. t \in Seq(DOMAIN p) /\ Len(t) = k + 1 /\ t[k + 1] = y /\ \A i \in 1..k : t[i] = s[i]
  BY <1>1, <1>2, AppendProperties
<1>y. y = p[s[k]] /\ y # s[k]
  OBVIOUS
<1> HIDE DEF t, y, k
<1>4. ASSUME NEW i \in 1..k PROVE p[t[i]] # t[i] /\ t[i + 1] = p[t[i]]
  <2>1. CASE i = k
    BY <1>1, <1>3, <1>y, <2>1
  <2>2. CASE i # k
    <3>1. i \in 1..(k - 1) /\ i + 1 \in 1..k
      BY <1>1, <2>2
    <3>2. t[i] = s[i] /\ t[i + 1] = s[i + 1]
      BY <1>3, <3>1
    <3> QED
      BY <1>1, <3>1, <3>2
  <2> QED
    BY <2>1, <2>2
<1>5. (k + 1) - 1 = k /\ 1 \in 1..k
  BY <1>1
<1>6. t[1] = x /\ t # <<>>
  BY <1>1, <1>3, <1>5
<1>7. t \in Ways(p, x)
  BY <1>3, <1>4, <1>5, <1>6 DEF Ways
<1> QED
  BY <1>3, <1>7 DEF t, y, k

\* The path of find comes to a root.
LEMMA PathComesToRoot ==
    ASSUME NEW p, Forest(p), NEW x \in DOMAIN p
    PROVE  LET s == PathToRoot(p, x) IN s \in Ways(p, x) /\ p[s[Len(s)]] = s[Len(s)]
<1> DEFINE T == Ways(p, x)
           first == <<x>>
           Ends(s) == p[s[Len(s)]] = s[Len(s)]
           Onward(s) == IF Ends(s) THEN s ELSE Append(s, p[s[Len(s)]])
           Shape(f) == [n \in Nat |-> IF n = 0 THEN first ELSE Onward(f[n - 1])]
           Up == CHOOSE f : f = Shape(f)
           step == [s \in T |-> Onward(s)]
<1>1. first \in T /\ Len(first) = 1
  BY DEF Ways
<1>2. ASSUME NEW s \in T
      PROVE  /\ Onward(s) \in T
             /\ Len(s) \in Nat
             /\ ~Ends(s) => Len(Onward(s)) = Len(s) + 1
             /\ Ends(s) => Onward(s) = s
  <2>1. Len(s) \in Nat
    BY DEF Ways
  <2>2. CASE Ends(s)
    BY <2>1, <2>2
  <2>3. CASE ~Ends(s)
    BY <2>1, <2>3, WayUp
  <2> QED
    BY <2>2, <2>3
<1>3. step \in [T -> T]
  BY <1>2
<1>7. PathToRoot(p, x) = Up[Cardinality(DOMAIN p)]
  BY DEF PathToRoot
<1>t. T = Ways(p, x)
  OBVIOUS
<1>x. \A s : Ends(s) <=> p[s[Len(s)]] = s[Len(s)]
  OBVIOUS
<1> HIDE DEF step, first, T, Ends
<1>g. \E f \in [Nat -> T] : f[0] = first /\ \A n \in Nat : f[n + 1] = step[f[n]]
  BY SMTT(30), <1>1, <1>3, RecursionExists
<1>4. PICK f \in [Nat -> T] : f[0] = first /\ \A n \in Nat : f[n + 1] = step[f[n]]
  BY <1>g
<1>s. \A s \in T : step[s] = Onward(s)
  BY DEF step
<1> HIDE DEF step
<1>5. f = Shape(f)
  <2>1. f = [n \in Nat |-> f[n]]
    OBVIOUS
  <2>2. ASSUME NEW n \in Nat PROVE f[n] = IF n = 0 THEN first ELSE Onward(f[n - 1])
    <3>1. CASE n = 0
      BY <1>4, <3>1
    <3>2. CASE n # 0
      <4>1. n - 1 \in Nat /\ (n - 1) + 1 = n
        BY <3>2
      <4>2. f[(n - 1) + 1] = step[f[n - 1]] /\ f[n - 1] \in T
        BY <1>4, <4>1
      <4> HIDE DEF Onward
      <4> QED
        BY <1>s, <3>2, <4>1, <4>2
    <3> QED
      BY <3>1, <3>2
  <2> HIDE DEF Onward
  <2>3. Shape(f) = [n \in Nat |-> f[n]]
    BY <2>2
  <2> QED
    BY <2>1, <2>3
<1>6. Up = Shape(Up)
  <2>1. \E g : g = Shape(g)
    BY <1>5
  <2> HIDE DEF Shape
  <2> QED
    BY <2>1
<1> HIDE DEF Up, Onward
<1>8. \A n \in Nat : Up[n] = IF n = 0 THEN first ELSE Onward(Up[n - 1])
  BY <1>6
<1> DEFINE Far(n) == Up[n] \in T /\ (Ends(Up[n]) \/ Len(Up[n]) = n + 1)
           R == {n \in Nat : Far(n)}
<1>9. R = Nat
  <2>1. 0 \in R
    BY <1>1, <1>8
  <2>2. ASSUME NEW n \in R PROVE n + 1 \in R
    <3>1. n \in Nat /\ n + 1 \in Nat /\ n + 1 # 0 /\ (n + 1) - 1 = n
      BY <2>2
    <3>2. Up[n + 1] = Onward(Up[n]) /\ Up[n] \in T
      BY <1>8, <2>2, <3>1
    <3>3. CASE Ends(Up[n])
      BY <1>2, <3>1, <3>2, <3>3
    <3>4. CASE ~Ends(Up[n])
      BY <1>2, <2>2, <3>1, <3>2, <3>4
    <3> QED
      BY <3>3, <3>4
  <2> HIDE DEF R
  <2> QED
    BY <2>1, <2>2, Induction DEF R
<1> DEFINE c == Cardinality(DOMAIN p)
<1>10. c \in Nat
  BY FS_CardinalityType DEF Forest
<1>11. Far(c)
  <2> HIDE DEF Far, c
  <2> QED
    BY <1>9, <1>10
<1>12. Up[c] \in T /\ Ends(Up[c])
  <2>1. Up[c] \in T
    BY <1>11
  <2>2. Len(Up[c]) <= c /\ Len(Up[c]) \in Nat
    BY <1>t, <2>1, WayIsShort
  <2>3. Len(Up[c]) # c + 1
    <3> HIDE DEF c
    <3> QED
      BY <1>10, <2>2 DEF c
  <2> QED
    BY <1>11, <2>1, <2>3
<1> QED
  BY <1>7, <1>12, <1>t, <1>x

\* What a parent shares with its children is the same all the way.
LEMMA WayShares ==
    ASSUME NEW p, Forest(p), NEW x, NEW s \in Ways(p, x),
           NEW f, \A y \in DOMAIN p : p[y] # y => f[p[y]] = f[y]
    PROVE  \A i \in 1..Len(s) : f[s[i]] = f[x]
<1> DEFINE k == Len(s)
           R == {n \in Nat : n + 1 \in 1..k => f[s[n + 1]] = f[x]}
<1>1. k \in Nat \ {0} /\ s[1] = x /\ s \in [1..k -> DOMAIN p]
      /\ \A i \in 1..(k - 1) : p[s[i]] # s[i] /\ s[i + 1] = p[s[i]]
  BY WayIsShort DEF Ways
<1> HIDE DEF k
<1>2. 0 \in R
  BY <1>1
<1>3. ASSUME NEW n \in R PROVE n + 1 \in R
  <2> SUFFICES ASSUME (n + 1) + 1 \in 1..k PROVE f[s[(n + 1) + 1]] = f[x]
    OBVIOUS
  <2> DEFINE m == n + 1
  <2>1. m \in 1..(k - 1) /\ m \in 1..k
    BY <1>1
  <2>2. f[s[m]] = f[x]
    BY <1>3, <2>1
  <2> HIDE DEF m
  <2>3. s[m + 1] = p[s[m]] /\ p[s[m]] # s[m] /\ s[m] \in DOMAIN p
    BY <1>1, <2>1
  <2>4. f[s[m + 1]] = f[x]
    BY <2>2, <2>3
  <2> QED
    BY <2>4 DEF m
<1> HIDE DEF R
<1>4. R = Nat
  <2>1. R \in SUBSET Nat
    BY DEF R
  <2> QED
    BY <1>2, <1>3, <2>1, Induction
<1> SUFFICES ASSUME NEW i \in 1..k PROVE f[s[i]] = f[x]
  BY DEF k
<1>5. i - 1 \in R /\ (i - 1) + 1 = i
  BY <1>1, <1>4
<1> QED
  BY <1>5 DEF R

\* The root is what the children of a root share with it.
LEMMA RootIs ==
    ASSUME NEW p, Forest(p), NEW x \in DOMAIN p,
           NEW f, \A y \in DOMAIN p : f[y] = IF p[y] = y THEN y ELSE f[p[y]]
    PROVE  RootOf(p, x) = f[x]
<1> DEFINE s == PathToRoot(p, x)
           k == Len(s)
<1>1. s \in Ways(p, x) /\ p[s[k]] = s[k] /\ RootOf(p, x) = s[k]
  BY PathComesToRoot DEF RootOf
<1> HIDE DEF s
<1>2. s[k] \in DOMAIN p /\ k \in 1..k
  BY <1>1, WayIsShort
<1>3. f[s[k]] = f[x]
  BY <1>1, <1>2, WayShares
<1> QED
  BY <1>1, <1>2, <1>3

\* An entity's root is its parent's.
LEMMA RootOfParent ==
    ASSUME NEW p, Forest(p), NEW x \in DOMAIN p
    PROVE  RootOf(p, p[x]) = RootOf(p, x)
<1> SUFFICES ASSUME p[x] # x PROVE RootOf(p, p[x]) = RootOf(p, x)
  OBVIOUS
<1> DEFINE s == PathToRoot(p, x)
           t == PathToRoot(p, p[x])
           k == Len(s)
           n == Len(t)
<1>1. p[x] \in DOMAIN p
  BY DEF Forest
<1>2. s \in Ways(p, x) /\ p[s[k]] = s[k] /\ RootOf(p, x) = s[k]
  BY PathComesToRoot DEF RootOf
<1>3. t \in Ways(p, p[x]) /\ p[t[n]] = t[n] /\ RootOf(p, p[x]) = t[n]
  BY <1>1, PathComesToRoot DEF RootOf
<1> HIDE DEF s, t
<1>4. k \in Nat \ {0} /\ s[1] = x /\ \A i \in 1..(k - 1) : p[s[i]] # s[i] /\ s[i + 1] = p[s[i]]
  BY <1>2, WayIsShort DEF Ways
<1>5. n \in Nat \ {0} /\ t[1] = p[x] /\ \A i \in 1..(n - 1) : p[t[i]] # t[i] /\ t[i + 1] = p[t[i]]
  BY <1>3, WayIsShort DEF Ways
<1> HIDE DEF k, n
<1>6. k # 1
  BY <1>2, <1>4
<1> DEFINE R == {i \in Nat : i + 1 <= n /\ i + 2 <= k => s[i + 2] = t[i + 1]}
<1>7. 0 \in R
  <2>1. 1 \in 1..(k - 1)
    BY <1>4, <1>6
  <2>2. s[1 + 1] = p[s[1]]
    BY <1>4, <2>1
  <2> QED
    BY <1>4, <1>5, <2>2
<1>8. ASSUME NEW i \in R PROVE i + 1 \in R
  <2> SUFFICES ASSUME (i + 1) + 1 <= n, (i + 1) + 2 <= k PROVE s[(i + 1) + 2] = t[(i + 1) + 1]
    OBVIOUS
  <2>1. i + 1 \in 1..(n - 1) /\ i + 2 \in 1..(k - 1) /\ i + 1 <= n /\ i + 2 <= k
        /\ (i + 1) + 2 = (i + 2) + 1
    BY <1>4, <1>5
  <2>2. s[i + 2] = t[i + 1]
    BY <1>8, <2>1
  <2>3. s[(i + 2) + 1] = p[s[i + 2]] /\ t[(i + 1) + 1] = p[t[i + 1]]
    BY <1>4, <1>5, <2>1
  <2> QED
    BY <2>1, <2>2, <2>3
<1> HIDE DEF R
<1>9. R = Nat
  <2>1. R \in SUBSET Nat
    BY DEF R
  <2> QED
    BY <1>7, <1>8, <2>1, Induction
<1>10. \A j \in 1..n : j + 1 <= k => s[j + 1] = t[j]
  <2> SUFFICES ASSUME NEW j \in 1..n, j + 1 <= k PROVE s[j + 1] = t[j]
    OBVIOUS
  <2>1. j - 1 \in R /\ (j - 1) + 1 <= n /\ (j - 1) + 2 <= k /\ (j - 1) + 2 = j + 1 /\ (j - 1) + 1 = j
    BY <1>5, <1>9
  <2>2. s[(j - 1) + 2] = t[(j - 1) + 1]
    BY <2>1 DEF R
  <2> QED
    BY <2>1, <2>2
<1>11. ~(n + 1 < k)
  <2> SUFFICES ASSUME n + 1 < k PROVE FALSE
    OBVIOUS
  <2>1. n \in 1..n /\ n + 1 <= k /\ n + 1 \in 1..(k - 1)
    BY <1>4, <1>5
  <2>2. s[n + 1] = t[n] /\ p[s[n + 1]] # s[n + 1]
    BY <1>4, <1>10, <2>1
  <2> QED
    BY <1>3, <2>2
<1>12. ~(k < n + 1)
  <2> SUFFICES ASSUME k < n + 1 PROVE FALSE
    OBVIOUS
  <2>1. k - 1 \in 1..n /\ (k - 1) + 1 = k /\ k - 1 \in 1..(n - 1)
    BY <1>4, <1>5, <1>6
  <2>2. s[k] = t[k - 1] /\ p[t[k - 1]] # t[k - 1]
    <3>1. s[(k - 1) + 1] = t[k - 1]
      BY <1>4, <1>10, <2>1
    <3> QED
      BY <1>5, <2>1, <3>1
  <2> QED
    BY <1>2, <2>2
<1>13. k = n + 1 /\ n \in 1..n /\ n + 1 <= k
  BY <1>4, <1>5, <1>11, <1>12
<1> QED
  BY <1>2, <1>3, <1>10, <1>13

\* A root is its own parent, no higher than those it is the root of, and the
\* root of everyone on the way to it.
LEMMA RootParts ==
    ASSUME NEW p, Forest(p), NEW x \in DOMAIN p
    PROVE  /\ RootOf(p, x) \in DOMAIN p
           /\ p[RootOf(p, x)] = RootOf(p, x)
           /\ RootOf(p, RootOf(p, x)) = RootOf(p, x)
           /\ p[x] = x => RootOf(p, x) = x
           /\ entityRank[RootOf(p, x)] <= entityRank[x]
           /\ LET s == PathToRoot(p, x)
              IN  /\ x \in Range(s) /\ Range(s) \subseteq DOMAIN p
                  /\ s[Len(s)] = RootOf(p, x)
                  /\ \A y \in Range(s) : RootOf(p, y) = RootOf(p, x)
<1> DEFINE s == PathToRoot(p, x)
           k == Len(s)
           f == [y \in DOMAIN p |-> RootOf(p, y)]
<1>1. s \in Ways(p, x) /\ p[s[k]] = s[k] /\ RootOf(p, x) = s[k]
  BY PathComesToRoot DEF RootOf
<1>2. \A y \in DOMAIN p : p[y] \in DOMAIN p
  BY DEF Forest
<1>3. \A y \in DOMAIN p : f[p[y]] = f[y]
  BY <1>2, RootOfParent
<1>f. \A y \in DOMAIN p : f[y] = RootOf(p, y)
  OBVIOUS
<1>s. s = PathToRoot(p, x)
  OBVIOUS
<1> HIDE DEF s, f
<1>4. s \in [1..k -> DOMAIN p] /\ k \in Nat \ {0} /\ s[1] = x
      /\ \A i \in 1..k : entityRank[s[i]] <= entityRank[x]
  BY <1>1, WayIsShort DEF Ways
<1>5. \A i \in 1..k : f[s[i]] = f[x]
  BY <1>1, <1>3, WayShares
<1>6. \A y \in Range(s) : y \in DOMAIN p /\ RootOf(p, y) = RootOf(p, x)
  BY <1>4, <1>5, <1>f DEF Range
<1>7. x \in Range(s) /\ s[k] \in Range(s) /\ k \in 1..k
  BY <1>4 DEF Range
<1>8. p[x] = x => RootOf(p, x) = x
  <2> SUFFICES ASSUME p[x] = x, k # 1 PROVE FALSE
    BY <1>1, <1>4
  <2>1. 1 \in 1..(k - 1)
    BY <1>4
  <2> QED
    BY <1>1, <1>4, <2>1 DEF Ways
<1> QED
  BY <1>1, <1>4, <1>6, <1>7, <1>8, <1>s
-----------------------------------------------------------------------------
\* The class of an entity, as a parent function has it.
Name(p, x) == IF x \in DOMAIN p THEN RootOf(p, x) ELSE x

\* A class is named by one of its own, of no higher rank.
LEMMA NameParts ==
    ASSUME NEW p, Forest(p), NEW x \in Entity
    PROVE  /\ Name(p, x) \in Entity
           /\ Name(p, Name(p, x)) = Name(p, x)
           /\ entityRank[Name(p, x)] <= entityRank[x]
<1>1. CASE x \in DOMAIN p
  <2>1. RootOf(p, x) \in DOMAIN p /\ RootOf(p, RootOf(p, x)) = RootOf(p, x)
        /\ entityRank[RootOf(p, x)] <= entityRank[x]
    BY <1>1, RootParts
  <2> QED
    BY <1>1, <2>1 DEF Name, Forest
<1>2. CASE x \notin DOMAIN p
  <2>1. entityRank[x] \in Nat
    BY MoleculeAssumption
  <2> QED
    BY <1>2, <2>1 DEF Name
<1> QED
  BY <1>1, <1>2

\* A change of parents changes names as it does those of the parents.
LEMMA NamesAre ==
    ASSUME NEW q, Forest(q), NEW f, \A y \in DOMAIN q : f[y] = IF q[y] = y THEN y ELSE f[q[y]]
    PROVE  \A x \in DOMAIN q : Name(q, x) = f[x]
  BY RootIs DEF Name

\* The name of an entity is its parent's, and a root's its own.
LEMMA NameOfParent ==
    ASSUME NEW p, Forest(p), NEW x \in DOMAIN p
    PROVE  Name(p, x) = IF p[x] = x THEN x ELSE Name(p, p[x])
<1>1. p[x] \in DOMAIN p
  BY DEF Forest
<1> QED
  BY <1>1, RootParts, RootOfParent DEF Name

\* One more root changes no name.
LEMMA KnowingKeeps ==
    ASSUME NEW p, Forest(p), NEW e \in Entity
    PROVE  LET q == Knowing(p, e)
           IN  /\ Forest(q) /\ DOMAIN q = DOMAIN p \cup {e}
               /\ \A x : Name(q, x) = Name(p, x)
<1>1. CASE e \in DOMAIN p
  BY <1>1 DEF Knowing
<1>2. CASE e \notin DOMAIN p
  <2> DEFINE q == Knowing(p, e)
             f == [y \in DOMAIN p \cup {e} |-> Name(p, y)]
  <2>1. q = [x \in DOMAIN p \cup {e} |-> IF x \in {e} THEN e ELSE p[x]]
    BY <1>2 DEF Knowing, Updated
  <2> HIDE DEF q
  <2>2. DOMAIN q = DOMAIN p \cup {e} /\ q[e] = e /\ \A x \in DOMAIN p : q[x] = p[x]
    BY <1>2, <2>1
  <2>3. Forest(q)
    <3>1. IsFiniteSet(DOMAIN q)
      BY <2>2, FS_AddElement DEF Forest
    <3>2. q = [x \in DOMAIN q |-> q[x]]
      BY <2>1, <2>2
    <3>3. \A x \in DOMAIN q : q[x] \in DOMAIN q
      BY <2>2 DEF Forest
    <3>4. q \in [DOMAIN q -> DOMAIN q]
      BY <3>2, <3>3
    <3> QED
      BY <2>2, <3>1, <3>4 DEF Forest
  <2>4. ASSUME NEW y \in DOMAIN q PROVE f[y] = IF q[y] = y THEN y ELSE f[q[y]]
    <3>1. CASE y = e
      BY <1>2, <2>2, <3>1 DEF Name
    <3>2. CASE y \in DOMAIN p
      <4>1. q[y] = p[y] /\ p[y] \in DOMAIN p
        BY <2>2, <3>2 DEF Forest
      <4> QED
        BY <3>2, <4>1, NameOfParent
    <3> QED
      BY <2>2, <3>1, <3>2
  <2>5. \A y \in DOMAIN q : f[y] = Name(p, y)
    BY <2>2
  <2> HIDE DEF f
  <2>6. \A x \in DOMAIN q : Name(q, x) = Name(p, x)
    BY <2>3, <2>4, <2>5, NamesAre
  <2>7. \A x : x \notin DOMAIN q => Name(q, x) = Name(p, x)
    BY <2>2 DEF Name
  <2> QED
    BY <2>2, <2>3, <2>6, <2>7 DEF q
<1> QED
  BY <1>1, <1>2

\* Lower by rank, or the same.
LEMMA LowerOrSame ==
    ASSUME NEW x \in Entity, NEW y \in Entity, entityRank[y] <= entityRank[x]
    PROVE  y = x \/ entityRank[y] < entityRank[x]
<1>1. entityRank[x] \in Nat /\ entityRank[y] \in Nat
  BY MoleculeAssumption
<1>2. entityRank[x] = entityRank[y] => x = y
  BY MoleculeAssumption
<1> QED
  BY <1>1, <1>2

\* Compressing a path changes no name.
LEMMA FindKeeps ==
    ASSUME NEW p, Forest(p), NEW e \in Entity
    PROVE  LET q == find(p, e)
           IN  /\ Forest(q) /\ DOMAIN q = DOMAIN p \cup {e}
               /\ \A x : Name(q, x) = Name(p, x)
<1> DEFINE k == Knowing(p, e)
           path == PathToRoot(k, e)
           q == find(p, e)
           f == [y \in DOMAIN k |-> Name(k, y)]
<1>1. Forest(k) /\ DOMAIN k = DOMAIN p \cup {e} /\ \A x : Name(k, x) = Name(p, x)
  BY KnowingKeeps
<1>2. q = [x \in DOMAIN k \cup Range(path) |-> IF x \in Range(path) THEN path[Len(path)] ELSE k[x]]
  BY DEF find, Updated
<1> HIDE DEF q
<1>3. /\ Range(path) \subseteq DOMAIN k
      /\ \A y \in Range(path) : path[Len(path)] = RootOf(k, y)
  <2>1. e \in DOMAIN k
    BY <1>1
  <2> HIDE DEF k
  <2> QED
    BY <1>1, <2>1, RootParts
<1> HIDE DEF k, path
<1>4. DOMAIN q = DOMAIN k /\ \A x \in DOMAIN k : q[x] = RootOf(k, x) \/ q[x] = k[x]
  BY <1>2, <1>3
<1>5. \A x \in DOMAIN k : RootOf(k, x) \in DOMAIN k /\ Name(k, x) = RootOf(k, x)
                           /\ RootOf(k, RootOf(k, x)) = RootOf(k, x)
                           /\ (RootOf(k, x) = x \/ entityRank[RootOf(k, x)] < entityRank[x])
  <2> SUFFICES ASSUME NEW x \in DOMAIN k
               PROVE  RootOf(k, x) \in DOMAIN k /\ Name(k, x) = RootOf(k, x)
                           /\ RootOf(k, RootOf(k, x)) = RootOf(k, x)
                           /\ (RootOf(k, x) = x \/ entityRank[RootOf(k, x)] < entityRank[x])
    OBVIOUS
  <2>1. RootOf(k, x) \in DOMAIN k /\ RootOf(k, RootOf(k, x)) = RootOf(k, x)
        /\ entityRank[RootOf(k, x)] <= entityRank[x]
    BY <1>1, RootParts
  <2>2. x \in Entity /\ RootOf(k, x) \in Entity
    BY <1>1, <2>1 DEF Forest
  <2> QED
    BY <2>1, <2>2, LowerOrSame DEF Name
<1>6. Forest(q)
  <2>1. \A x \in DOMAIN q : q[x] \in DOMAIN q
    BY <1>1, <1>4, <1>5 DEF Forest
  <2>2. q = [x \in DOMAIN q |-> q[x]]
    BY <1>2, <1>3, <1>4
  <2>3. q \in [DOMAIN q -> DOMAIN q]
    BY <2>1, <2>2
  <2>4. \A x \in DOMAIN q : q[x] = x \/ entityRank[q[x]] < entityRank[x]
    BY <1>1, <1>4, <1>5 DEF Forest
  <2> QED
    BY <1>1, <1>4, <2>3, <2>4 DEF Forest
<1>7. \A y \in DOMAIN k : f[y] = Name(k, y)
  OBVIOUS
<1>8. ASSUME NEW y \in DOMAIN q PROVE f[y] = IF q[y] = y THEN y ELSE f[q[y]]
  <2> HIDE DEF f
  <2>1. CASE q[y] = RootOf(k, y)
    <3>1. RootOf(k, y) \in DOMAIN k /\ Name(k, y) = RootOf(k, y)
          /\ Name(k, RootOf(k, y)) = RootOf(k, y)
      BY <1>4, <1>5
    <3>2. f[y] = RootOf(k, y) /\ f[RootOf(k, y)] = RootOf(k, y)
      BY <1>4, <1>7, <3>1
    <3> QED
      BY <2>1, <3>2
  <2>2. CASE q[y] = k[y]
    <3>1. y \in DOMAIN k /\ k[y] \in DOMAIN k
      BY <1>1, <1>4 DEF Forest
    <3>2. Name(k, y) = IF k[y] = y THEN y ELSE Name(k, k[y])
      BY <1>1, <3>1, NameOfParent
    <3> QED
      BY <1>7, <2>2, <3>1, <3>2
  <2> QED
    BY <1>4, <2>1, <2>2
<1> HIDE DEF f
<1>9. \A x \in DOMAIN q : Name(q, x) = Name(k, x)
  BY <1>4, <1>6, <1>7, <1>8, NamesAre
<1>10. \A x : x \notin DOMAIN q => Name(q, x) = Name(k, x)
  BY <1>4 DEF Name
<1>11. Forest(q) /\ DOMAIN q = DOMAIN p \cup {e} /\ \A x : Name(q, x) = Name(p, x)
  BY <1>1, <1>4, <1>6, <1>9, <1>10
<1> QED
  BY <1>11 DEF q

\* The least of two entities is one of them.
LEMMA LeastOfTwo ==
    ASSUME NEW x \in Entity, NEW y \in Entity
    PROVE  /\ Least({x, y}) \in {x, y}
           /\ entityRank[Least({x, y})] <= entityRank[x]
           /\ entityRank[Least({x, y})] <= entityRank[y]
<1>1. entityRank[x] \in Nat /\ entityRank[y] \in Nat
  BY MoleculeAssumption
<1>2. \E a \in {x, y} : \A b \in {x, y} : entityRank[a] <= entityRank[b]
  BY <1>1
<1> QED
  BY <1>2 DEF Least

\* union gives the members of both classes the lower of the two names, and
\* changes no other.
LEMMA UnionNames ==
    ASSUME NEW p, Forest(p), NEW a \in Entity, NEW b \in Entity
    PROVE  LET q == union(p, a, b)
               names == {Name(p, a), Name(p, b)}
           IN  /\ Forest(q)
               /\ \A x : Name(q, x) = IF Name(p, x) \in names THEN Least(names) ELSE Name(p, x)
<1> DEFINE q == union(p, a, b)
           names == {Name(p, a), Name(p, b)}
           h == find(find(p, a), b)
           m == Least(names)
           New(x) == IF Name(p, x) \in names THEN m ELSE Name(p, x)
           f == [y \in DOMAIN h |-> New(y)]
<1>1. Forest(find(p, a)) /\ DOMAIN find(p, a) = DOMAIN p \cup {a}
      /\ \A x : Name(find(p, a), x) = Name(p, x)
  BY FindKeeps
<1>2. Forest(h) /\ DOMAIN h = DOMAIN p \cup {a} \cup {b} /\ \A x : Name(h, x) = Name(p, x)
  <2> DEFINE g == find(p, a)
  <2>1. Forest(g) /\ h = find(g, b) /\ DOMAIN g = DOMAIN p \cup {a} /\ \A x : Name(g, x) = Name(p, x)
    BY <1>1
  <2> HIDE DEF g, h
  <2> QED
    BY <2>1, FindKeeps
<1>3. q = [x \in DOMAIN h \cup {RootOf(h, a), RootOf(h, b)} |->
             IF x \in {RootOf(h, a), RootOf(h, b)} THEN Least({RootOf(h, a), RootOf(h, b)}) ELSE h[x]]
  BY DEF union, Updated
<1>4. RootOf(h, a) = Name(p, a) /\ RootOf(h, b) = Name(p, b)
  <2> HIDE DEF h
  <2>1. a \in DOMAIN h /\ b \in DOMAIN h
    BY <1>2
  <2> QED
    BY <1>2, <2>1 DEF Name
<1> HIDE DEF q, h
<1>5. names \subseteq DOMAIN h /\ \A x \in names : h[x] = x /\ Name(p, x) = x
  <2>1. a \in DOMAIN h /\ b \in DOMAIN h
    BY <1>2
  <2>2. RootOf(h, a) \in DOMAIN h /\ RootOf(h, b) \in DOMAIN h
        /\ h[RootOf(h, a)] = RootOf(h, a) /\ h[RootOf(h, b)] = RootOf(h, b)
    BY <1>2, <2>1, RootParts
  <2>3. \A x \in DOMAIN h : h[x] = x => Name(h, x) = x
    BY <1>2, NameOfParent
  <2> QED
    BY <1>2, <1>4, <2>2, <2>3
<1>6. m \in names /\ \A x \in names : entityRank[m] <= entityRank[x]
  <2>1. Name(p, a) \in Entity /\ Name(p, b) \in Entity
    BY NameParts
  <2> QED
    BY <2>1, LeastOfTwo
<1>7. /\ DOMAIN q = DOMAIN h
      /\ q = [x \in DOMAIN q |-> q[x]]
      /\ \A x \in DOMAIN h : q[x] = IF x \in names THEN m ELSE h[x]
  BY <1>3, <1>4, <1>5
<1>8. \A x \in names : x \in Entity
  BY <1>2, <1>5 DEF Forest
<1>n. names = {Name(p, a), Name(p, b)}
  OBVIOUS
<1> HIDE DEF m, names
<1>9. Forest(q)
  <2>1. \A x \in DOMAIN q : q[x] \in DOMAIN q
    BY <1>2, <1>5, <1>6, <1>7 DEF Forest
  <2>2. q \in [DOMAIN q -> DOMAIN q]
    BY <1>7, <2>1
  <2>3. \A x \in names : m = x \/ entityRank[m] < entityRank[x]
    BY <1>6, <1>8, LowerOrSame
  <2>4. \A x \in DOMAIN q : q[x] = x \/ entityRank[q[x]] < entityRank[x]
    BY <1>2, <1>7, <2>3 DEF Forest
  <2> QED
    BY <1>2, <1>7, <2>2, <2>4 DEF Forest
<1>10. \A x \in names : New(x) = m
  BY <1>5
<1>11. ASSUME NEW y \in DOMAIN h, y \notin names
       PROVE  New(y) = IF h[y] = y THEN y ELSE New(h[y])
  <2>1. Name(p, y) = IF h[y] = y THEN y ELSE Name(p, h[y])
    BY <1>2, NameOfParent
  <2>2. CASE h[y] = y
    BY <1>11, <2>1, <2>2
  <2>3. CASE h[y] # y
    BY <2>1, <2>3
  <2> QED
    BY <2>2, <2>3
<1>12. \A y \in DOMAIN h : f[y] = New(y)
  OBVIOUS
<1> HIDE DEF New, f
<1>13. ASSUME NEW y \in DOMAIN q PROVE f[y] = IF q[y] = y THEN y ELSE f[q[y]]
  <2>1. CASE y \in names
    <3>1. q[y] = m /\ f[y] = m /\ f[m] = m
      BY <1>5, <1>6, <1>7, <1>10, <1>12, <2>1
    <3> QED
      BY <3>1
  <2>2. CASE y \notin names
    <3>1. q[y] = h[y] /\ h[y] \in DOMAIN h /\ y \in DOMAIN h
      BY <1>2, <1>7, <2>2 DEF Forest
    <3> QED
      BY <1>11, <1>12, <2>2, <3>1
  <2> QED
    BY <2>1, <2>2
<1>14. \A x \in DOMAIN q : Name(q, x) = New(x)
  BY <1>7, <1>9, <1>12, <1>13, NamesAre
<1>15. ASSUME NEW x, x \notin DOMAIN q PROVE Name(q, x) = New(x)
  <2>1. Name(q, x) = x /\ Name(h, x) = x
    BY <1>7, <1>15 DEF Name
  <2>2. Name(p, x) = x /\ x \notin names
    BY <1>2, <1>5, <1>7, <1>15, <2>1
  <2> QED
    BY <2>1, <2>2 DEF New
<1>16. Forest(q) /\ \A x : Name(q, x) = New(x)
  BY <1>9, <1>14, <1>15
<1> QED
  BY <1>16 DEF q, New, m, names
-----------------------------------------------------------------------------
\* Members of a finite set, told apart by a key, are told apart by how many
\* have a lower key, and these numbers leave nothing out.
LEMMA CountedByKey ==
    ASSUME NEW D, IsFiniteSet(D), NEW key \in [D -> Nat],
           \A x, y \in D : key[x] = key[y] => x = y
    PROVE  LET Lower(d) == {x \in D : key[x] < key[d]}
           IN  /\ Cardinality(D) \in Nat
               /\ \A d \in D : \E n \in 1..Cardinality(D) : Cardinality(Lower(d)) = n - 1
               /\ \A n \in 1..Cardinality(D) : \E d \in D : Cardinality(Lower(d)) = n - 1
               /\ \A c, d \in D : Cardinality(Lower(c)) = Cardinality(Lower(d)) => c = d
<1> DEFINE Lower(d) == {x \in D : key[x] < key[d]}
           k == Cardinality(D)
           count(d) == Cardinality(Lower(d))
           f == [d \in D |-> count(d) + 1]
<1>1. k \in Nat
  BY FS_CardinalityType
<1>2. ASSUME NEW d \in D PROVE Lower(d) \in SUBSET D /\ IsFiniteSet(Lower(d)) /\ d \notin Lower(d)
  <2>1. Lower(d) \in SUBSET D /\ d \notin Lower(d)
    OBVIOUS
  <2> QED
    BY <2>1, FS_Subset
<1>3. ASSUME NEW c \in D, NEW d \in D, key[c] < key[d] PROVE Lower(c) \subseteq Lower(d) /\ c \in Lower(d)
  BY <1>3
<1> HIDE DEF Lower
<1>4. \A d \in D : count(d) \in Nat
  BY <1>2, FS_CardinalityType
<1>5. ASSUME NEW d \in D PROVE count(d) < k
  <2>1. count(d) <= k /\ (count(d) = k => D = Lower(d))
    BY <1>2, FS_Subset
  <2>2. count(d) # k
    BY <1>2, <2>1
  <2> HIDE DEF k, count
  <2> QED
    BY <1>1, <1>4, <2>1, <2>2
<1>6. ASSUME NEW c \in D, NEW d \in D, key[c] < key[d] PROVE count(c) < count(d)
  <2>1. Lower(c) \in SUBSET Lower(d) /\ Lower(c) # Lower(d)
    BY <1>2, <1>3, <1>6
  <2>2. count(c) <= count(d) /\ count(c) # count(d)
    BY <1>2, <2>1, FS_Subset
  <2> HIDE DEF count
  <2> QED
    BY <1>4, <2>2
<1> HIDE DEF count
<1>7. \A c, d \in D : count(c) = count(d) => c = d
  <2> SUFFICES ASSUME NEW c \in D, NEW d \in D, count(c) = count(d), c # d PROVE FALSE
    OBVIOUS
  <2>1. key[c] \in Nat /\ key[d] \in Nat /\ key[c] # key[d]
    OBVIOUS
  <2>2. key[c] < key[d] \/ key[d] < key[c]
    BY <2>1
  <2>3. count(c) \in Nat
    BY <1>4
  <2> QED
    BY <1>6, <2>2, <2>3
<1>k. k = Cardinality(D)
  OBVIOUS
<1> HIDE DEF k
<1>8. \A d \in D : count(d) + 1 \in 1..k
  BY <1>1, <1>4, <1>5
<1>9. f \in Injection(D, 1..k)
  <2>1. f \in [D -> 1..k]
    BY <1>8
  <2>2. \A c, d \in D : f[c] = f[d] => c = d
    BY <1>4, <1>7
  <2> QED
    BY <2>1, <2>2 DEF Injection, IsInjective
<1>10. f \in Surjection(D, 1..k)
  <2>1. IsFiniteSet(1..k) /\ Cardinality(1..k) = k
    BY <1>1, CountTo
  <2> HIDE DEF f
  <2> QED
    BY <1>9, <1>k, <2>1, FS_Injection
<1>11. ASSUME NEW n \in 1..k PROVE \E d \in D : count(d) = n - 1
  <2>1. PICK d \in D : f[d] = n
    BY <1>10 DEF Surjection
  <2> QED
    BY <1>1, <1>4, <2>1
<1>12. ASSUME NEW d \in D PROVE \E n \in 1..k : count(d) = n - 1
  <2>1. count(d) = (count(d) + 1) - 1
    BY <1>4
  <2> QED
    BY <1>8, <2>1
<1> QED
  BY <1>1, <1>7, <1>11, <1>12, <1>k DEF count, Lower

\* Claims of different metas.
ClaimSet(claims) ==
    /\ IsFiniteSet(claims)
    /\ \A cl \in claims : cl.meta \in Entity /\ cl.a \in Entity /\ cl.b \in Entity
    /\ \A x, y \in claims : x.meta = y.meta => x = y

\* The n-th of some claims is one of them, and each of them is the n-th.
LEMMA NthClaimCounts ==
    ASSUME NEW claims, ClaimSet(claims)
    PROVE  /\ Cardinality(claims) \in Nat
           /\ \A n \in 1..Cardinality(claims) : NthClaim(claims, n) \in claims
           /\ \A cl \in claims : \E n \in 1..Cardinality(claims) : cl = NthClaim(claims, n)
<1> DEFINE key == [x \in claims |-> entityRank[x.meta]]
           Below(d) == {x \in claims : key[x] < key[d]}
           Lower(d) == {x \in claims : entityRank[x.meta] < entityRank[d.meta]}
           k == Cardinality(claims)
<1>1. key \in [claims -> Nat]
  BY MoleculeAssumption DEF ClaimSet
<1>2. \A x, y \in claims : key[x] = key[y] => x = y
  BY MoleculeAssumption DEF ClaimSet
<1>3. \A d \in claims : Below(d) = Lower(d)
  OBVIOUS
<1> HIDE DEF key
<1>4. /\ k \in Nat
      /\ \A d \in claims : \E n \in 1..k : Cardinality(Below(d)) = n - 1
      /\ \A n \in 1..k : \E d \in claims : Cardinality(Below(d)) = n - 1
      /\ \A c, d \in claims : Cardinality(Below(c)) = Cardinality(Below(d)) => c = d
  <2>1. IsFiniteSet(claims)
    BY DEF ClaimSet
  <2> QED
    BY <1>1, <1>2, <2>1, CountedByKey
<1>5. \A n : NthClaim(claims, n) = CHOOSE cl \in claims : Cardinality(Lower(cl)) = n - 1
  BY DEF NthClaim
<1> HIDE DEF Below, Lower, k
<1>6. \A n \in 1..k : NthClaim(claims, n) \in claims /\ Cardinality(Below(NthClaim(claims, n))) = n - 1
  <2> SUFFICES ASSUME NEW n \in 1..k
               PROVE  NthClaim(claims, n) \in claims /\ Cardinality(Below(NthClaim(claims, n))) = n - 1
    OBVIOUS
  <2>1. \E d \in claims : Cardinality(Lower(d)) = n - 1
    BY <1>3, <1>4
  <2>2. NthClaim(claims, n) \in claims /\ Cardinality(Lower(NthClaim(claims, n))) = n - 1
    BY <1>5, <2>1
  <2> QED
    BY <1>3, <2>2
<1>7. \A cl \in claims : \E n \in 1..k : cl = NthClaim(claims, n)
  <2> TAKE cl \in claims
  <2>1. PICK n \in 1..k : Cardinality(Below(cl)) = n - 1
    BY <1>4
  <2>2. NthClaim(claims, n) \in claims /\ Cardinality(Below(cl)) = Cardinality(Below(NthClaim(claims, n)))
    BY <1>6, <2>1
  <2>3. \A c, e \in claims : Cardinality(Below(c)) = Cardinality(Below(e)) => c = e
    BY <1>4
  <2>4. cl = NthClaim(claims, n)
    BY ONLY <2>2, <2>3, cl \in claims
  <2> QED
    BY <2>4
<1>8. k \in Nat /\ \A n \in 1..k : NthClaim(claims, n) \in claims
  BY <1>4, <1>6
<1> QED
  BY ONLY <1>7, <1>8 DEF k

\* Uniting claims gives both ends of each the same name, and names nothing
\* after what they do not link it to: a set that no claim leads out of or into
\* has an entity exactly when it has the entity's name.
LEMMA UniteLinks ==
    ASSUME NEW claims, ClaimSet(claims), NEW X, \A cl \in claims : cl.a \in X <=> cl.b \in X
    PROVE  /\ Forest(Unite(claims))
           /\ \A cl \in claims : Name(Unite(claims), cl.a) = Name(Unite(claims), cl.b)
           /\ \A x \in Entity : x \in X <=> Name(Unite(claims), x) \in X
<1> DEFINE T == {p \in UNION {[D -> D] : D \in SUBSET Entity} : Forest(p)}
           k == Cardinality(claims)
           none == [x \in {} |-> x]
           Onward(p, n) == union(p, NthClaim(claims, n).a, NthClaim(claims, n).b)
           Shape(f) == [n \in 0..k |-> IF n = 0 THEN none ELSE Onward(f[n - 1], n)]
           After == CHOOSE f : f = Shape(f)
           step == [n \in 1..k |-> [p \in T |-> Onward(p, n)]]
<1>0. k \in Nat /\ \A n \in 1..k : NthClaim(claims, n) \in claims
  BY NthClaimCounts
<1>e. \A n \in 1..k : NthClaim(claims, n).a \in Entity /\ NthClaim(claims, n).b \in Entity
  BY <1>0 DEF ClaimSet
<1>1. \A p : Forest(p) => p \in T
  BY DEF Forest
<1>2. none \in T /\ DOMAIN none = {}
  <2>1. Forest(none)
    BY FS_EmptySet DEF Forest
  <2> QED
    BY <1>1, <2>1
<1>T. \A p \in T : Forest(p)
  OBVIOUS
<1>5. Unite(claims) = After[k]
  BY DEF Unite
<1> HIDE DEF T, none, k
<1>3. ASSUME NEW n \in 1..k, NEW p \in T
      PROVE  /\ Onward(p, n) \in T
             /\ Name(Onward(p, n), NthClaim(claims, n).a) = Name(Onward(p, n), NthClaim(claims, n).b)
             /\ \A x, y : Name(p, x) = Name(p, y) => Name(Onward(p, n), x) = Name(Onward(p, n), y)
             /\ (\A x \in Entity : x \in X <=> Name(p, x) \in X) =>
                   \A x \in Entity : x \in X <=> Name(Onward(p, n), x) \in X
  <2> DEFINE a == NthClaim(claims, n).a
             b == NthClaim(claims, n).b
             q == union(p, a, b)
             names == {Name(p, a), Name(p, b)}
  <2>1. a \in Entity /\ b \in Entity /\ Forest(p)
    BY <1>e, <1>T
  <2>a. a \in X <=> b \in X
    BY <1>0
  <2>q. q = Onward(p, n)
    OBVIOUS
  <2> HIDE DEF a, b, Onward
  <2>2. Forest(q) /\ \A x : Name(q, x) = IF Name(p, x) \in names THEN Least(names) ELSE Name(p, x)
    BY <2>1, UnionNames
  <2>3. Least(names) \in names
    BY <2>1, NameParts, LeastOfTwo
  <2>4. Name(q, a) = Name(q, b)
    BY <2>2
  <2>n. names = {Name(p, a), Name(p, b)}
    OBVIOUS
  <2> HIDE DEF q, names
  <2>5. \A x, y : Name(p, x) = Name(p, y) => Name(q, x) = Name(q, y)
    BY <2>2
  <2>6. ASSUME \A x \in Entity : x \in X <=> Name(p, x) \in X, NEW x \in Entity
        PROVE  x \in X <=> Name(q, x) \in X
    <3>1. \A y, z \in names : y \in X <=> z \in X
      BY <2>1, <2>6, <2>a, <2>n
    <3>2. CASE Name(p, x) \in names
      BY <2>2, <2>3, <2>6, <3>1, <3>2
    <3>3. CASE Name(p, x) \notin names
      BY <2>2, <2>6, <3>3
    <3> QED
      BY <3>2, <3>3
  <2> QED
    BY <1>1, <2>2, <2>4, <2>5, <2>6, <2>q DEF a, b
<1> HIDE DEF Onward
<1>4. step \in Turns(k, T)
  BY <1>3 DEF Turns
<1>s. \A n \in 1..k, p \in T : step[n][p] = Onward(p, n)
  OBVIOUS
<1> HIDE DEF step
<1>6. \E f \in [0..k -> T] : f[0] = none /\ \A n \in 1..k : f[n] = step[n][f[n - 1]]
  BY <1>0, <1>2, <1>4, RecursionTo
<1>7. PICK f \in [0..k -> T] : f[0] = none /\ \A n \in 1..k : f[n] = step[n][f[n - 1]]
  BY <1>6
<1>8. \A n \in 1..k : f[n] = Onward(f[n - 1], n)
  <2>1. \A n \in 1..k : n - 1 \in 0..k
    BY <1>0
  <2> QED
    BY <1>7, <1>s, <2>1
<1>9. f = Shape(f)
  <2>1. \A n \in 0..k : n = 0 \/ n \in 1..k
    BY <1>0
  <2>2. \A n \in 0..k : f[n] = IF n = 0 THEN none ELSE Onward(f[n - 1], n)
    BY ONLY <1>7, <1>8, <2>1, Zenon
  <2>3. f = [n \in 0..k |-> f[n]]
    BY ONLY <1>7
  <2> QED
    BY ONLY <2>2, <2>3
<1>10. After = Shape(After)
  <2>1. \E g : g = Shape(g)
    BY <1>9
  <2> HIDE DEF Shape
  <2> QED
    BY <2>1
<1> HIDE DEF After
<1>11. \A n \in 0..k : After[n] = IF n = 0 THEN none ELSE Onward(After[n - 1], n)
  BY <1>10
<1> DEFINE United(p, n) == \A i \in 1..n : Name(p, NthClaim(claims, i).a) = Name(p, NthClaim(claims, i).b)
           Apart(p) == \A x \in Entity : x \in X <=> Name(p, x) \in X
           R == {n \in 0..k : After[n] \in T /\ United(After[n], n) /\ Apart(After[n])}
<1>12. 0 \in R
  <2>1. 0 \in 0..k /\ 1..0 = {}
    BY <1>0
  <2>2. After[0] = none
    BY <1>11, <2>1
  <2>3. \A x : Name(none, x) = x
    BY <1>2 DEF Name
  <2> QED
    BY <1>2, <2>1, <2>2, <2>3
<1>13. ASSUME NEW n \in 1..k, n - 1 \in R PROVE n \in R
  <2>1. n \in 0..k /\ n # 0 /\ \A i \in 1..n : i = n \/ i \in 1..(n - 1)
    BY <1>0
  <2> DEFINE p == After[n - 1]
             q == Onward(p, n)
  <2>2. p \in T /\ United(p, n - 1) /\ Apart(p)
    BY <1>13
  <2>3. After[n] = q
    BY <1>11, <2>1
  <2> HIDE DEF p
  <2>4. q \in T /\ Apart(q)
        /\ Name(q, NthClaim(claims, n).a) = Name(q, NthClaim(claims, n).b)
        /\ \A x, y : Name(p, x) = Name(p, y) => Name(q, x) = Name(q, y)
    BY <1>3, <2>2
  <2> HIDE DEF q
  <2>5. United(q, n)
    BY <2>1, <2>2, <2>4
  <2> HIDE DEF United, Apart
  <2> QED
    BY <2>1, <2>3, <2>4, <2>5
<1>14. 0..k \subseteq R
  <2> HIDE DEF R
  <2> QED
    BY <1>0, <1>12, <1>13, InductionTo
<1>15. k \in R
  <2>1. k \in 0..k
    BY <1>0
  <2> HIDE DEF R
  <2> QED
    BY <1>14, <2>1
<1>16. \A cl \in claims : \E n \in 1..k : cl = NthClaim(claims, n)
  BY NthClaimCounts DEF k
<1>17. United(After[k], k) /\ Apart(After[k]) /\ Forest(After[k])
  BY <1>15, <1>T
<1>18. \A cl \in claims : Name(After[k], cl.a) = Name(After[k], cl.b)
  BY <1>16, <1>17
<1> QED
  BY <1>5, <1>17, <1>18
-----------------------------------------------------------------------------
\* What a function gives for a finite set is finite.
LEMMA ImageIsFinite ==
    ASSUME NEW D, IsFiniteSet(D), NEW f, DOMAIN f = D
    PROVE  IsFiniteSet({f[x] : x \in D})
<1> DEFINE T == {f[x] : x \in D}
           g == [x \in D |-> f[x]]
<1>1. g \in Surjection(D, T)
  BY DEF Surjection
<1> HIDE DEF g, T
<1>2. IsFiniteSet(T)
  BY <1>1, FS_Surjection
<1> QED
  BY <1>2 DEF T

\* A graph has finitely many entities.
LEMMA EntitiesAreFinite ==
    ASSUME AcceptInv
    PROVE  IsFiniteSet(DOMAIN entities)
<1> DEFINE Made(d) == creations(IngestedOps(d))
           made == [d \in DOMAIN payloads |-> Made(d)]
<1>1. /\ DOMAIN entities = UNION {Made(d) : d \in DOMAIN payloads}
      /\ DOMAIN payloads \in SUBSET Digest
      /\ payloads \in [DOMAIN payloads -> Payloads \cup {NoPayload}]
  BY DEF AcceptInv, GraphInv, GraphTypeOK, GraphIsItsBlocks
<1>2. IsFiniteSet(DOMAIN payloads)
  BY <1>1, SetsOfDigests
<1>3. ASSUME NEW d \in DOMAIN payloads PROVE IsFiniteSet(Made(d))
  <2> DEFINE ops == IngestedOps(d)
             all == {ops[i].creates : i \in DOMAIN ops}
             each == [i \in DOMAIN ops |-> ops[i].creates]
  <2>1. \E x \in Digest : ops = content[x].ops
    <3>1. CASE payloads[d] = NoPayload
      BY <1>1, <3>1 DEF IngestedOps
    <3>2. CASE payloads[d] # NoPayload
      <4>1. payloads[d] \in Payloads
        BY <1>1, <3>2
      <4>2. PICK x \in Digest : payloads[d] = PayloadOf(x)
        BY <4>1 DEF Payloads
      <4>3. ops = content[x].ops
        BY <3>2, <4>2 DEF IngestedOps, PayloadOf
      <4> QED
        BY <4>3
    <3> QED
      BY <3>1, <3>2
  <2>2. ops \in Seq(Operation)
    BY <2>1, ContentType
  <2>o. Made(d) = creations(ops)
    OBVIOUS
  <2> HIDE DEF ops, Made
  <2>3. DOMAIN ops = 1..Len(ops) /\ Len(ops) \in Nat
    BY <2>2
  <2>4. IsFiniteSet(DOMAIN ops)
    BY <2>3, CountTo
  <2>5. all = {each[i] : i \in DOMAIN ops} /\ DOMAIN each = DOMAIN ops
    OBVIOUS
  <2> HIDE DEF each
  <2>6. IsFiniteSet(all)
    BY <2>4, <2>5, ImageIsFinite
  <2>7. creations(ops) \subseteq all
    BY DEF creations
  <2> HIDE DEF all
  <2> QED
    BY <2>6, <2>7, <2>o, FS_Subset
<1>4. {Made(d) : d \in DOMAIN payloads} = {made[d] : d \in DOMAIN payloads}
      /\ DOMAIN made = DOMAIN payloads
  OBVIOUS
<1>5. IsFiniteSet({Made(d) : d \in DOMAIN payloads})
  <2> HIDE DEF made, Made
  <2> QED
    BY <1>2, <1>4, ImageIsFinite
<1>6. \A M \in {Made(d) : d \in DOMAIN payloads} : IsFiniteSet(M)
  BY <1>3
<1> HIDE DEF Made
<1> QED
  BY <1>1, <1>5, <1>6, FS_UNION

\* The declarations of equivalence that stand are claims of different metas
\* about entities.
LEMMA StandingIsClaimSet ==
    ASSUME AcceptInv, NEW S, NEW o
    PROVE  ClaimSet(On(Standing(ClaimsOf(entities, S), o), "equivalence"))
<1> DEFINE g == entities
           C == ClaimsOf(g, S)
           Stands(x) == Backed(x, backers(x, C, o))
           claims == On(Standing(C, o), "equivalence")
           metaOf == [cl \in claims |-> cl.meta]
<1>1. Standing(C, o) = {Stands(x) : x \in {y \in Gated(C) : backers(y, C, o) # {}}}
  BY DEF Standing, Backed
<1>2. DOMAIN g \subseteq Entity /\ IsFiniteSet(DOMAIN g)
  BY EntitiesAreFinite DEF AcceptInv, GraphInv, GraphTypeOK
<1>3. ASSUME NEW x \in C, NEW B
      PROVE  LET y == Backed(x, B)
             IN  y.meta = x.meta /\ y.bond = x.bond /\ y.a = x.a /\ y.b = x.b
  <2>1. PICK m : x = Claim(g, m, S)
    BY ClaimParts
  <2> DEFINE Made(n, d, a, b, t) == [meta |-> n, bond |-> d, a |-> a, b |-> b, prov |-> t, backing |-> {}]
             f == molecule[m].fillers
  <2>2. x = Made(m, molecule[m].bond, f[1].ref, f[Len(f)].ref, subscribedProvenance(g, m, S))
    BY <2>1 DEF Claim
  <2>3. \A n, d, a, b, t :
           /\ Backed(Made(n, d, a, b, t), B).meta = Made(n, d, a, b, t).meta
           /\ Backed(Made(n, d, a, b, t), B).bond = Made(n, d, a, b, t).bond
           /\ Backed(Made(n, d, a, b, t), B).a = Made(n, d, a, b, t).a
           /\ Backed(Made(n, d, a, b, t), B).b = Made(n, d, a, b, t).b
    BY DEF Backed
  <2> HIDE DEF Made, f
  <2> QED
    BY <2>2, <2>3
<1>4. ASSUME NEW cl \in claims
      PROVE  \E x \in C : /\ cl = Stands(x) /\ x.bond = "equivalence"
                          /\ cl.meta = x.meta /\ cl.a = x.a /\ cl.b = x.b
  <2>1. cl \in Standing(C, o) /\ cl.bond = "equivalence"
    BY DEF On
  <2> HIDE DEF Stands
  <2>2. PICK x \in Gated(C) : cl = Stands(x)
    BY <1>1, <2>1
  <2>3. x \in C
    BY <2>2 DEF Gated
  <2> QED
    BY <1>3, <2>1, <2>2, <2>3 DEF Stands
<1>5. ASSUME NEW x \in C, x.bond = "equivalence"
      PROVE  x.meta \in DOMAIN g /\ x.a \in Entity /\ x.b \in Entity
  <2> DEFINE m == x.meta
             f == molecule[m].fillers
  <2>1. m \in InView(g, S) /\ m \in MetaIn(InView(g, S)) /\ FitsTemplate(m)
        /\ x = Claim(g, m, S) /\ x.bond = molecule[m].bond
    BY ClaimParts
  <2>2. m \in DOMAIN g /\ kind[m] = "molecule"
    BY <2>1 DEF InView, MetaIn
  <2>3. molecule[m] \in Molecule
    BY <1>2, <2>2, MoleculeAssumption
  <2>4. f \in Seq(Filler)
    BY <2>3 DEF Molecule
  <2>5. Len(f) = 2 /\ f[1].type = f[2].type /\ f[1].type \in RefType
    BY <1>5, <2>1 DEF FitsTemplate
  <2>6. Claim(g, m, S).a = f[1].ref /\ Claim(g, m, S).b = f[Len(f)].ref
    BY DEF Claim
  <2>7. x.a = f[1].ref /\ x.b = f[2].ref
    <3>1. x.a = Claim(g, m, S).a /\ x.b = Claim(g, m, S).b
      BY <2>1, Zenon
    <3> HIDE DEF f, m
    <3> QED
      BY <2>5, <2>6, <3>1
  <2> HIDE DEF f, m
  <2>8. f[1] \in Filler /\ f[2] \in Filler
    <3>1. 1 \in 1..Len(f) /\ 2 \in 1..Len(f)
      BY <2>5
    <3> QED
      BY <2>4, <3>1, ElementOfSeq
  <2>9. \A z \in Filler : z.type \in RefType => z.ref \in Entity
    BY DEF Filler, RefType
  <2> QED
    BY <2>2, <2>5, <2>7, <2>8, <2>9 DEF m
<1>6. \A cl \in claims : cl.meta \in DOMAIN g /\ cl.a \in Entity /\ cl.b \in Entity
  BY <1>4, <1>5
<1>7. ASSUME NEW x \in claims, NEW y \in claims, x.meta = y.meta PROVE x = y
  <2>1. PICK u \in C : x = Stands(u) /\ x.meta = u.meta
    BY <1>4
  <2>2. PICK w \in C : y = Stands(w) /\ y.meta = w.meta
    BY <1>4
  <2>3. u = Claim(g, u.meta, S) /\ w = Claim(g, w.meta, S)
    BY ClaimParts
  <2>4. u.meta = w.meta
    BY <1>7, <2>1, <2>2
  <2>5. u = w
    BY <2>3, <2>4, Zenon
  <2> HIDE DEF Stands
  <2> QED
    BY <2>1, <2>2, <2>5
<1> HIDE DEF claims
<1>8. metaOf \in Injection(claims, DOMAIN g)
  BY <1>6, <1>7 DEF Injection, IsInjective
<1>9. IsFiniteSet(claims)
  <2> HIDE DEF metaOf
  <2> QED
    BY <1>2, <1>8, FS_Injection
<1>10. ClaimSet(claims)
  BY <1>2, <1>6, <1>7, <1>9 DEF ClaimSet
<1> QED
  BY <1>10 DEF claims

\* The links of finitely many claims, there and back, are finite.
LEMMA LinksAreFinite ==
    ASSUME NEW claims, IsFiniteSet(claims)
    PROVE  IsFiniteSet({<<c.a, c.b>> : c \in claims} \cup {<<c.b, c.a>> : c \in claims})
<1> DEFINE there == [c \in claims |-> <<c.a, c.b>>]
           back == [c \in claims |-> <<c.b, c.a>>]
           U == {there[c] : c \in claims}
           V == {back[c] : c \in claims}
<1>1. {<<c.a, c.b>> : c \in claims} = U /\ {<<c.b, c.a>> : c \in claims} = V
  OBVIOUS
<1>2. DOMAIN there = claims /\ DOMAIN back = claims
  OBVIOUS
<1>3. IsFiniteSet(U)
  <2> HIDE DEF there
  <2> QED
    BY <1>2, ImageIsFinite
<1>4. IsFiniteSet(V)
  <2> HIDE DEF back
  <2> QED
    BY <1>2, ImageIsFinite
<1> HIDE DEF U, V
<1>5. IsFiniteSet(U \cup V)
  BY <1>3, <1>4, FS_Union
<1> QED
  BY <1>1, <1>5

\* Names are equal exactly where the links of some claims lead.
LEMMA NamesAreReached ==
    ASSUME NEW claims, ClaimSet(claims), NEW links, IsFiniteSet(links),
           \A cl \in claims : <<cl.a, cl.b>> \in links /\ <<cl.b, cl.a>> \in links,
           \A q \in links : \E cl \in claims : q = <<cl.a, cl.b>> \/ q = <<cl.b, cl.a>>,
           NEW a \in Entity, NEW b \in Entity
    PROVE  Name(Unite(claims), a) = Name(Unite(claims), b) <=> b \in ReachedFrom(links, {a})
<1> DEFINE X == ReachedFrom(links, {a})
           p == Unite(claims)
           Y == {e \in Entity : Name(p, e) = Name(p, a)}
<1>1. /\ {a} \subseteq X
      /\ \A q \in links : q[1] \in X => q[2] \in X
      /\ \A Z : {a} \subseteq Z /\ (\A q \in links : q[1] \in Z => q[2] \in Z) => X \subseteq Z
  BY ONLY IsFiniteSet(links), ReachedIsLeast
<1> HIDE DEF X
<1>2. ASSUME NEW cl \in claims PROVE cl.a \in X <=> cl.b \in X
  <2>1. \A x, y : <<x, y>> \in links /\ x \in X => y \in X
    BY <1>1
  <2> QED
    BY <2>1
<1>3. /\ \A cl \in claims : Name(p, cl.a) = Name(p, cl.b)
      /\ \A x \in Entity : x \in X <=> Name(p, x) \in X
  BY <1>2, UniteLinks
<1> HIDE DEF p
<1>4. ASSUME Name(p, a) = Name(p, b) PROVE b \in X
  BY <1>1, <1>3, <1>4
<1>5. \A q \in links : q[1] \in Y => q[2] \in Y
  <2> SUFFICES ASSUME NEW cl \in claims, NEW q, q = <<cl.a, cl.b>> \/ q = <<cl.b, cl.a>>, q[1] \in Y
               PROVE  q[2] \in Y
    OBVIOUS
  <2>1. cl.a \in Entity /\ cl.b \in Entity /\ Name(p, cl.a) = Name(p, cl.b)
    BY <1>3 DEF ClaimSet
  <2> QED
    BY <2>1
<1>6. X \subseteq Y
  <2>1. {a} \subseteq Y
    OBVIOUS
  <2> HIDE DEF Y
  <2> QED
    BY <1>1, <1>5, <2>1
<1>7. ASSUME b \in X PROVE Name(p, a) = Name(p, b)
  BY <1>6, <1>7
<1> QED
  BY <1>4, <1>7 DEF X, p

\* In every state and for every subscription, two entities of a view are in
\* one class exactly when declarations that stand link them
\* (meta.go, unionFind; view.go, closeEquivalences).
THEOREM EquivalenceIsAlwaysTheClosure == Spec => []EquivalenceIsTheClosure
<1>1. AcceptInv => EquivalenceIsTheClosure
  <2> SUFFICES ASSUME AcceptInv, NEW v \in Views, NEW standing \in StandingClaims,
                      NEW claims, claims = On(standing, "equivalence"),
                      NEW links,
                      links = {<<c.a, c.b>> : c \in claims} \cup {<<c.b, c.a>> : c \in claims},
                      NEW a \in v.entries, NEW b \in v.entries
               PROVE  Equivalent(v, a, b) <=> b \in ReachedFrom(links, {a})
    BY DEF EquivalenceIsTheClosure
  <2> DEFINE g == entities
             S == subscribed
             o == OrderOf(g, S)
             C == ClaimsOf(g, S)
             E == InView(g, S)
             class == ClassOf(E, claims)
  <2>1. IsRight(o)
    BY OrderOfIsRight
  <2>2. standing = Standing(C, o)
    BY DEF StandingClaims, ClaimsOf
  <2>3. ReadsAs(v, Who(g, E, S), standing, class, TruthRecords(class, C, o), Withdrawn(C, o))
    <3>1. v = Build(g, S)
      BY DEF Views
    <3> HIDE DEF g, S
    <3> QED
      BY <2>1, <2>2, <3>1, ViewReadsClaims
  <2>4. v.entries = E /\ v.class = class
    BY <2>3 DEF ReadsAs, Who
  <2>5. \A e \in E : class[e] = Name(Unite(claims), e)
    BY DEF ClassOf, Name
  <2>6. E \subseteq Entity
    BY DEF InView, AcceptInv, GraphInv, GraphTypeOK
  <2>7. ClaimSet(claims)
    BY <2>2, StandingIsClaimSet
  <2> HIDE DEF class, E
  <2>8. Equivalent(v, a, b) <=> Name(Unite(claims), a) = Name(Unite(claims), b)
    BY <2>4, <2>5 DEF Equivalent
  <2>9. a \in Entity /\ b \in Entity
    BY <2>4, <2>6
  <2>10. IsFiniteSet(links)
    <3>1. IsFiniteSet(claims)
      BY <2>7 DEF ClaimSet
    <3> QED
      BY ONLY links = {<<c.a, c.b>> : c \in claims} \cup {<<c.b, c.a>> : c \in claims},
              <3>1, LinksAreFinite
  <2>11. /\ \A cl \in claims : <<cl.a, cl.b>> \in links /\ <<cl.b, cl.a>> \in links
         /\ \A q \in links : \E cl \in claims : q = <<cl.a, cl.b>> \/ q = <<cl.b, cl.a>>
    OBVIOUS
  <2>12. Name(Unite(claims), a) = Name(Unite(claims), b) <=> b \in ReachedFrom(links, {a})
    BY ONLY AcceptInv, <2>7, <2>9, <2>10, <2>11, NamesAreReached
  <2> QED
    BY <2>8, <2>12
<1> QED
  BY <1>1, AcceptInvariant, PTL
-----------------------------------------------------------------------------
\* A graph of classes, each with those it has edges to; where the edges lead
\* from one of them, its component, and whether they lead back to it.
IsGraph(N, A) == IsFiniteSet(N) /\ N \in SUBSET Entity /\ A \in [N -> SUBSET N]
ClosedIn(A, S) == \A z \in S : A[z] \subseteq S
Reach(A, x) == {y \in DOMAIN A : \A S \in SUBSET DOMAIN A : x \in S /\ ClosedIn(A, S) => y \in S}
Strongly(A, x) == {y \in Reach(A, x) : x \in Reach(A, y)}
Cyclic(A, x) == \E y \in A[x] : x \in Reach(A, y)

\* Edges lead from a class to itself, to what it has edges to, and as far as
\* they lead from there, and to nothing outside a set that none of them leaves.
LEMMA ReachIsLeast ==
    ASSUME NEW N, NEW A, IsGraph(N, A), NEW x \in N
    PROVE  /\ Reach(A, x) \in SUBSET N /\ x \in Reach(A, x) /\ A[x] \subseteq Reach(A, x)
           /\ ClosedIn(A, Reach(A, x))
           /\ \A S \in SUBSET N : x \in S /\ ClosedIn(A, S) => Reach(A, x) \subseteq S
           /\ \A y \in Reach(A, x) : Reach(A, y) \subseteq Reach(A, x)
<1>1. DOMAIN A = N /\ \A z \in N : A[z] \in SUBSET N
  BY DEF IsGraph
<1>2. Reach(A, x) \in SUBSET N /\ x \in Reach(A, x)
  BY <1>1 DEF Reach
<1>3. \A S \in SUBSET N : x \in S /\ ClosedIn(A, S) => Reach(A, x) \subseteq S
  BY <1>1 DEF Reach
<1>4. ClosedIn(A, Reach(A, x))
  <2> SUFFICES ASSUME NEW z \in Reach(A, x), NEW y \in A[z] PROVE y \in Reach(A, x)
    BY DEF ClosedIn
  <2>1. y \in N
    BY <1>1, <1>2
  <2>2. ASSUME NEW S \in SUBSET N, x \in S, ClosedIn(A, S) PROVE y \in S
    BY <1>3, <2>2 DEF ClosedIn
  <2> QED
    BY <1>1, <2>1, <2>2 DEF Reach
<1>5. A[x] \subseteq Reach(A, x)
  BY <1>2, <1>4 DEF ClosedIn
<1>6. ASSUME NEW y \in Reach(A, x), NEW z \in Reach(A, y) PROVE z \in Reach(A, x)
  BY <1>1, <1>2, <1>4 DEF Reach
<1> QED
  BY <1>2, <1>3, <1>4, <1>5, <1>6

\* Of some entities one is least.
LEMMA LeastIsOne ==
    ASSUME NEW S \in SUBSET Entity, S # {}
    PROVE  Least(S) \in S
<1> DEFINE ranks == {entityRank[e] : e \in S}
<1>1. ranks \in SUBSET Nat /\ ranks # {}
  BY MoleculeAssumption
<1>2. \A n \in ranks : \E e \in S : n = entityRank[e]
  OBVIOUS
<1>3. \A e \in S : entityRank[e] \in ranks
  OBVIOUS
<1>4. PICK n \in ranks : \A m \in ranks : n <= m
  <2> HIDE DEF ranks
  <2> QED
    BY <1>1, LeastNumber
<1>5. \E a \in S : \A b \in S : entityRank[a] <= entityRank[b]
  BY <1>2, <1>3, <1>4
<1> QED
  BY <1>5 DEF Least
-----------------------------------------------------------------------------
\* A state of the search: the classes seen are those numbered, those on the
\* stack among them, and the innermost call is the last.
Frame(N) == [class : N, rest : SUBSET N]
SearchState(N) ==
    [info : UNION {[D -> [index : Nat, low : Nat]] : D \in SUBSET N}, stack : Seq(N),
     found : SUBSET SUBSET N, calls : Seq(Frame(N))]

Stacked(st) == Range(st.stack)
Done(st) == DOMAIN st.info \ Stacked(st)
Called(st) == {st.calls[i].class : i \in DOMAIN st.calls}
Index(st, c) == st.info[c].index
LowLink(st, c) == st.info[c].low

\* An edge that a call has yet to look at.
Pending(st, x, y) == \E i \in DOMAIN st.calls : st.calls[i].class = x /\ y \in st.calls[i].rest

\* The parts of a state.
LEMMA StateParts ==
    ASSUME NEW N, NEW st \in SearchState(N)
    PROVE  /\ DOMAIN st.info \in SUBSET N
           /\ st.info \in [DOMAIN st.info -> [index : Nat, low : Nat]]
           /\ \A c \in DOMAIN st.info : Index(st, c) \in Nat /\ LowLink(st, c) \in Nat
           /\ st.stack \in Seq(N) /\ Stacked(st) \in SUBSET N
           /\ DOMAIN st.stack = 1..Len(st.stack) /\ Len(st.stack) \in Nat
           /\ st.calls \in Seq(Frame(N))
           /\ DOMAIN st.calls = 1..Len(st.calls) /\ Len(st.calls) \in Nat
           /\ \A i \in DOMAIN st.calls : st.calls[i].class \in N /\ st.calls[i].rest \in SUBSET N
           /\ Called(st) \in SUBSET N /\ st.found \in SUBSET SUBSET N
<1>1. /\ st.info \in UNION {[D -> [index : Nat, low : Nat]] : D \in SUBSET N}
      /\ st.stack \in Seq(N) /\ st.found \in SUBSET SUBSET N
      /\ st.calls \in Seq(Frame(N))
  BY DEF SearchState
<1>2. PICK D \in SUBSET N : st.info \in [D -> [index : Nat, low : Nat]]
  BY <1>1
<1>3. DOMAIN st.info = D
  BY <1>2
<1>4. \A c \in D : st.info[c] \in [index : Nat, low : Nat]
  BY <1>2
<1>5. \A c \in D : st.info[c].index \in Nat /\ st.info[c].low \in Nat
  BY <1>4
<1>6. \A i \in DOMAIN st.calls : st.calls[i] \in Frame(N)
  BY <1>1
<1>7. \A i \in DOMAIN st.stack : st.stack[i] \in N
  BY <1>1
<1>8. \A i \in DOMAIN st.calls : st.calls[i].class \in N /\ st.calls[i].rest \in SUBSET N
  BY <1>6 DEF Frame
<1>9. Stacked(st) \in SUBSET N /\ Called(st) \in SUBSET N
  BY <1>7, <1>8 DEF Stacked, Called, Range
<1>10. /\ DOMAIN st.stack = 1..Len(st.stack) /\ Len(st.stack) \in Nat
       /\ DOMAIN st.calls = 1..Len(st.calls) /\ Len(st.calls) \in Nat
  BY <1>1
<1> QED
  BY <1>1, <1>2, <1>3, <1>5, <1>8, <1>9, <1>10 DEF Index, LowLink
-----------------------------------------------------------------------------
\* What a visit of d, a lower low link of c, a look at n, and the end of the
\* innermost call make of a state s.
Visits(A, s, d, w) ==
    /\ DOMAIN w.info = DOMAIN s.info \cup {d}
    /\ \A c \in DOMAIN s.info : Index(w, c) = Index(s, c) /\ LowLink(w, c) = LowLink(s, c)
    /\ Index(w, d) = Cardinality(DOMAIN s.info) /\ LowLink(w, d) = Cardinality(DOMAIN s.info)
    /\ w.stack = Append(s.stack, d)
    /\ w.calls = Append(s.calls, [class |-> d, rest |-> A[d]])
    /\ w.found = s.found
Lowers(s, c, n, w) ==
    /\ DOMAIN w.info = DOMAIN s.info
    /\ \A x \in DOMAIN s.info : /\ Index(w, x) = Index(s, x)
                                /\ x # c => LowLink(w, x) = LowLink(s, x)
    /\ LowLink(w, c) = IF n < LowLink(s, c) THEN n ELSE LowLink(s, c)
    /\ w.stack = s.stack /\ w.calls = s.calls /\ w.found = s.found
Looks(s, n, w) ==
    /\ w.info = s.info /\ w.stack = s.stack /\ w.found = s.found
    /\ Len(w.calls) = Len(s.calls)
    /\ \A i \in 1..Len(s.calls) :
          /\ w.calls[i].class = s.calls[i].class
          /\ w.calls[i].rest = IF i = Len(s.calls) THEN s.calls[i].rest \ {n} ELSE s.calls[i].rest

\* A visit gives another state of the search, the one Visits says.
LEMMA VisitMakes ==
    ASSUME NEW N, NEW A, IsGraph(N, A), NEW s \in SearchState(N), NEW d \in N \ DOMAIN s.info
    PROVE  visit(s, d, A) \in SearchState(N) /\ Visits(A, s, d, visit(s, d, A))
<1> DEFINE id == Cardinality(DOMAIN s.info)
           one == [c \in {d} |-> [index |-> id, low |-> id]]
           info == Updated(s.info, one)
           stack == Append(s.stack, d)
           calls == Append(s.calls, [class |-> d, rest |-> A[d]])
           w == visit(s, d, A)
<1>1. /\ DOMAIN s.info \in SUBSET N /\ s.info \in [DOMAIN s.info -> [index : Nat, low : Nat]]
      /\ s.stack \in Seq(N) /\ s.calls \in Seq(Frame(N))
      /\ s.found \in SUBSET SUBSET N
  BY StateParts
<1>2. id \in Nat
  <2>1. IsFiniteSet(DOMAIN s.info)
    BY <1>1, FS_Subset DEF IsGraph
  <2> QED
    BY <2>1, FS_CardinalityType
<1>3. A[d] \in SUBSET N
  BY DEF IsGraph
<1>4. w = [s EXCEPT !.info = info, !.stack = stack, !.calls = calls]
  BY DEF visit
<1>5. /\ DOMAIN info = DOMAIN s.info \cup {d} /\ \A c \in DOMAIN s.info : info[c] = s.info[c]
      /\ info[d] = [index |-> id, low |-> id]
  BY DEF Updated
<1>6. info \in [DOMAIN s.info \cup {d} -> [index : Nat, low : Nat]]
  <2>1. \A c \in DOMAIN s.info : s.info[c] \in [index : Nat, low : Nat]
    BY <1>1
  <2>2. [index |-> id, low |-> id] \in [index : Nat, low : Nat]
    BY <1>2
  <2>3. info = [c \in DOMAIN s.info \cup {d} |-> info[c]]
    BY DEF Updated
  <2> HIDE DEF info, id
  <2> QED
    BY <1>5, <2>1, <2>2, <2>3
<1>7. stack \in Seq(N) /\ calls \in Seq(Frame(N))
  BY <1>1, <1>3 DEF Frame
<1> HIDE DEF info, stack, calls, id, w
<1>8. /\ w.info = info /\ w.stack = stack /\ w.calls = calls /\ w.found = s.found
      /\ w = [info |-> info, stack |-> stack, found |-> s.found, calls |-> calls]
  BY <1>4 DEF SearchState
<1>9. w \in SearchState(N)
  <2>1. DOMAIN s.info \cup {d} \in SUBSET N
    BY <1>1
  <2>2. info \in UNION {[D -> [index : Nat, low : Nat]] : D \in SUBSET N}
    BY <1>6, <2>1
  <2> QED
    BY <1>1, <1>7, <1>8, <2>2 DEF SearchState
<1>10. Visits(A, s, d, w)
  BY <1>5, <1>8 DEF Visits, Index, LowLink, stack, calls, id
<1> QED
  BY <1>9, <1>10 DEF w

\* A lower low link does.
LEMMA LowMakes ==
    ASSUME NEW N, NEW s \in SearchState(N), NEW c \in DOMAIN s.info, NEW n \in Nat
    PROVE  Low(s, c, n) \in SearchState(N) /\ Lowers(s, c, n, Low(s, c, n))
<1> DEFINE m == IF n < s.info[c].low THEN n ELSE s.info[c].low
           here == [s.info[c] EXCEPT !.low = m]
           info == [s.info EXCEPT ![c] = here]
           w == Low(s, c, n)
<1>1. /\ DOMAIN s.info \in SUBSET N /\ s.info \in [DOMAIN s.info -> [index : Nat, low : Nat]]
      /\ s.stack \in Seq(N) /\ s.calls \in Seq(Frame(N))
      /\ s.found \in SUBSET SUBSET N
  BY StateParts
<1>2. w = [s EXCEPT !.info = info]
  BY DEF Low
<1>3. s.info[c] \in [index : Nat, low : Nat]
  BY <1>1
<1>4. m \in Nat
  BY <1>3
<1> HIDE DEF m
<1>5. here \in [index : Nat, low : Nat] /\ here.index = s.info[c].index /\ here.low = m
  BY <1>3, <1>4
<1> HIDE DEF here
<1>6. info \in [DOMAIN s.info -> [index : Nat, low : Nat]]
  BY <1>1, <1>5
<1>7. info[c] = here /\ \A x \in DOMAIN s.info : x # c => info[x] = s.info[x]
  OBVIOUS
<1> HIDE DEF info, w
<1>8. /\ w.info = info /\ w.stack = s.stack /\ w.calls = s.calls /\ w.found = s.found
      /\ w = [info |-> info, stack |-> s.stack, found |-> s.found, calls |-> s.calls]
  BY <1>2 DEF SearchState
<1>9. w \in SearchState(N)
  <2>1. info \in UNION {[D -> [index : Nat, low : Nat]] : D \in SUBSET N}
    BY <1>1, <1>6
  <2> QED
    BY <1>1, <1>8, <2>1 DEF SearchState
<1>10. Lowers(s, c, n, w)
  BY <1>5, <1>6, <1>7, <1>8 DEF Lowers, Index, LowLink, m
<1> QED
  BY <1>9, <1>10 DEF w

\* A look does.
LEMMA LookMakes ==
    ASSUME NEW N, NEW s \in SearchState(N), s.calls # <<>>, NEW n,
           NEW w, w = [s EXCEPT !.calls[Len(s.calls)].rest = @ \ {n}]
    PROVE  w \in SearchState(N) /\ Looks(s, n, w)
<1> DEFINE L == Len(s.calls)
           last == [s.calls[L] EXCEPT !.rest = @ \ {n}]
           calls == [s.calls EXCEPT ![L] = last]
<1>1. /\ s.info \in UNION {[D -> [index : Nat, low : Nat]] : D \in SUBSET N}
      /\ s.stack \in Seq(N) /\ s.calls \in Seq(Frame(N))
      /\ s.found \in SUBSET SUBSET N
  BY DEF SearchState
<1>2. L \in 1..Len(s.calls) /\ DOMAIN s.calls = 1..L
  BY <1>1, EmptySeq
<1>3. s.calls[L] \in Frame(N)
  BY <1>1, <1>2
<1>4. /\ last \in Frame(N)
      /\ last.class = s.calls[L].class /\ last.rest = s.calls[L].rest \ {n}
  BY <1>3 DEF Frame
<1>5. w = [s EXCEPT !.calls = calls]
  OBVIOUS
<1> HIDE DEF last
<1>6. /\ calls \in Seq(Frame(N)) /\ Len(calls) = L /\ calls[L] = last
      /\ \A i \in 1..L : i # L => calls[i] = s.calls[i]
  BY <1>1, <1>2, <1>4
<1> HIDE DEF calls, L
<1>7. /\ w.info = s.info /\ w.stack = s.stack /\ w.found = s.found /\ w.calls = calls
      /\ w = [info |-> s.info, stack |-> s.stack, found |-> s.found, calls |-> calls]
  BY <1>5 DEF SearchState
<1>8. w \in SearchState(N)
  BY <1>1, <1>6, <1>7 DEF SearchState
<1>9. \A i \in 1..L :
         /\ w.calls[i].class = s.calls[i].class
         /\ w.calls[i].rest = IF i = L THEN s.calls[i].rest \ {n} ELSE s.calls[i].rest
  <2> TAKE i \in 1..L
  <2>1. CASE i = L
    BY <1>4, <1>6, <1>7, <2>1
  <2>2. CASE i # L
    BY <1>6, <1>7, <2>2
  <2> QED
    BY <2>1, <2>2
<1>10. Looks(s, n, w)
  BY <1>6, <1>7, <1>9 DEF Looks, L
<1> QED
  BY <1>8, <1>10

\* The classes on the stack from d on, as its component takes them off.
Above(s, d) == {x \in Stacked(s) : Index(s, d) <= Index(s, x)}

\* A stack whose classes are in the order they were seen.
InOrder(s) ==
    /\ Stacked(s) \subseteq DOMAIN s.info
    /\ \A i, j \in DOMAIN s.stack : i < j => Index(s, s.stack[i]) < Index(s, s.stack[j])

\* What it makes of the stack and the components found, when d's low link is
\* its index.
Takes(A, s, d, w) ==
    /\ LowLink(s, d) # Index(s, d) => w.stack = s.stack /\ w.found = s.found
    /\ LowLink(s, d) = Index(s, d) =>
          /\ Stacked(w) = Stacked(s) \ Above(s, d)
          /\ \A i \in DOMAIN w.stack : i \in DOMAIN s.stack /\ w.stack[i] = s.stack[i]
          /\ w.found = IF Cardinality(Above(s, d)) > 1 \/ d \in A[d]
                       THEN s.found \cup {Above(s, d)} ELSE s.found

\* Taking a component off the stack does as Takes says.
LEMMA ComponentMakes ==
    ASSUME NEW N, NEW A, IsGraph(N, A), NEW s \in SearchState(N), InOrder(s), NEW d \in Stacked(s)
    PROVE  /\ Component(s, d, A) \in SearchState(N) /\ Takes(A, s, d, Component(s, d, A))
           /\ Component(s, d, A).info = s.info /\ Component(s, d, A).calls = s.calls
<1> DEFINE from == CHOOSE i \in DOMAIN s.stack : s.stack[i] = d
           component == {s.stack[i] : i \in from..Len(s.stack)}
           stack == SubSeq(s.stack, 1, from - 1)
           found == IF Cardinality(component) > 1 \/ d \in A[d]
                    THEN s.found \cup {component} ELSE s.found
           w == Component(s, d, A)
<1>1. CASE LowLink(s, d) # Index(s, d)
  <2>1. w = s
    BY <1>1 DEF Component, LowLink, Index
  <2> QED
    BY <1>1, <2>1 DEF Takes
<1>2. CASE LowLink(s, d) = Index(s, d)
  <2>1. w = [s EXCEPT !.stack = stack, !.found = found]
    BY <1>2 DEF Component, LowLink, Index
  <2>2. from \in DOMAIN s.stack /\ s.stack[from] = d
    BY DEF Stacked, Range
  <2>3. /\ s.stack \in Seq(N) /\ DOMAIN s.stack = 1..Len(s.stack) /\ Len(s.stack) \in Nat
        /\ DOMAIN s.info \in SUBSET N /\ \A c \in DOMAIN s.info : Index(s, c) \in Nat
        /\ s.found \in SUBSET SUBSET N
    BY StateParts
  <2> HIDE DEF from, w
  <2>4. /\ stack \in Seq(N) /\ DOMAIN stack = 1..(from - 1)
        /\ \A i \in 1..(from - 1) : stack[i] = s.stack[i]
    BY <2>2, <2>3
  <2>5. component \in SUBSET N
    BY <2>2, <2>3
  <2>6. \A i \in DOMAIN s.stack : from <= i <=> Index(s, d) <= Index(s, s.stack[i])
    <3> TAKE i \in DOMAIN s.stack
    <3>0. i \in Nat /\ from \in Nat /\ s.stack[i] \in DOMAIN s.info /\ d \in DOMAIN s.info
      BY <2>2, <2>3 DEF InOrder, Stacked, Range
    <3>1. /\ i < from => Index(s, s.stack[i]) < Index(s, d)
          /\ from < i => Index(s, d) < Index(s, s.stack[i])
      BY <2>2 DEF InOrder
    <3>2. CASE i = from
      BY <2>2, <2>3, <3>0, <3>2
    <3>3. CASE i # from
      BY <2>3, <3>0, <3>1, <3>3
    <3> QED
      BY <3>2, <3>3
  <2>7. component = Above(s, d)
    BY <2>2, <2>3, <2>6 DEF Above, Stacked, Range
  <2>8. Range(stack) = Stacked(s) \ Above(s, d)
    <3>1. \A i \in DOMAIN s.stack : i \in 1..(from - 1) <=> ~(Index(s, d) <= Index(s, s.stack[i]))
      BY <2>2, <2>3, <2>6
    <3>2. \A i \in 1..(from - 1) : i \in DOMAIN s.stack
      BY <2>2, <2>3
    <3> HIDE DEF stack
    <3> QED
      BY <2>4, <3>1, <3>2 DEF Above, Stacked, Range
  <2>9. found \in SUBSET SUBSET N
    BY <2>3, <2>5
  <2> HIDE DEF stack, found, component
  <2>10. /\ w.info = s.info /\ w.stack = stack /\ w.found = found /\ w.calls = s.calls
         /\ w = [info |-> s.info, stack |-> stack, found |-> found, calls |-> s.calls]
    BY <2>1 DEF SearchState
  <2>11. w \in SearchState(N)
    BY <2>4, <2>9, <2>10 DEF SearchState
  <2>12. \A i \in DOMAIN w.stack : i \in DOMAIN s.stack /\ w.stack[i] = s.stack[i]
    BY <2>2, <2>3, <2>4, <2>10
  <2>13. Takes(A, s, d, w)
    BY <1>2, <2>7, <2>8, <2>10, <2>12 DEF Takes, Stacked, found
  <2> QED
    BY <2>10, <2>11, <2>13 DEF w
<1> QED
  BY <1>1, <1>2

\* The innermost call ends, and its caller takes its low link.
Ends(A, s, d, w) ==
    /\ Takes(A, s, d, w)
    /\ Len(w.calls) = Len(s.calls) - 1 /\ \A i \in 1..Len(w.calls) : w.calls[i] = s.calls[i]
    /\ DOMAIN w.info = DOMAIN s.info
    /\ \A x \in DOMAIN s.info : Index(w, x) = Index(s, x)
    /\ Len(s.calls) = 1 => \A x \in DOMAIN s.info : LowLink(w, x) = LowLink(s, x)
    /\ Len(s.calls) > 1 => \A x \in DOMAIN s.info :
          LowLink(w, x) = IF x = s.calls[Len(s.calls) - 1].class /\ LowLink(s, d) < LowLink(s, x)
                          THEN LowLink(s, d) ELSE LowLink(s, x)

\* The end of a call does as Ends says.
LEMMA ReturnMakes ==
    ASSUME NEW N, NEW A, IsGraph(N, A), NEW s \in SearchState(N), InOrder(s), NEW d \in Stacked(s),
           s.calls # <<>>, \A i \in DOMAIN s.calls : s.calls[i].class \in DOMAIN s.info
    PROVE  Return(s, d, A) \in SearchState(N) /\ Ends(A, s, d, Return(s, d, A))
<1> DEFINE c == Component(s, d, A)
           L == Len(s.calls)
           calls == SubSeq(s.calls, 1, L - 1)
           r == [c EXCEPT !.calls = calls]
           w == Return(s, d, A)
<1>1. c \in SearchState(N) /\ Takes(A, s, d, c) /\ c.info = s.info /\ c.calls = s.calls
  BY ComponentMakes
<1>2. /\ s.calls \in Seq(Frame(N)) /\ L \in Nat /\ L # 0 /\ DOMAIN s.calls = 1..L
  BY EmptySeq, StateParts
<1>3. w = IF r.calls = <<>> THEN r ELSE Low(r, Innermost(r).class, r.info[d].low)
  BY <1>1 DEF Return
<1> HIDE DEF c, L, w
<1>4. /\ calls \in Seq(Frame(N)) /\ Len(calls) = L - 1 /\ DOMAIN calls = 1..(L - 1)
      /\ \A i \in 1..(L - 1) : calls[i] = s.calls[i]
  <2>1. L = Len(s.calls)
    BY DEF L
  <2> QED
    BY ONLY <1>2, <2>1
<1> HIDE DEF calls
<1>5. /\ r.info = s.info /\ r.stack = c.stack /\ r.found = c.found /\ r.calls = calls
      /\ r = [info |-> s.info, stack |-> c.stack, found |-> c.found, calls |-> calls]
  BY ONLY SMTT(30), <1>1 DEF SearchState
<1>6. r \in SearchState(N)
  BY <1>1, <1>4, <1>5 DEF SearchState
<1> HIDE DEF r
<1>7. d \in DOMAIN s.info /\ \A x \in DOMAIN s.info : LowLink(s, x) \in Nat /\ Index(s, x) \in Nat
  BY StateParts DEF InOrder
<1>8. Takes(A, s, d, r)
  BY <1>1, <1>5 DEF Takes, Stacked
<1>9. \A x \in DOMAIN s.info : Index(r, x) = Index(s, x) /\ LowLink(r, x) = LowLink(s, x)
  BY <1>5 DEF Index, LowLink
<1>10. CASE L = 1
  <2>1. calls = <<>>
    BY <1>4, <1>10, EmptySeq
  <2>2. w = r
    BY <1>3, <1>5, <2>1
  <2>3. Ends(A, s, d, r)
    BY <1>4, <1>5, <1>8, <1>9, <1>10 DEF Ends, L
  <2> QED
    BY <1>6, <2>2, <2>3 DEF w
<1>11. CASE L > 1
  <2> DEFINE p == s.calls[L - 1].class
  <2>0. L - 1 \in 1..(L - 1) /\ L # 1
    BY <1>2, <1>11
  <2>1. r.calls # <<>> /\ Innermost(r).class = p
    BY <1>4, <1>5, <2>0 DEF Innermost
  <2>2. w = Low(r, p, LowLink(s, d))
    BY <1>3, <1>5, <2>1 DEF LowLink
  <2>3. p \in DOMAIN r.info
    BY <1>2, <1>5, <2>0
  <2> HIDE DEF p
  <2>4. w \in SearchState(N) /\ Lowers(r, p, LowLink(s, d), w)
    BY <1>6, <1>7, <2>2, <2>3, LowMakes
  <2>5. Takes(A, s, d, w)
    BY <1>8, <2>4 DEF Takes, Stacked, Lowers
  <2>6. \A x \in DOMAIN s.info :
           LowLink(w, x) = IF x = p /\ LowLink(s, d) < LowLink(s, x)
                           THEN LowLink(s, d) ELSE LowLink(s, x)
    BY <1>5, <1>9, <2>3, <2>4 DEF Lowers
  <2>7. /\ DOMAIN w.info = DOMAIN s.info /\ \A x \in DOMAIN s.info : Index(w, x) = Index(s, x)
        /\ w.calls = calls
    BY <1>5, <1>9, <2>4 DEF Lowers
  <2>8. Ends(A, s, d, w)
    BY <1>4, <2>0, <2>5, <2>6, <2>7 DEF Ends, p, L
  <2> QED
    BY <2>4, <2>8 DEF w
<1>12. L = 1 \/ L > 1
  BY <1>2
<1> QED
  BY <1>10, <1>11, <1>12
-----------------------------------------------------------------------------
\* What holds of the search after every turn.  Low links are at most indices,
\* and these number the classes in the order they were seen.
Numbered(s) ==
    \A c \in DOMAIN s.info : Index(s, c) < Cardinality(DOMAIN s.info) /\ LowLink(s, c) <= Index(s, c)

\* The calls are about classes on the stack, each seen after its caller's and
\* because of an edge from it.
Calling(A, s) ==
    /\ \A i \in DOMAIN s.calls :
          s.calls[i].class \in Stacked(s) /\ s.calls[i].rest \subseteq A[s.calls[i].class]
    /\ \A i, j \in DOMAIN s.calls : i < j =>
          /\ Index(s, s.calls[i].class) < Index(s, s.calls[j].class)
          /\ j = i + 1 => s.calls[j].class \in A[s.calls[i].class]

\* A low link is the index of a class on the stack that edges lead to.
LowIsReached(A, s) ==
    \A x \in Stacked(s) : \E z \in Stacked(s) : Index(s, z) = LowLink(s, x) /\ z \in Reach(A, x)

\* A class on the stack whose call has returned reaches one seen before it.
LeftLower(s) == \A x \in Stacked(s) \ Called(s) : LowLink(s, x) < Index(s, x)

\* A class on the stack was seen during the call of the last class on it to
\* have been called before, which leads to it and to as low a class.
UnderCall(A, s) ==
    \A x \in Stacked(s) : \E i \in DOMAIN s.calls :
        /\ Index(s, s.calls[i].class) <= Index(s, x) /\ x \in Reach(A, s.calls[i].class)
        /\ LowLink(s, s.calls[i].class) <= LowLink(s, x)
        /\ \A j \in DOMAIN s.calls : i < j => Index(s, x) < Index(s, s.calls[j].class)

\* The components found are those of the classes done with, where edges lead
\* back to these.
Founds(A, s) ==
    /\ \A x \in Done(s) : Cyclic(A, x) => Strongly(A, x) \in s.found
    /\ \A C \in s.found : \E x \in Done(s) : Cyclic(A, x) /\ C = Strongly(A, x)

\* Every edge a call has looked at leads to a class seen, and to none on the
\* stack before the low link; but for one edge, while a call is looking at it.
LookedAtBut(A, s, c, n) ==
    \A x \in Stacked(s) : \A y \in A[x] :
        ~Pending(s, x, y) /\ (x # c \/ y # n) =>
            y \in DOMAIN s.info /\ (y \in Stacked(s) => LowLink(s, x) <= Index(s, y))
LookedAt(A, s) ==
    \A x \in Stacked(s) : \A y \in A[x] : ~Pending(s, x, y) =>
        y \in DOMAIN s.info /\ (y \in Stacked(s) => LowLink(s, x) <= Index(s, y))

Searched(A, s) ==
    /\ s \in SearchState(DOMAIN A)
    /\ Numbered(s) /\ InOrder(s) /\ Calling(A, s) /\ ClosedIn(A, Done(s))
    /\ LowIsReached(A, s) /\ LeftLower(s) /\ UnderCall(A, s) /\ Founds(A, s)

\* A visit of a class nobody has seen, in the innermost call if there is one.
LEMMA VisitKeeps ==
    ASSUME NEW N, NEW A, IsGraph(N, A), NEW s, Searched(A, s), NEW d \in N \ DOMAIN s.info,
           NEW w, w \in SearchState(N), Visits(A, s, d, w),
           NEW c, LookedAtBut(A, s, c, d),
           s.calls # <<>> => d \in A[Innermost(s).class]
    PROVE  Searched(A, w) /\ LookedAt(A, w)
<1> DEFINE L == Len(s.calls)
           k == Cardinality(DOMAIN s.info)
<1>1. DOMAIN A = N /\ \A x \in N : A[x] \in SUBSET N
  BY DEF IsGraph
<1>2. /\ s \in SearchState(N) /\ Numbered(s) /\ InOrder(s) /\ Calling(A, s) /\ ClosedIn(A, Done(s))
      /\ LowIsReached(A, s) /\ LeftLower(s) /\ UnderCall(A, s) /\ Founds(A, s)
  BY <1>1 DEF Searched
<1>3. /\ DOMAIN s.info \in SUBSET N /\ Stacked(s) \in SUBSET N
      /\ \A x \in DOMAIN s.info : Index(s, x) \in Nat /\ LowLink(s, x) \in Nat
      /\ s.stack \in Seq(N) /\ DOMAIN s.stack = 1..Len(s.stack) /\ Len(s.stack) \in Nat
      /\ s.calls \in Seq(Frame(N)) /\ DOMAIN s.calls = 1..L /\ L \in Nat
      /\ \A i \in DOMAIN s.calls : s.calls[i].class \in N /\ s.calls[i].rest \in SUBSET N
  BY <1>2, StateParts
<1>4. IsFiniteSet(DOMAIN s.info) /\ k \in Nat /\ Cardinality(DOMAIN s.info \cup {d}) = k + 1
  BY <1>3, FS_Subset, FS_CardinalityType, FS_AddElement DEF IsGraph
<1>5. /\ DOMAIN w.info = DOMAIN s.info \cup {d} /\ w.found = s.found
      /\ \A x \in DOMAIN s.info : Index(w, x) = Index(s, x) /\ LowLink(w, x) = LowLink(s, x)
      /\ Index(w, d) = k /\ LowLink(w, d) = k
      /\ \A x \in DOMAIN s.info : Index(s, x) < k /\ LowLink(s, x) <= Index(s, x)
  BY <1>2 DEF Visits, Numbered
<1>6. /\ DOMAIN w.stack = 1..(Len(s.stack) + 1) /\ w.stack[Len(s.stack) + 1] = d
      /\ \A i \in 1..Len(s.stack) : w.stack[i] = s.stack[i]
  <2>1. w.stack = Append(s.stack, d) /\ s.stack \in Seq(N) /\ d \in N
    BY <1>3 DEF Visits
  <2> QED
    BY ONLY <2>1
<1>7. Stacked(w) = Stacked(s) \cup {d} /\ Stacked(s) \subseteq DOMAIN s.info
  BY SMTT(30), <1>2, <1>3, <1>6 DEF Stacked, Range, InOrder
<1>8. /\ DOMAIN w.calls = 1..(L + 1) /\ w.calls[L + 1] = [class |-> d, rest |-> A[d]]
      /\ \A i \in 1..L : w.calls[i] = s.calls[i]
  <2>1. [class |-> d, rest |-> A[d]] \in Frame(N)
    BY <1>1 DEF Frame
  <2>2. w.calls = Append(s.calls, [class |-> d, rest |-> A[d]]) /\ s.calls \in Seq(Frame(N)) /\ L = Len(s.calls)
    BY <1>3 DEF Visits
  <2> QED
    BY ONLY <2>1, <2>2
<1>9. /\ w.calls[L + 1].class = d /\ w.calls[L + 1].rest = A[d]
      /\ Called(w) = Called(s) \cup {d}
  BY SMTT(30), <1>3, <1>8 DEF Called
<1>10. \A x, y : Pending(s, x, y) => Pending(w, x, y)
  BY <1>3, <1>8 DEF Pending
<1>11. Done(w) = Done(s)
  BY <1>5, <1>7 DEF Done
<1> HIDE DEF L, k
<1>12. Numbered(w)
  BY <1>3, <1>4, <1>5 DEF Numbered
<1>13. InOrder(w)
  <2> SUFFICES ASSUME NEW i \in DOMAIN w.stack, NEW j \in DOMAIN w.stack, i < j
               PROVE  Index(w, w.stack[i]) < Index(w, w.stack[j])
    BY <1>5, <1>7 DEF InOrder
  <2>1. i \in 1..Len(s.stack) /\ s.stack[i] \in DOMAIN s.info
    BY <1>2, <1>3, <1>6 DEF InOrder, Stacked, Range
  <2>2. CASE j = Len(s.stack) + 1
    BY <1>5, <1>6, <2>1, <2>2
  <2>3. CASE j # Len(s.stack) + 1
    <3>1. j \in 1..Len(s.stack) /\ s.stack[j] \in DOMAIN s.info
      BY <1>2, <1>3, <1>6, <2>3 DEF InOrder, Stacked, Range
    <3> QED
      BY <1>2, <1>3, <1>5, <1>6, <2>1, <3>1 DEF InOrder
  <2> QED
    BY <2>2, <2>3
<1>14. \A i \in 1..L : s.calls[i].class \in Stacked(s) /\ s.calls[i].class \in DOMAIN s.info
  BY <1>2, <1>3, <1>7 DEF Calling
<1>21. \A i \in 1..L : /\ w.calls[i].class = s.calls[i].class
                        /\ Index(w, w.calls[i].class) = Index(s, s.calls[i].class)
                        /\ LowLink(w, w.calls[i].class) = LowLink(s, s.calls[i].class)
  <2> TAKE i \in 1..L
  <2>1. w.calls[i] = s.calls[i]
    BY <1>8
  <2>2. s.calls[i].class \in DOMAIN s.info
    BY <1>14
  <2> QED
    BY <1>5, <2>1, <2>2
<1>22. \A i \in DOMAIN w.calls : i # L + 1 => i \in 1..L
  BY <1>3, <1>8
<1>23. \A i \in 1..L : i \in DOMAIN w.calls /\ i \in DOMAIN s.calls /\ i < L + 1
  BY <1>3, <1>8
<1>24. \A i, j \in DOMAIN w.calls : i < j => i \in 1..L
  BY <1>3, <1>8
<1>15. Calling(A, w)
  <2>1. \A i \in DOMAIN w.calls :
           w.calls[i].class \in Stacked(w) /\ w.calls[i].rest \subseteq A[w.calls[i].class]
    <3> TAKE i \in DOMAIN w.calls
    <3>1. CASE i = L + 1
      BY <1>7, <1>9, <3>1
    <3>2. CASE i # L + 1
      <4>1. i \in 1..L
        BY <1>3, <1>8, <3>2
      <4> QED
        BY <1>2, <1>3, <1>7, <1>8, <4>1 DEF Calling
    <3> QED
      BY <3>1, <3>2
  <2>2. ASSUME NEW i \in DOMAIN w.calls, NEW j \in DOMAIN w.calls, i < j
        PROVE  /\ Index(w, w.calls[i].class) < Index(w, w.calls[j].class)
               /\ j = i + 1 => w.calls[j].class \in A[w.calls[i].class]
    <3>1. /\ i \in 1..L /\ w.calls[i].class = s.calls[i].class
          /\ Index(w, w.calls[i].class) = Index(s, s.calls[i].class)
      BY <1>21, <1>24, <2>2
    <3>2. CASE j = L + 1
      <4>1. j = i + 1 => i = L
        BY <1>3, <3>1, <3>2
      <4>2. s.calls # <<>>
        BY <1>3, <3>1
      <4>3. j = i + 1 => d \in A[s.calls[i].class]
        BY <4>1, <4>2 DEF Innermost, L
      <4> QED
        BY <1>5, <1>9, <1>14, <3>1, <3>2, <4>3
    <3>3. CASE j # L + 1
      <4>1. /\ j \in 1..L /\ w.calls[j].class = s.calls[j].class
            /\ Index(w, w.calls[j].class) = Index(s, s.calls[j].class)
        BY <1>21, <1>22, <3>3
      <4> QED
        BY <1>2, <1>3, <2>2, <3>1, <4>1 DEF Calling
    <3> QED
      BY <3>2, <3>3
  <2> QED
    BY <2>1, <2>2 DEF Calling
<1>16. LowIsReached(A, w)
  <2> SUFFICES ASSUME NEW x \in Stacked(w)
               PROVE  \E z \in Stacked(w) : Index(w, z) = LowLink(w, x) /\ z \in Reach(A, x)
    BY DEF LowIsReached
  <2>1. CASE x = d
    BY <1>5, <1>7, <2>1, ReachIsLeast
  <2>2. CASE x # d
    <3>1. x \in Stacked(s) /\ LowLink(w, x) = LowLink(s, x)
      BY <1>5, <1>7, <2>2
    <3>2. PICK z \in Stacked(s) : Index(s, z) = LowLink(s, x) /\ z \in Reach(A, x)
      BY <1>2, <3>1 DEF LowIsReached
    <3>3. Index(w, z) = Index(s, z)
      BY <1>5, <1>7
    <3> QED
      BY <1>7, <3>1, <3>2, <3>3
  <2> QED
    BY <2>1, <2>2
<1>17. LeftLower(w)
  BY <1>2, <1>5, <1>7, <1>9 DEF LeftLower
<1>18. UnderCall(A, w)
  <2> SUFFICES ASSUME NEW x \in Stacked(w)
               PROVE  \E i \in DOMAIN w.calls :
                         /\ Index(w, w.calls[i].class) <= Index(w, x)
                         /\ x \in Reach(A, w.calls[i].class)
                         /\ LowLink(w, w.calls[i].class) <= LowLink(w, x)
                         /\ \A j \in DOMAIN w.calls : i < j => Index(w, x) < Index(w, w.calls[j].class)
    BY DEF UnderCall
  <2>1. CASE x = d
    <3>1. L + 1 \in DOMAIN w.calls /\ d \in Reach(A, d)
      BY <1>3, <1>8, ReachIsLeast
    <3>2. \A j \in DOMAIN w.calls : ~(L + 1 < j)
      BY <1>3, <1>8
    <3> QED
      BY <1>4, <1>5, <1>9, <2>1, <3>1, <3>2
  <2>2. CASE x # d
    <3>1. x \in Stacked(s) /\ x \in DOMAIN s.info
      BY <1>7, <2>2
    <3>2. PICK i \in DOMAIN s.calls :
             /\ Index(s, s.calls[i].class) <= Index(s, x) /\ x \in Reach(A, s.calls[i].class)
             /\ LowLink(s, s.calls[i].class) <= LowLink(s, x)
             /\ \A j \in DOMAIN s.calls : i < j => Index(s, x) < Index(s, s.calls[j].class)
      BY <1>2, <3>1 DEF UnderCall
    <3>3. /\ i \in DOMAIN w.calls /\ w.calls[i].class = s.calls[i].class
          /\ Index(w, w.calls[i].class) = Index(s, s.calls[i].class)
          /\ LowLink(w, w.calls[i].class) = LowLink(s, s.calls[i].class)
      BY <1>3, <1>21, <1>23
    <3>4. ASSUME NEW j \in DOMAIN w.calls, i < j PROVE Index(w, x) < Index(w, w.calls[j].class)
      <4>1. CASE j = L + 1
        BY <1>5, <1>9, <3>1, <4>1
      <4>2. CASE j # L + 1
        <5>1. j \in 1..L /\ Index(w, w.calls[j].class) = Index(s, s.calls[j].class)
          BY <1>21, <1>22, <4>2
        <5> QED
          BY <1>3, <1>5, <3>1, <3>2, <3>4, <5>1
      <4> QED
        BY <4>1, <4>2
    <3> QED
      BY <1>5, <3>1, <3>2, <3>3, <3>4
  <2> QED
    BY <2>1, <2>2
<1>19. Founds(A, w)
  BY <1>2, <1>5, <1>11 DEF Founds
<1>20. LookedAt(A, w)
  <2> SUFFICES ASSUME NEW x \in Stacked(w), NEW y \in A[x], ~Pending(w, x, y)
               PROVE  y \in DOMAIN w.info /\ (y \in Stacked(w) => LowLink(w, x) <= Index(w, y))
    BY DEF LookedAt
  <2>1. x # d
    <3>1. L + 1 \in DOMAIN w.calls
      BY <1>3, <1>8
    <3> QED
      BY <1>9, <3>1 DEF Pending
  <2>2. x \in Stacked(s) /\ x \in DOMAIN s.info /\ ~Pending(s, x, y)
    BY <1>7, <1>10, <2>1
  <2>3. CASE y = d
    BY <1>3, <1>4, <1>5, <2>2, <2>3
  <2>4. CASE y # d
    <3>1. y \in DOMAIN s.info /\ (y \in Stacked(s) => LowLink(s, x) <= Index(s, y))
      BY <2>2, <2>4 DEF LookedAtBut
    <3> QED
      BY <1>5, <1>7, <2>2, <2>4, <3>1
  <2> QED
    BY <2>3, <2>4
<1> QED
  BY <1>1, <1>2, <1>11, <1>12, <1>13, <1>15, <1>16, <1>17, <1>18, <1>19, <1>20 DEF Searched

\* What the lemmas below use of a state of the search, part by part.
LEMMA SearchedParts ==
    ASSUME NEW N, NEW A, IsGraph(N, A), NEW s, Searched(A, s)
    PROVE  /\ DOMAIN A = N /\ s \in SearchState(N)
           /\ Stacked(s) \in SUBSET DOMAIN s.info /\ DOMAIN s.info \in SUBSET N
           /\ \A x \in DOMAIN s.info : /\ Index(s, x) \in Nat /\ LowLink(s, x) \in Nat
                                       /\ LowLink(s, x) <= Index(s, x)
           /\ Len(s.calls) \in Nat /\ DOMAIN s.calls = 1..Len(s.calls)
           /\ \A i \in 1..Len(s.calls) :
                 s.calls[i].class \in Stacked(s) /\ s.calls[i].rest \subseteq A[s.calls[i].class]
           /\ \A i, j \in 1..Len(s.calls) : i < j =>
                 /\ Index(s, s.calls[i].class) < Index(s, s.calls[j].class)
                 /\ s.calls[i].class # s.calls[j].class
           /\ s.calls # <<>> => /\ Len(s.calls) \in 1..Len(s.calls)
                                /\ Innermost(s) = s.calls[Len(s.calls)]
<1>1. DOMAIN A = N
  BY DEF IsGraph
<1>2. /\ s \in SearchState(N) /\ Numbered(s) /\ InOrder(s) /\ Calling(A, s)
  BY <1>1 DEF Searched
<1>3. /\ DOMAIN s.info \in SUBSET N /\ Stacked(s) \in SUBSET N
      /\ \A x \in DOMAIN s.info : Index(s, x) \in Nat /\ LowLink(s, x) \in Nat
      /\ s.calls \in Seq(Frame(N)) /\ DOMAIN s.calls = 1..Len(s.calls) /\ Len(s.calls) \in Nat
  BY <1>2, StateParts
<1>4. Stacked(s) \in SUBSET DOMAIN s.info
  BY <1>2, <1>3 DEF InOrder
<1>5. \A x \in DOMAIN s.info : LowLink(s, x) <= Index(s, x)
  BY <1>2 DEF Numbered
<1>6. \A i \in 1..Len(s.calls) :
         s.calls[i].class \in Stacked(s) /\ s.calls[i].rest \subseteq A[s.calls[i].class]
  BY <1>2, <1>3 DEF Calling
<1>7. ASSUME NEW i \in 1..Len(s.calls), NEW j \in 1..Len(s.calls), i < j
      PROVE  /\ Index(s, s.calls[i].class) < Index(s, s.calls[j].class)
             /\ s.calls[i].class # s.calls[j].class
  <2>1. Index(s, s.calls[i].class) < Index(s, s.calls[j].class)
    BY <1>2, <1>3, <1>7 DEF Calling
  <2>2. Index(s, s.calls[i].class) \in Nat /\ Index(s, s.calls[j].class) \in Nat
    BY <1>3, <1>4, <1>6
  <2> QED
    BY <2>1, <2>2
<1>8. s.calls # <<>> => /\ Len(s.calls) \in 1..Len(s.calls)
                        /\ Innermost(s) = s.calls[Len(s.calls)]
  BY <1>3, EmptySeq DEF Innermost
<1> QED
  BY <1>1, <1>2, <1>3, <1>4, <1>5, <1>6, <1>7, <1>8

\* A look at n by the innermost call.
LEMMA LookKeeps ==
    ASSUME NEW N, NEW A, IsGraph(N, A), NEW s, Searched(A, s), LookedAt(A, s), s.calls # <<>>,
           NEW n, NEW w, w \in SearchState(N), Looks(s, n, w)
    PROVE  /\ Searched(A, w) /\ LookedAtBut(A, w, Innermost(s).class, n)
           /\ w.calls # <<>> /\ Innermost(w).class = Innermost(s).class
<1> DEFINE L == Len(s.calls)
           d == Innermost(s).class
<1>1. /\ DOMAIN A = N /\ s \in SearchState(N) /\ L \in Nat /\ DOMAIN s.calls = 1..L
      /\ \A i \in 1..L : s.calls[i].class \in Stacked(s) /\ s.calls[i].rest \subseteq A[s.calls[i].class]
      /\ L \in 1..L /\ Innermost(s) = s.calls[L]
  BY SearchedParts
<1>2. /\ Numbered(s) /\ InOrder(s) /\ Calling(A, s) /\ ClosedIn(A, Done(s))
      /\ LowIsReached(A, s) /\ LeftLower(s) /\ UnderCall(A, s) /\ Founds(A, s)
  BY DEF Searched
<1>3. /\ w.info = s.info /\ w.stack = s.stack /\ w.found = s.found /\ Len(w.calls) = L
      /\ \A i \in 1..L :
            /\ w.calls[i].class = s.calls[i].class
            /\ w.calls[i].rest = IF i = L THEN s.calls[i].rest \ {n} ELSE s.calls[i].rest
  BY DEF Looks
<1>4. DOMAIN w.calls = 1..L
  BY <1>3, StateParts
<1>5. /\ \A x : Index(w, x) = Index(s, x) /\ LowLink(w, x) = LowLink(s, x)
      /\ Stacked(w) = Stacked(s) /\ Done(w) = Done(s)
  BY <1>3 DEF Index, LowLink, Stacked, Done
<1>6. Called(w) = Called(s)
  <2>1. \A i \in 1..L : w.calls[i].class = s.calls[i].class
    BY <1>3
  <2>2. /\ Called(w) = {w.calls[i].class : i \in 1..L}
        /\ Called(s) = {s.calls[i].class : i \in 1..L}
    BY <1>1, <1>4 DEF Called
  <2> HIDE DEF L
  <2> QED
    BY <2>1, <2>2
<1>7. w.calls # <<>> /\ Innermost(w).class = d
  <2>1. L # 0
    BY <1>1
  <2>2. Innermost(w) = w.calls[L] /\ w.calls[L].class = s.calls[L].class
    BY <1>1, <1>3 DEF Innermost
  <2>3. Len(w.calls) # 0
    BY <1>3, <2>1
  <2> QED
    BY <1>1, <2>2, <2>3
<1> HIDE DEF L, d
<1>8. Numbered(w) /\ InOrder(w) /\ Founds(A, w) /\ LowIsReached(A, w) /\ LeftLower(w)
  <2>1. Numbered(w) /\ InOrder(w)
    BY <1>2, <1>3, <1>5 DEF Numbered, InOrder
  <2>2. Founds(A, w)
    BY <1>2, <1>3, <1>5 DEF Founds
  <2>3. LowIsReached(A, w) /\ LeftLower(w)
    BY <1>2, <1>5, <1>6 DEF LowIsReached, LeftLower
  <2> QED
    BY <2>1, <2>2, <2>3
<1>9. Calling(A, w)
  <2>1. \A i \in 1..L : w.calls[i].rest \subseteq s.calls[i].rest
    BY <1>3
  <2>2. \A i, j \in 1..L : i < j =>
           /\ Index(s, s.calls[i].class) < Index(s, s.calls[j].class)
           /\ j = i + 1 => s.calls[j].class \in A[s.calls[i].class]
    BY <1>1, <1>2 DEF Calling
  <2>3. \A i \in 1..L : w.calls[i].class = s.calls[i].class
    BY <1>3
  <2> QED
    BY <1>1, <1>4, <1>5, <2>1, <2>2, <2>3 DEF Calling
<1>10. UnderCall(A, w)
  <2> SUFFICES ASSUME NEW x \in Stacked(s)
               PROVE  \E i \in 1..L :
                         /\ Index(w, w.calls[i].class) <= Index(w, x)
                         /\ x \in Reach(A, w.calls[i].class)
                         /\ LowLink(w, w.calls[i].class) <= LowLink(w, x)
                         /\ \A j \in 1..L : i < j => Index(w, x) < Index(w, w.calls[j].class)
    BY <1>4, <1>5 DEF UnderCall
  <2>1. \A i \in 1..L : w.calls[i].class = s.calls[i].class
    BY <1>3
  <2>2. PICK i \in 1..L :
           /\ Index(s, s.calls[i].class) <= Index(s, x) /\ x \in Reach(A, s.calls[i].class)
           /\ LowLink(s, s.calls[i].class) <= LowLink(s, x)
           /\ \A j \in 1..L : i < j => Index(s, x) < Index(s, s.calls[j].class)
    BY <1>1, <1>2 DEF UnderCall
  <2>3. \A j \in 1..L : i < j => Index(w, x) < Index(w, w.calls[j].class)
    BY <1>5, <2>1, <2>2
  <2>4. w.calls[i].class = s.calls[i].class
    BY <2>1
  <2> QED
    BY <1>5, <2>2, <2>3, <2>4
<1>11. LookedAtBut(A, w, d, n)
  <2> SUFFICES ASSUME NEW x \in Stacked(w), NEW y \in A[x], ~Pending(w, x, y), x # d \/ y # n
               PROVE  y \in DOMAIN w.info /\ (y \in Stacked(w) => LowLink(w, x) <= Index(w, y))
    BY DEF LookedAtBut
  <2>1. ~Pending(s, x, y)
    <3> SUFFICES ASSUME NEW i \in DOMAIN s.calls, s.calls[i].class = x, y \in s.calls[i].rest
                 PROVE  FALSE
      BY DEF Pending
    <3>1. i \in 1..L /\ w.calls[i].class = x /\ y \notin w.calls[i].rest
      BY <1>1, <1>3, <1>4 DEF Pending
    <3>2. i = L /\ y = n
      BY <1>3, <3>1
    <3> QED
      BY <1>1, <3>2 DEF d
  <2> QED
    BY <1>3, <1>5, <2>1 DEF LookedAt
<1> QED
  BY <1>1, <1>2, <1>5, <1>7, <1>8, <1>9, <1>10, <1>11 DEF Searched, d

\* The innermost call takes the index of a class on the stack it has looked at.
LEMMA LowerKeeps ==
    ASSUME NEW N, NEW A, IsGraph(N, A), NEW s, Searched(A, s), s.calls # <<>>,
           NEW c, c = Innermost(s).class, NEW n \in Stacked(s), n \in A[c], LookedAtBut(A, s, c, n),
           NEW w, w \in SearchState(N), Lowers(s, c, Index(s, n), w)
    PROVE  Searched(A, w) /\ LookedAt(A, w)
<1> DEFINE L == Len(s.calls)
<1>1. /\ DOMAIN A = N /\ s \in SearchState(N) /\ L \in Nat /\ DOMAIN s.calls = 1..L
      /\ Stacked(s) \in SUBSET DOMAIN s.info /\ DOMAIN s.info \in SUBSET N
      /\ \A x \in DOMAIN s.info : /\ Index(s, x) \in Nat /\ LowLink(s, x) \in Nat
                                  /\ LowLink(s, x) <= Index(s, x)
      /\ \A i \in 1..L : s.calls[i].class \in Stacked(s)
      /\ L \in 1..L /\ c = s.calls[L].class
  BY SearchedParts
<1>2. /\ Numbered(s) /\ InOrder(s) /\ Calling(A, s) /\ ClosedIn(A, Done(s))
      /\ LowIsReached(A, s) /\ LeftLower(s) /\ UnderCall(A, s) /\ Founds(A, s)
  BY DEF Searched
<1>3. /\ DOMAIN w.info = DOMAIN s.info
      /\ w.stack = s.stack /\ w.calls = s.calls /\ w.found = s.found
      /\ \A x \in DOMAIN s.info : /\ Index(w, x) = Index(s, x)
                                  /\ x # c => LowLink(w, x) = LowLink(s, x)
      /\ LowLink(w, c) = IF Index(s, n) < LowLink(s, c) THEN Index(s, n) ELSE LowLink(s, c)
  BY DEF Lowers
<1>4. Stacked(w) = Stacked(s) /\ Done(w) = Done(s) /\ Called(w) = Called(s) /\ c \in Stacked(s)
  BY <1>1, <1>3 DEF Stacked, Done, Called
<1>5. /\ c \in DOMAIN s.info /\ n \in DOMAIN s.info
      /\ LowLink(w, c) <= LowLink(s, c) /\ LowLink(w, c) <= Index(s, n)
      /\ \A x \in DOMAIN s.info : LowLink(w, x) <= LowLink(s, x) /\ LowLink(w, x) \in Nat
  BY <1>1, <1>3, <1>4
<1> HIDE DEF L
<1>6. Numbered(w) /\ InOrder(w) /\ Founds(A, w)
  <2>1. Numbered(w)
    <3> SUFFICES ASSUME NEW x \in DOMAIN s.info
                 PROVE  Index(w, x) < Cardinality(DOMAIN s.info) /\ LowLink(w, x) <= Index(w, x)
      BY <1>3 DEF Numbered
    <3>1. Index(s, x) < Cardinality(DOMAIN s.info)
      BY <1>2 DEF Numbered
    <3>2. Index(w, x) = Index(s, x)
      BY <1>3
    <3> QED
      BY <1>1, <1>5, <3>1, <3>2
  <2>2. InOrder(w)
    <3>1. \A i \in DOMAIN s.stack : s.stack[i] \in DOMAIN s.info
      BY <1>1 DEF Stacked, Range
    <3> QED
      BY <1>2, <1>3, <1>4, <3>1 DEF InOrder
  <2>3. Founds(A, w)
    BY <1>2, <1>3, <1>4 DEF Founds
  <2> QED
    BY <2>1, <2>2, <2>3
<1>7. \A i \in 1..L : Index(w, s.calls[i].class) = Index(s, s.calls[i].class)
  BY <1>1, <1>3
<1>8. Calling(A, w)
  <2>1. \A i, j \in 1..L : i < j =>
           /\ Index(s, s.calls[i].class) < Index(s, s.calls[j].class)
           /\ j = i + 1 => s.calls[j].class \in A[s.calls[i].class]
    BY <1>1, <1>2 DEF Calling
  <2>2. \A i \in 1..L : s.calls[i].class \in Stacked(s) /\ s.calls[i].rest \subseteq A[s.calls[i].class]
    BY <1>1, <1>2 DEF Calling
  <2> QED
    BY <1>1, <1>3, <1>4, <1>7, <2>1, <2>2 DEF Calling
<1>9. LowIsReached(A, w)
  <2> SUFFICES ASSUME NEW x \in Stacked(s)
               PROVE  \E z \in Stacked(s) : Index(w, z) = LowLink(w, x) /\ z \in Reach(A, x)
    BY <1>4 DEF LowIsReached
  <2>1. CASE x = c /\ Index(s, n) < LowLink(s, c)
    <3>1. Index(w, n) = LowLink(w, x)
      BY <1>3, <1>5, <2>1
    <3>2. n \in Reach(A, x)
      BY <1>1, <2>1, ReachIsLeast
    <3> QED
      BY <3>1, <3>2
  <2>2. CASE ~(x = c /\ Index(s, n) < LowLink(s, c))
    <3>1. LowLink(w, x) = LowLink(s, x)
      BY <1>1, <1>3, <2>2
    <3>2. PICK z \in Stacked(s) : Index(s, z) = LowLink(s, x) /\ z \in Reach(A, x)
      BY <1>2 DEF LowIsReached
    <3> QED
      BY <1>1, <1>3, <3>1, <3>2
  <2> QED
    BY <2>1, <2>2
<1>10. LeftLower(w)
  <2> SUFFICES ASSUME NEW x \in Stacked(s) \ Called(s) PROVE LowLink(w, x) < Index(w, x)
    BY <1>4 DEF LeftLower
  <2>1. x # c
    BY <1>1 DEF Called
  <2> QED
    BY <1>1, <1>2, <1>3, <2>1 DEF LeftLower
<1>11. UnderCall(A, w)
  <2> SUFFICES ASSUME NEW x \in Stacked(s)
               PROVE  \E i \in 1..L :
                         /\ Index(w, s.calls[i].class) <= Index(w, x)
                         /\ x \in Reach(A, s.calls[i].class)
                         /\ LowLink(w, s.calls[i].class) <= LowLink(w, x)
                         /\ \A j \in 1..L : i < j => Index(w, x) < Index(w, s.calls[j].class)
    BY <1>1, <1>3, <1>4 DEF UnderCall
  <2>1. PICK i \in 1..L :
           /\ Index(s, s.calls[i].class) <= Index(s, x) /\ x \in Reach(A, s.calls[i].class)
           /\ LowLink(s, s.calls[i].class) <= LowLink(s, x)
           /\ \A j \in 1..L : i < j => Index(s, x) < Index(s, s.calls[j].class)
    BY <1>1, <1>2 DEF UnderCall
  <2>2. x \in DOMAIN s.info /\ Index(w, x) = Index(s, x) /\ s.calls[i].class \in DOMAIN s.info
    BY <1>1, <1>3
  <2>3. LowLink(w, s.calls[i].class) <= LowLink(w, x)
    <3>1. CASE x = c
      <4>1. ~(i < L)
        <5> SUFFICES ASSUME i < L PROVE FALSE
          OBVIOUS
        <5>1. Index(s, x) < Index(s, x)
          BY <1>1, <2>1, <3>1
        <5> QED
          BY <1>1, <2>2, <5>1
      <4>2. i = L
        BY <1>1, <4>1
      <4> QED
        BY <1>1, <1>5, <3>1, <4>2
    <3>2. CASE x # c
      <4>1. LowLink(w, x) = LowLink(s, x) /\ LowLink(w, s.calls[i].class) <= LowLink(s, s.calls[i].class)
        BY <1>3, <1>5, <2>2, <3>2
      <4> QED
        BY <1>1, <1>5, <2>1, <2>2, <4>1
    <3> QED
      BY <3>1, <3>2
  <2> QED
    BY <1>7, <2>1, <2>2, <2>3
<1>12. LookedAt(A, w)
  <2> SUFFICES ASSUME NEW x \in Stacked(s), NEW y \in A[x], ~Pending(s, x, y)
               PROVE  y \in DOMAIN s.info /\ (y \in Stacked(s) => LowLink(w, x) <= Index(w, y))
    BY <1>3, <1>4 DEF LookedAt, Pending
  <2>1. CASE x = c /\ y = n
    BY <1>3, <1>5, <2>1
  <2>2. CASE ~(x = c /\ y = n)
    <3>1. y \in DOMAIN s.info /\ (y \in Stacked(s) => LowLink(s, x) <= Index(s, y))
      BY <2>2 DEF LookedAtBut
    <3>2. LowLink(w, x) <= LowLink(s, x) /\ LowLink(w, x) \in Nat /\ x \in DOMAIN s.info
      BY <1>1, <1>5
    <3> QED
      BY <1>1, <1>3, <3>1, <3>2
  <2> QED
    BY <2>1, <2>2
<1> QED
  BY <1>1, <1>2, <1>4, <1>6, <1>8, <1>9, <1>10, <1>11, <1>12 DEF Searched
-----------------------------------------------------------------------------
\* Of two classes that reach each other, each reaches what the other does.
LEMMA StronglyShared ==
    ASSUME NEW N, NEW A, IsGraph(N, A), NEW x \in N, NEW y \in Strongly(A, x)
    PROVE  y \in N /\ x \in Strongly(A, y) /\ Strongly(A, y) = Strongly(A, x)
<1>0. y \in Reach(A, x) /\ x \in Reach(A, y)
  BY DEF Strongly
<1>01. Reach(A, x) \in SUBSET N
  BY ReachIsLeast
<1>1. y \in N /\ y \in Reach(A, x) /\ x \in Reach(A, y)
  BY <1>0, <1>01
<1>2. Reach(A, y) = Reach(A, x)
  <2>1. \A u \in Reach(A, x) : Reach(A, u) \subseteq Reach(A, x)
    BY ReachIsLeast
  <2>2. \A u \in Reach(A, y) : Reach(A, u) \subseteq Reach(A, y)
    BY <1>1, ReachIsLeast
  <2> QED
    BY <1>1, <2>1, <2>2
<1>3. \A z \in Reach(A, x) : x \in Reach(A, z) <=> y \in Reach(A, z)
  <2> TAKE z \in Reach(A, x)
  <2>1. z \in N
    BY ReachIsLeast
  <2>2. x \in Reach(A, z) => Reach(A, x) \subseteq Reach(A, z)
    BY <2>1, ReachIsLeast
  <2>3. y \in Reach(A, z) => Reach(A, y) \subseteq Reach(A, z)
    BY <2>1, ReachIsLeast
  <2> QED
    BY <1>1, <2>2, <2>3
<1> QED
  BY <1>1, <1>2, <1>3 DEF Strongly

\* Edges lead back to a class that has an edge to itself or shares its
\* component.
LEMMA CyclicIs ==
    ASSUME NEW N, NEW A, IsGraph(N, A), NEW x \in N
    PROVE  Cyclic(A, x) <=> x \in A[x] \/ \E y \in Strongly(A, x) : y # x
<1>1. /\ A[x] \in SUBSET N /\ x \in Reach(A, x) /\ A[x] \subseteq Reach(A, x)
      /\ Reach(A, x) \in SUBSET N
  BY ReachIsLeast DEF IsGraph
<1>2. x \in A[x] => Cyclic(A, x)
  BY <1>1 DEF Cyclic
<1>3. Cyclic(A, x) => x \in A[x] \/ \E y \in Strongly(A, x) : y # x
  BY <1>1 DEF Cyclic, Strongly
<1>4. ASSUME NEW y \in Strongly(A, x), y # x PROVE Cyclic(A, x)
  <2> DEFINE S == {x} \cup UNION {Reach(A, z) : z \in A[x]}
  <2>1. \A z \in A[x] : /\ Reach(A, z) \in SUBSET N /\ z \in Reach(A, z)
                        /\ ClosedIn(A, Reach(A, z))
                        /\ \A u \in Reach(A, z) : Reach(A, u) \subseteq Reach(A, z)
    BY <1>1, ReachIsLeast
  <2>2. S \in SUBSET N /\ x \in S
    BY <2>1
  <2>3. ClosedIn(A, S)
    <3> SUFFICES ASSUME NEW u \in S PROVE A[u] \subseteq S
      BY DEF ClosedIn
    <3>1. CASE u = x
      BY <2>1, <3>1
    <3>2. CASE u # x
      <4>1. PICK z \in A[x] : u \in Reach(A, z)
        BY <3>2
      <4>2. A[u] \subseteq Reach(A, z)
        BY <2>1, <4>1 DEF ClosedIn
      <4> QED
        BY <4>2
    <3> QED
      BY <3>1, <3>2
  <2>4. y \in Reach(A, x) /\ x \in Reach(A, y)
    BY DEF Strongly
  <2>5. y \in S
    <3> HIDE DEF S
    <3> QED
      BY <2>2, <2>3, <2>4, ReachIsLeast
  <2>6. PICK z \in A[x] : y \in Reach(A, z)
    BY <1>4, <2>5
  <2>7. x \in Reach(A, z)
    BY <2>1, <2>4, <2>6
  <2> QED
    BY <2>7 DEF Cyclic
<1> QED
  BY <1>2, <1>3, <1>4

\* When the innermost call ends at its own index, the classes on the stack from
\* its own on are its component, and no edge leaves those done with by then.
LEMMA AboveIsComponent ==
    ASSUME NEW N, NEW A, IsGraph(N, A), NEW s, Searched(A, s), LookedAt(A, s), s.calls # <<>>,
           NEW d, d = Innermost(s).class, Innermost(s).rest = {}, LowLink(s, d) = Index(s, d)
    PROVE  Above(s, d) = Strongly(A, d) /\ ClosedIn(A, Done(s) \cup Above(s, d))
<1> DEFINE L == Len(s.calls)
           C == Above(s, d)
<1>1. /\ DOMAIN A = N /\ s \in SearchState(N) /\ L \in Nat /\ DOMAIN s.calls = 1..L
      /\ Stacked(s) \in SUBSET DOMAIN s.info /\ DOMAIN s.info \in SUBSET N
      /\ \A x \in DOMAIN s.info : /\ Index(s, x) \in Nat /\ LowLink(s, x) \in Nat
                                  /\ LowLink(s, x) <= Index(s, x)
      /\ \A i \in 1..L : s.calls[i].class \in Stacked(s)
      /\ \A i, j \in 1..L : i < j => Index(s, s.calls[i].class) < Index(s, s.calls[j].class)
      /\ L \in 1..L /\ d = s.calls[L].class /\ s.calls[L].rest = {}
  BY SearchedParts
<1>2. /\ ClosedIn(A, Done(s)) /\ LowIsReached(A, s) /\ LeftLower(s) /\ UnderCall(A, s)
  BY DEF Searched
<1> HIDE DEF L, C
<1>3. d \in Stacked(s) /\ d \in DOMAIN s.info /\ d \in N /\ Index(s, d) \in Nat
  BY <1>1
<1>4. C \subseteq Stacked(s) /\ d \in C /\ \A x \in C : x \in N /\ x \in DOMAIN s.info /\ Index(s, d) <= Index(s, x)
  BY <1>1, <1>3 DEF Above, C
<1>5. \A i \in 1..L : Index(s, d) <= Index(s, s.calls[i].class) => i = L
  <2> SUFFICES ASSUME NEW i \in 1..L, Index(s, d) <= Index(s, s.calls[i].class), i # L PROVE FALSE
    OBVIOUS
  <2>1. i < L
    BY <1>1
  <2>2. Index(s, s.calls[i].class) < Index(s, d) /\ Index(s, s.calls[i].class) \in Nat
    BY <1>1, <2>1
  <2> QED
    BY <1>3, <2>2
<1>6. ASSUME NEW x \in C PROVE x \in Reach(A, d) /\ Index(s, d) <= LowLink(s, x)
  <2>1. PICK i \in 1..L :
           /\ Index(s, s.calls[i].class) <= Index(s, x) /\ x \in Reach(A, s.calls[i].class)
           /\ LowLink(s, s.calls[i].class) <= LowLink(s, x)
           /\ \A j \in 1..L : i < j => Index(s, x) < Index(s, s.calls[j].class)
    BY <1>1, <1>2, <1>4 DEF UnderCall
  <2>2. ~(i < L)
    <3> SUFFICES ASSUME i < L PROVE FALSE
      OBVIOUS
    <3>1. Index(s, x) < Index(s, d) /\ Index(s, d) <= Index(s, x) /\ Index(s, x) \in Nat
      BY <1>1, <1>4, <2>1
    <3> QED
      BY <1>3, <3>1
  <2>3. i = L
    BY <1>1, <2>2
  <2> QED
    BY <1>1, <2>1, <2>3
<1>7. \A x \in C : x # d => x \notin Called(s)
  <2> SUFFICES ASSUME NEW i \in 1..L, s.calls[i].class \in C PROVE s.calls[i].class = d
    BY <1>1 DEF Called
  <2> QED
    BY <1>1, <1>4, <1>5
<1>8. \A x \in C : d \in Reach(A, x)
  <2> DEFINE B == {x \in C : d \notin Reach(A, x)}
             ranks == {Index(s, x) : x \in B}
  <2> SUFFICES ASSUME B # {} PROVE FALSE
    OBVIOUS
  <2>1. ranks \in SUBSET Nat /\ ranks # {}
    BY <1>1, <1>4
  <2>2. \A m \in ranks : \E x \in B : m = Index(s, x)
    OBVIOUS
  <2>3. \A x \in B : Index(s, x) \in ranks
    OBVIOUS
  <2>4. PICK m \in ranks : \A k \in ranks : m <= k
    <3> HIDE DEF ranks
    <3> QED
      BY <2>1, LeastNumber
  <2>5. PICK x \in B : m = Index(s, x)
    BY <2>2
  <2>6. x # d
    BY <1>3, ReachIsLeast
  <2>7. LowLink(s, x) < Index(s, x)
    BY <1>2, <1>4, <1>7, <2>6 DEF LeftLower
  <2>8. PICK z \in Stacked(s) : Index(s, z) = LowLink(s, x) /\ z \in Reach(A, x)
    BY <1>2, <1>4 DEF LowIsReached
  <2>9. z \in C
    BY <1>6, <2>8 DEF Above, C
  <2>10. z \notin B
    <3> SUFFICES ASSUME z \in B PROVE FALSE
      OBVIOUS
    <3>1. Index(s, x) <= Index(s, z)
      BY <2>3, <2>4, <2>5
    <3>2. Index(s, z) < Index(s, x) /\ Index(s, z) \in Nat /\ Index(s, x) \in Nat
      BY <1>1, <1>4, <2>7, <2>8
    <3> QED
      BY <3>1, <3>2
  <2>11. d \in Reach(A, z)
    BY <2>9, <2>10
  <2>12. d \in Reach(A, x)
    BY <1>4, <2>8, <2>11, ReachIsLeast
  <2> QED
    BY <2>12
<1>9. ClosedIn(A, Done(s) \cup C)
  <2> SUFFICES ASSUME NEW x \in C, NEW y \in A[x] PROVE y \in Done(s) \cup C
    BY <1>2 DEF ClosedIn
  <2>1. ~Pending(s, x, y)
    <3> SUFFICES ASSUME NEW i \in 1..L, s.calls[i].class = x, y \in s.calls[i].rest PROVE FALSE
      BY <1>1 DEF Pending
    <3>1. i = L
      BY <1>4, <1>5
    <3> QED
      BY <1>1, <3>1
  <2>2. y \in DOMAIN s.info /\ (y \in Stacked(s) => LowLink(s, x) <= Index(s, y))
    BY <1>4, <2>1 DEF LookedAt
  <2>3. CASE y \in Stacked(s)
    <3>1. Index(s, d) <= LowLink(s, x) /\ LowLink(s, x) <= Index(s, y)
      BY <1>6, <2>2, <2>3
    <3>2. LowLink(s, x) \in Nat /\ Index(s, y) \in Nat
      BY <1>1, <1>4, <2>2
    <3>3. Index(s, d) <= Index(s, y)
      BY <1>3, <3>1, <3>2
    <3> QED
      BY <2>3, <3>3 DEF Above, C
  <2>4. CASE y \notin Stacked(s)
    BY <2>2, <2>4 DEF Done
  <2> QED
    BY <2>3, <2>4
<1>10. C = Strongly(A, d)
  <2>1. C \subseteq Strongly(A, d)
    BY <1>6, <1>8 DEF Strongly
  <2>2. ASSUME NEW y \in Strongly(A, d) PROVE y \in C
    <3>1. y \in Reach(A, d) /\ d \in Reach(A, y)
      BY DEF Strongly
    <3>2. Done(s) \in SUBSET N /\ Done(s) \cup C \in SUBSET N
      BY <1>1, <1>4 DEF Done
    <3>3. y \in Done(s) \cup C
      <4>1. Reach(A, d) \subseteq Done(s) \cup C
        BY <1>3, <1>4, <1>9, <3>2, ReachIsLeast
      <4> QED
        BY <3>1, <4>1
    <3>4. y \notin Done(s)
      <4> SUFFICES ASSUME y \in Done(s) PROVE FALSE
        OBVIOUS
      <4>1. Reach(A, y) \subseteq Done(s)
        BY <1>2, <3>2, ReachIsLeast
      <4> QED
        BY <1>3, <3>1, <4>1 DEF Done
    <3> QED
      BY <3>3, <3>4
  <2> QED
    BY <2>1, <2>2
<1> QED
  BY <1>9, <1>10 DEF C

\* The innermost call ends when its class's list is used up.
LEMMA ReturnKeeps ==
    ASSUME NEW N, NEW A, IsGraph(N, A), NEW s, Searched(A, s), LookedAt(A, s), s.calls # <<>>,
           NEW d, d = Innermost(s).class, Innermost(s).rest = {},
           NEW w, w \in SearchState(N), Ends(A, s, d, w)
    PROVE  Searched(A, w) /\ LookedAt(A, w)
<1> DEFINE L == Len(s.calls)
           p == s.calls[L - 1].class
           C == Above(s, d)
           taken == LowLink(s, d) = Index(s, d)
<1>1. /\ DOMAIN A = N /\ s \in SearchState(N) /\ L \in Nat /\ DOMAIN s.calls = 1..L
      /\ Stacked(s) \in SUBSET DOMAIN s.info /\ DOMAIN s.info \in SUBSET N
      /\ \A x \in DOMAIN s.info : /\ Index(s, x) \in Nat /\ LowLink(s, x) \in Nat
                                  /\ LowLink(s, x) <= Index(s, x)
      /\ \A i \in 1..L : s.calls[i].class \in Stacked(s) /\ s.calls[i].rest \subseteq A[s.calls[i].class]
      /\ \A i, j \in 1..L : i < j => Index(s, s.calls[i].class) < Index(s, s.calls[j].class)
      /\ L \in 1..L /\ d = s.calls[L].class /\ s.calls[L].rest = {}
  BY SearchedParts
<1>2. /\ Numbered(s) /\ InOrder(s) /\ Calling(A, s) /\ ClosedIn(A, Done(s))
      /\ LowIsReached(A, s) /\ LeftLower(s) /\ UnderCall(A, s) /\ Founds(A, s)
  BY DEF Searched
<1>3. d \in Stacked(s) /\ d \in DOMAIN s.info /\ d \in N /\ Index(s, d) \in Nat /\ LowLink(s, d) \in Nat
  BY <1>1
<1>4. /\ Len(w.calls) = L - 1 /\ \A i \in 1..(L - 1) : w.calls[i] = s.calls[i]
      /\ DOMAIN w.info = DOMAIN s.info
      /\ \A x \in DOMAIN s.info : Index(w, x) = Index(s, x)
      /\ Takes(A, s, d, w)
  BY DEF Ends
<1>5. DOMAIN w.calls = 1..(L - 1) /\ DOMAIN w.stack = 1..Len(w.stack) /\ Len(w.stack) \in Nat
  BY <1>4, StateParts
<1>6. L = 1 \/ (L > 1 /\ L - 1 \in 1..L /\ L - 1 < L /\ p \in Stacked(s) /\ Index(s, p) < Index(s, d))
  <2> HIDE DEF L
  <2>1. L = 1 \/ (L > 1 /\ L - 1 \in 1..L /\ L - 1 < L)
    BY <1>1
  <2> QED
    BY <1>1, <2>1
<1>7. \A x \in DOMAIN s.info :
         LowLink(w, x) = IF L > 1 /\ x = p /\ LowLink(s, d) < LowLink(s, x)
                         THEN LowLink(s, d) ELSE LowLink(s, x)
  BY <1>6 DEF Ends
<1> HIDE DEF L, p, C
<1>8. \A x \in DOMAIN s.info : LowLink(w, x) <= LowLink(s, x) /\ LowLink(w, x) \in Nat
  BY <1>1, <1>3, <1>7
<1>9. taken => \A x \in DOMAIN s.info : LowLink(w, x) = LowLink(s, x)
  <2> SUFFICES ASSUME taken, NEW x \in DOMAIN s.info, L > 1, x = p, LowLink(s, d) < LowLink(s, x)
               PROVE  FALSE
    BY <1>7
  <2>1. Index(s, p) < Index(s, d)
    BY <1>1, <1>6
  <2> QED
    BY <1>1, <1>3, <2>1
\* Off the stack come the classes of d's component, if it ends here.
<1>10. Stacked(w) = IF taken THEN Stacked(s) \ C ELSE Stacked(s)
  BY <1>4 DEF Takes, Stacked, C
<1>11. \A x \in Stacked(s) : x \in Stacked(w) <=> (taken => Index(s, x) < Index(s, d))
  BY <1>1, <1>3, <1>10 DEF Above, C
<1>12. Stacked(w) \subseteq Stacked(s) /\ Stacked(w) \subseteq DOMAIN s.info
  BY <1>1, <1>10
<1>13. \A i \in 1..(L - 1) : i \in 1..L /\ i < L /\ w.calls[i].class = s.calls[i].class
                             /\ w.calls[i].rest = s.calls[i].rest
  BY <1>1, <1>4
<1>14. \A i \in 1..(L - 1) : /\ s.calls[i].class \in Stacked(w) /\ s.calls[i].class \in DOMAIN s.info
                             /\ Index(s, s.calls[i].class) < Index(s, d)
                             /\ s.calls[i].class # d
  BY <1>1, <1>3, <1>11, <1>12, <1>13
<1>15. ~taken => LowLink(s, d) < Index(s, d) /\ L > 1
  <2> SUFFICES ASSUME ~taken PROVE LowLink(s, d) < Index(s, d) /\ L > 1
    OBVIOUS
  <2>1. LowLink(s, d) < Index(s, d)
    BY <1>1, <1>3
  <2>2. PICK z \in Stacked(s) : Index(s, z) = LowLink(s, d)
    BY <1>2, <1>3 DEF LowIsReached
  <2>3. PICK i \in 1..L : Index(s, s.calls[i].class) <= Index(s, z)
    BY <1>1, <1>2 DEF UnderCall
  <2>4. i # L
    <3> SUFFICES ASSUME i = L PROVE FALSE
      OBVIOUS
    <3>1. Index(s, d) <= LowLink(s, d)
      BY <1>1, <2>2, <2>3
    <3> QED
      BY <1>3, <2>1, <3>1
  <2> QED
    BY <1>1, <2>1, <2>3, <2>4
<1>16. Numbered(w)
  <2> SUFFICES ASSUME NEW x \in DOMAIN s.info
               PROVE  Index(w, x) < Cardinality(DOMAIN s.info) /\ LowLink(w, x) <= Index(w, x)
    BY <1>4 DEF Numbered
  <2>1. Index(s, x) < Cardinality(DOMAIN s.info) /\ Index(w, x) = Index(s, x)
    BY <1>2, <1>4 DEF Numbered
  <2> QED
    BY <1>1, <1>8, <2>1
<1>17. InOrder(w)
  <2>1. \A i \in DOMAIN w.stack : i \in DOMAIN s.stack /\ w.stack[i] = s.stack[i]
    BY <1>4 DEF Takes
  <2>2. \A i \in DOMAIN s.stack : s.stack[i] \in DOMAIN s.info
    BY <1>1 DEF Stacked, Range
  <2>3. \A i \in DOMAIN w.stack : Index(w, w.stack[i]) = Index(s, s.stack[i])
    BY <1>4, <2>1, <2>2
  <2>4. \A i, j \in DOMAIN w.stack : i < j => Index(s, s.stack[i]) < Index(s, s.stack[j])
    BY <1>2, <2>1 DEF InOrder
  <2>5. \A i, j \in DOMAIN w.stack : i < j => Index(w, w.stack[i]) < Index(w, w.stack[j])
    BY <2>3, <2>4
  <2> QED
    BY <1>4, <1>12, <2>5 DEF InOrder
<1>18. Calling(A, w)
  <2>1. \A i, j \in 1..L : i < j =>
           /\ Index(s, s.calls[i].class) < Index(s, s.calls[j].class)
           /\ j = i + 1 => s.calls[j].class \in A[s.calls[i].class]
    BY <1>1, <1>2 DEF Calling
  <2>2. \A i \in 1..(L - 1) : Index(w, w.calls[i].class) = Index(s, s.calls[i].class)
    BY <1>4, <1>13, <1>14
  <2>3. \A i, j \in 1..(L - 1) : i < j =>
           /\ Index(w, w.calls[i].class) < Index(w, w.calls[j].class)
           /\ j = i + 1 => w.calls[j].class \in A[w.calls[i].class]
    BY <1>13, <2>1, <2>2
  <2>4. \A i \in 1..(L - 1) :
           w.calls[i].class \in Stacked(w) /\ w.calls[i].rest \subseteq A[w.calls[i].class]
    BY <1>1, <1>13, <1>14
  <2> QED
    BY <1>5, <2>3, <2>4 DEF Calling
<1>19. LowIsReached(A, w)
  <2> SUFFICES ASSUME NEW x \in Stacked(w)
               PROVE  \E z \in Stacked(w) : Index(w, z) = LowLink(w, x) /\ z \in Reach(A, x)
    BY DEF LowIsReached
  <2>0. x \in Stacked(s) /\ x \in DOMAIN s.info /\ x \in N
    BY <1>1, <1>12
  <2>1. CASE taken
    <3>1. PICK z \in Stacked(s) : Index(s, z) = LowLink(s, x) /\ z \in Reach(A, x)
      BY <1>2, <2>0 DEF LowIsReached
    <3>2. Index(s, z) < Index(s, d)
      BY <1>1, <1>3, <1>11, <2>0, <2>1, <3>1
    <3>3. z \in Stacked(w) /\ Index(w, z) = Index(s, z) /\ LowLink(w, x) = LowLink(s, x)
      BY <1>1, <1>4, <1>9, <1>11, <2>0, <2>1, <3>2
    <3> QED
      BY <3>1, <3>3
  <2>2. CASE ~taken
    <3>1. Stacked(w) = Stacked(s)
      BY <1>10, <2>2
    <3>2. CASE L > 1 /\ x = p /\ LowLink(s, d) < LowLink(s, x)
      <4>1. PICK z \in Stacked(s) : Index(s, z) = LowLink(s, d) /\ z \in Reach(A, d)
        BY <1>2, <1>3 DEF LowIsReached
      <4>2. d \in A[p]
        <5>1. L - 1 \in DOMAIN s.calls /\ L \in DOMAIN s.calls /\ L - 1 < L /\ L = (L - 1) + 1
          BY <1>1, <1>6, <3>2
        <5> QED
          BY <1>1, <1>2, <5>1 DEF Calling, p
      <4>3. d \in Reach(A, p)
        BY <2>0, <3>2, <4>2, ReachIsLeast
      <4>4. z \in Reach(A, p)
        BY <2>0, <3>2, <4>1, <4>3, ReachIsLeast
      <4>5. Index(w, z) = LowLink(w, x)
        BY <1>1, <1>4, <1>7, <2>0, <3>2, <4>1
      <4> QED
        BY <3>1, <3>2, <4>4, <4>5
    <3>3. CASE ~(L > 1 /\ x = p /\ LowLink(s, d) < LowLink(s, x))
      <4>1. PICK z \in Stacked(s) : Index(s, z) = LowLink(s, x) /\ z \in Reach(A, x)
        BY <1>2, <2>0 DEF LowIsReached
      <4>2. Index(w, z) = LowLink(w, x)
        BY <1>1, <1>4, <1>7, <2>0, <3>3, <4>1
      <4> QED
        BY <3>1, <4>1, <4>2
    <3> QED
      BY <3>2, <3>3
  <2> QED
    BY <2>1, <2>2
<1>20. LeftLower(w)
  <2> SUFFICES ASSUME NEW x \in Stacked(w), x \notin Called(w) PROVE LowLink(w, x) < Index(w, x)
    BY DEF LeftLower
  <2>1. x \in Stacked(s) /\ x \in DOMAIN s.info /\ Index(w, x) = Index(s, x)
    BY <1>4, <1>12
  <2>2. CASE x = d
    <3>1. ~taken
      BY <1>3, <1>11, <2>2
    <3>2. LowLink(s, d) < Index(s, d) /\ LowLink(w, d) <= LowLink(s, d) /\ LowLink(w, d) \in Nat
      BY <1>3, <1>8, <1>15, <3>1
    <3> QED
      BY <1>3, <2>1, <2>2, <3>2
  <2>3. CASE x # d
    <3>1. x \notin Called(s)
      <4> SUFFICES ASSUME NEW i \in 1..L, s.calls[i].class = x PROVE FALSE
        BY <1>1 DEF Called
      <4>1. i # L
        BY <1>1, <2>3
      <4>2. i \in 1..(L - 1)
        BY <1>1, <4>1
      <4> QED
        BY <1>5, <1>13, <4>2 DEF Called
    <3>2. LowLink(s, x) < Index(s, x) /\ LowLink(w, x) <= LowLink(s, x) /\ LowLink(w, x) \in Nat
      BY <1>2, <1>8, <2>1, <3>1 DEF LeftLower
    <3> QED
      BY <1>1, <2>1, <3>2
  <2> QED
    BY <2>2, <2>3
<1>21. UnderCall(A, w)
  <2> SUFFICES ASSUME NEW x \in Stacked(w)
               PROVE  \E i \in 1..(L - 1) :
                         /\ Index(w, w.calls[i].class) <= Index(w, x)
                         /\ x \in Reach(A, w.calls[i].class)
                         /\ LowLink(w, w.calls[i].class) <= LowLink(w, x)
                         /\ \A j \in 1..(L - 1) : i < j => Index(w, x) < Index(w, w.calls[j].class)
    BY <1>5 DEF UnderCall
  <2>0. x \in Stacked(s) /\ x \in DOMAIN s.info /\ Index(w, x) = Index(s, x)
    BY <1>4, <1>12
  <2>1. PICK i \in 1..L :
           /\ Index(s, s.calls[i].class) <= Index(s, x) /\ x \in Reach(A, s.calls[i].class)
           /\ LowLink(s, s.calls[i].class) <= LowLink(s, x)
           /\ \A j \in 1..L : i < j => Index(s, x) < Index(s, s.calls[j].class)
    BY <1>1, <1>2, <2>0 DEF UnderCall
  <2>2. \A j \in 1..(L - 1) : Index(w, w.calls[j].class) = Index(s, s.calls[j].class)
    BY <1>4, <1>13, <1>14
  <2>3. CASE i # L
    <3>1. i \in 1..(L - 1)
      BY <1>1, <2>3
    <3>2. w.calls[i].class = s.calls[i].class /\ s.calls[i].class \in DOMAIN s.info
      BY <1>13, <1>14, <3>1
    <3>3. \A j \in 1..(L - 1) : i < j => Index(w, x) < Index(w, w.calls[j].class)
      BY <1>13, <2>0, <2>1, <2>2
    <3>4. LowLink(w, s.calls[i].class) <= LowLink(w, x)
      <4>1. CASE x = p /\ L > 1
        <5>1. ~(i < L - 1)
          <6> SUFFICES ASSUME i < L - 1 PROVE FALSE
            OBVIOUS
          <6>1. Index(s, x) < Index(s, x)
            BY <1>6, <2>1, <4>1 DEF p
          <6> QED
            BY <1>1, <2>0, <6>1
        <5>2. i = L - 1
          BY <1>1, <3>1, <5>1
        <5> QED
          BY <1>8, <2>0, <4>1, <5>2 DEF p
      <4>2. CASE ~(x = p /\ L > 1)
        <5>1. LowLink(w, x) = LowLink(s, x)
          BY <1>7, <2>0, <4>2
        <5>2. LowLink(w, s.calls[i].class) <= LowLink(s, s.calls[i].class)
              /\ LowLink(w, s.calls[i].class) \in Nat
          BY <1>8, <3>2
        <5> QED
          BY <1>1, <2>0, <2>1, <3>2, <5>1, <5>2
      <4> QED
        BY <4>1, <4>2
    <3> QED
      BY <2>0, <2>1, <2>2, <3>1, <3>2, <3>3, <3>4
  <2>4. CASE i = L
    <3>1. ~taken
      <4> SUFFICES ASSUME taken PROVE FALSE
        OBVIOUS
      <4>1. Index(s, x) < Index(s, d) /\ Index(s, d) <= Index(s, x)
        BY <1>1, <1>11, <2>0, <2>1, <2>4
      <4> QED
        BY <1>1, <1>3, <2>0, <4>1
    <3>2. /\ L > 1 /\ L - 1 \in 1..L /\ L - 1 \in 1..(L - 1) /\ p \in Stacked(s) /\ p \in DOMAIN s.info
          /\ p \in N /\ Index(s, p) < Index(s, d)
      BY <1>1, <1>6, <1>15, <3>1
    <3>3. d \in A[p]
      BY SMTT(30), <1>1, <1>2, <3>2 DEF Calling, p
    <3>4. x \in Reach(A, p)
      <4>1. x \in Reach(A, d)
        BY <1>1, <2>1, <2>4
      <4>2. d \in Reach(A, p)
        BY <3>2, <3>3, ReachIsLeast
      <4> QED
        BY <3>2, <4>1, <4>2, ReachIsLeast
    <3>5. Index(s, p) < Index(s, x)
      BY <1>1, <1>3, <2>0, <2>1, <2>4, <3>2
    <3>6. LowLink(w, p) <= LowLink(w, x)
      <4>1. x # p
        BY <1>1, <3>2, <3>5
      <4>2. LowLink(w, x) = LowLink(s, x)
        BY <1>7, <2>0, <4>1
      <4>3. LowLink(w, p) <= LowLink(s, d)
        BY <1>1, <1>3, <1>7, <3>2
      <4>4. LowLink(s, d) <= LowLink(s, x)
        BY <1>1, <2>1, <2>4
      <4> QED
        BY <1>1, <1>3, <1>8, <2>0, <3>2, <4>2, <4>3, <4>4
    <3>7. w.calls[L - 1].class = p /\ Index(w, p) = Index(s, p)
      BY <1>4, <1>13, <3>2 DEF p
    <3>8. \A j \in 1..(L - 1) : ~(L - 1 < j)
      BY <1>1
    <3>9. Index(w, p) <= Index(w, x)
      BY <1>1, <2>0, <3>2, <3>5, <3>7
    <3> QED
      BY <3>2, <3>4, <3>6, <3>7, <3>8, <3>9
  <2> QED
    BY <2>3, <2>4
<1>22. LookedAt(A, w)
  <2> SUFFICES ASSUME NEW x \in Stacked(w), NEW y \in A[x], ~Pending(w, x, y)
               PROVE  y \in DOMAIN w.info /\ (y \in Stacked(w) => LowLink(w, x) <= Index(w, y))
    BY DEF LookedAt
  <2>1. ~Pending(s, x, y)
    <3> SUFFICES ASSUME NEW i \in 1..L, s.calls[i].class = x, y \in s.calls[i].rest PROVE FALSE
      BY <1>1 DEF Pending
    <3>1. i # L
      BY <1>1
    <3>2. i \in 1..(L - 1)
      BY <1>1, <3>1
    <3> QED
      BY <1>5, <1>13, <3>2 DEF Pending
  <2>2. x \in Stacked(s) /\ x \in DOMAIN s.info
    BY <1>12
  <2>3. y \in DOMAIN s.info /\ (y \in Stacked(s) => LowLink(s, x) <= Index(s, y))
    BY <2>1, <2>2 DEF LookedAt
  <2>4. LowLink(w, x) <= LowLink(s, x) /\ LowLink(w, x) \in Nat /\ LowLink(s, x) \in Nat /\ Index(s, y) \in Nat
    BY <1>1, <1>8, <2>2, <2>3
  <2>5. Index(w, y) = Index(s, y) /\ (y \in Stacked(w) => y \in Stacked(s))
    BY <1>4, <1>12, <2>3
  <2> QED
    BY <1>4, <2>3, <2>4, <2>5
<1>23. ClosedIn(A, Done(w)) /\ Founds(A, w)
  <2>1. CASE ~taken
    <3>1. Done(w) = Done(s) /\ w.found = s.found
      BY <1>4, <1>10, <2>1 DEF Done, Takes
    <3> QED
      BY <1>2, <3>1 DEF Founds
  <2>2. CASE taken
    <3>1. C = Strongly(A, d) /\ ClosedIn(A, Done(s) \cup C)
      BY <2>2, AboveIsComponent DEF C
    <3>2. Done(w) = Done(s) \cup C /\ C \subseteq N /\ d \in C
      BY <1>1, <1>3, <1>4, <1>10, <2>2 DEF Done, Above, C
    <3>3. w.found = IF Cardinality(C) > 1 \/ d \in A[d] THEN s.found \cup {C} ELSE s.found
      BY <1>4, <2>2 DEF Takes, C
    <3>4. Cardinality(C) > 1 \/ d \in A[d] <=> Cyclic(A, d)
      <4>1. IsFiniteSet(C)
        BY <3>2, FS_Subset DEF IsGraph
      <4>2. Cardinality(C) > 1 <=> \E x, y \in C : x # y
        BY <4>1, MoreThanOne
      <4>3. (\E x, y \in C : x # y) <=> \E y \in C : y # d
        BY <3>2
      <4>4. Cyclic(A, d) <=> d \in A[d] \/ \E y \in C : y # d
        BY <1>3, <3>1, CyclicIs
      <4> QED
        BY <4>2, <4>3, <4>4
    <3>5. \A x \in C : Strongly(A, x) = C
      BY <1>3, <3>1, StronglyShared
    <3>6. \A x \in C : Cyclic(A, x) => Cyclic(A, d)
      <4> SUFFICES ASSUME NEW x \in C, Cyclic(A, x), x # d PROVE Cyclic(A, d)
        OBVIOUS
      <4> QED
        BY <1>3, <3>1, CyclicIs
    <3>7. Founds(A, w)
      <4>1. ASSUME NEW x \in Done(w), Cyclic(A, x) PROVE Strongly(A, x) \in w.found
        <5>1. CASE x \in Done(s)
          BY <1>2, <3>3, <4>1, <5>1 DEF Founds
        <5>2. CASE x \in C
          BY <3>3, <3>4, <3>5, <3>6, <4>1, <5>2
        <5> QED
          BY <3>2, <5>1, <5>2
      <4>2. ASSUME NEW X \in w.found PROVE \E x \in Done(w) : Cyclic(A, x) /\ X = Strongly(A, x)
        <5>1. CASE X \in s.found
          BY <1>2, <3>2, <5>1 DEF Founds
        <5>2. CASE X \notin s.found
          BY <3>1, <3>2, <3>3, <3>4, <5>2
        <5> QED
          BY <5>1, <5>2
      <4> QED
        BY <4>1, <4>2 DEF Founds
    <3> QED
      BY <3>1, <3>2, <3>7
  <2> QED
    BY <2>1, <2>2
<1> QED
  BY <1>1, <1>16, <1>17, <1>18, <1>19, <1>20, <1>21, <1>22, <1>23 DEF Searched
-----------------------------------------------------------------------------
\* How far a search is: the classes seen, those whose call has returned, and
\* the pairs of classes that no call has yet to look at.  Every turn of an
\* unfinished search adds to one of the three and takes from none.
Ended(s) == DOMAIN s.info \ Called(s)
LookedPairs(N, s) == {p \in N \X N : p[1] \in DOMAIN s.info /\ ~Pending(s, p[1], p[2])}
Finished(N, s) == s.calls = <<>> /\ DOMAIN s.info = N
Grows(N, s, w) ==
    /\ DOMAIN s.info \subseteq DOMAIN w.info /\ Ended(s) \subseteq Ended(w)
    /\ LookedPairs(N, s) \subseteq LookedPairs(N, w)
Further(N, s, w) ==
    /\ Grows(N, s, w)
    /\ DOMAIN s.info # DOMAIN w.info \/ Ended(s) # Ended(w) \/ LookedPairs(N, s) # LookedPairs(N, w)

\* A visit adds to the classes seen.
LEMMA VisitGrows ==
    ASSUME NEW N, NEW A, IsGraph(N, A), NEW s, Searched(A, s), NEW d \in N \ DOMAIN s.info,
           NEW w, w \in SearchState(N), Visits(A, s, d, w)
    PROVE  Further(N, s, w)
<1> DEFINE L == Len(s.calls)
<1>1. /\ s \in SearchState(N) /\ L \in Nat /\ DOMAIN s.calls = 1..L
      /\ \A i \in 1..L : s.calls[i].class \in DOMAIN s.info
      /\ s.calls \in Seq(Frame(N))
  BY SearchedParts, StateParts
<1>2. A[d] \in SUBSET N
  BY DEF IsGraph
<1>3. /\ DOMAIN w.info = DOMAIN s.info \cup {d}
      /\ DOMAIN w.calls = 1..(L + 1) /\ w.calls[L + 1] = [class |-> d, rest |-> A[d]]
      /\ \A i \in 1..L : w.calls[i] = s.calls[i]
  <2>1. [class |-> d, rest |-> A[d]] \in Frame(N)
    BY <1>2 DEF Frame
  <2> QED
    BY <1>1, <2>1 DEF Visits
<1> HIDE DEF L
<1>4. \A i \in DOMAIN w.calls : i = L + 1 \/ (i \in DOMAIN s.calls /\ w.calls[i] = s.calls[i])
  BY <1>1, <1>3
<1>5. w.calls[L + 1].class = d
  BY <1>3
<1>6. Called(w) \subseteq Called(s) \cup {d}
  BY <1>4, <1>5 DEF Called
<1>7. \A x \in DOMAIN s.info : \A y : Pending(w, x, y) => Pending(s, x, y)
  BY <1>4, <1>5 DEF Pending
<1>8. Ended(s) \subseteq Ended(w)
  BY <1>3, <1>6 DEF Ended
<1>9. LookedPairs(N, s) \subseteq LookedPairs(N, w)
  BY <1>3, <1>7 DEF LookedPairs
<1> QED
  BY <1>3, <1>8, <1>9 DEF Further, Grows

\* A look takes a pair off what is left to look at.
LEMMA LookGrows ==
    ASSUME NEW N, NEW A, IsGraph(N, A), NEW s, Searched(A, s), s.calls # <<>>,
           NEW n \in Innermost(s).rest, NEW w, w \in SearchState(N), Looks(s, n, w)
    PROVE  Further(N, s, w)
<1> DEFINE L == Len(s.calls)
           d == s.calls[L].class
<1>1. /\ DOMAIN A = N /\ s \in SearchState(N) /\ L \in Nat /\ DOMAIN s.calls = 1..L
      /\ Stacked(s) \in SUBSET DOMAIN s.info /\ DOMAIN s.info \in SUBSET N
      /\ \A i \in 1..L : s.calls[i].class \in Stacked(s) /\ s.calls[i].rest \subseteq A[s.calls[i].class]
      /\ \A i, j \in 1..L : i < j => s.calls[i].class # s.calls[j].class
      /\ L \in 1..L /\ Innermost(s) = s.calls[L]
  BY SearchedParts
<1>2. /\ w.info = s.info /\ Len(w.calls) = L
      /\ \A i \in 1..L :
            /\ w.calls[i].class = s.calls[i].class
            /\ w.calls[i].rest = IF i = L THEN s.calls[i].rest \ {n} ELSE s.calls[i].rest
  BY DEF Looks
<1>3. DOMAIN w.calls = 1..L
  BY <1>2, StateParts
<1>4. n \in N /\ d \in DOMAIN s.info /\ d \in N /\ n \in s.calls[L].rest
  <2>1. A[d] \in SUBSET N
    BY <1>1 DEF IsGraph
  <2> QED
    BY <1>1, <2>1
<1> HIDE DEF L
<1>5. Ended(s) = Ended(w)
  <2>1. \A i \in 1..L : w.calls[i].class = s.calls[i].class
    BY <1>2
  <2>2. /\ Called(w) = {w.calls[i].class : i \in 1..L}
        /\ Called(s) = {s.calls[i].class : i \in 1..L}
    BY <1>1, <1>3 DEF Called
  <2>3. Called(w) = Called(s)
    BY <2>1, <2>2
  <2> QED
    BY <1>2, <2>3 DEF Ended
<1>6. \A x, y : Pending(w, x, y) => Pending(s, x, y)
  BY <1>1, <1>2, <1>3 DEF Pending
<1>7. Pending(s, d, n)
  BY <1>1, <1>4 DEF Pending
<1>8. ~Pending(w, d, n)
  <2> SUFFICES ASSUME NEW i \in 1..L, w.calls[i].class = d, n \in w.calls[i].rest PROVE FALSE
    BY <1>3 DEF Pending
  <2>0. i = L => w.calls[i].rest = s.calls[i].rest \ {n}
    BY <1>2
  <2>1. i # L
    BY <2>0
  <2>2. i < L
    BY <1>1, <2>1
  <2>3. s.calls[i].class = d
    BY <1>2
  <2> QED
    BY <1>1, <2>2, <2>3
<1>9. LookedPairs(N, s) \subseteq LookedPairs(N, w)
  BY <1>2, <1>6 DEF LookedPairs
<1>10. <<d, n>> \in LookedPairs(N, w) /\ <<d, n>> \notin LookedPairs(N, s)
  <2>1. <<d, n>> \in N \X N /\ <<d, n>>[1] = d /\ <<d, n>>[2] = n
    BY <1>4
  <2> HIDE DEF d
  <2> QED
    BY <1>2, <1>4, <1>7, <1>8, <2>1 DEF LookedPairs
<1> QED
  BY <1>2, <1>5, <1>9, <1>10 DEF Further, Grows

\* A low link changes nothing of it.
LEMMA LowerGrows ==
    ASSUME NEW N, NEW s, NEW c, NEW n, NEW w, Lowers(s, c, n, w)
    PROVE  Grows(N, s, w)
<1>1. DOMAIN w.info = DOMAIN s.info /\ w.calls = s.calls
  BY DEF Lowers
<1>2. Ended(w) = Ended(s)
  BY <1>1 DEF Ended, Called
<1>3. LookedPairs(N, w) = LookedPairs(N, s)
  BY <1>1 DEF LookedPairs, Pending
<1> QED
  BY <1>1, <1>2, <1>3 DEF Grows

\* The end of a call adds to those that have returned.
LEMMA ReturnGrows ==
    ASSUME NEW N, NEW A, IsGraph(N, A), NEW s, Searched(A, s), s.calls # <<>>,
           NEW d, d = Innermost(s).class, NEW w, w \in SearchState(N), Ends(A, s, d, w)
    PROVE  Further(N, s, w)
<1> DEFINE L == Len(s.calls)
<1>1. /\ s \in SearchState(N) /\ L \in Nat /\ DOMAIN s.calls = 1..L
      /\ Stacked(s) \in SUBSET DOMAIN s.info
      /\ \A i \in 1..L : s.calls[i].class \in Stacked(s)
      /\ \A i, j \in 1..L : i < j => s.calls[i].class # s.calls[j].class
      /\ L \in 1..L /\ d = s.calls[L].class
  BY SearchedParts
<1>2. /\ Len(w.calls) = L - 1 /\ \A i \in 1..(L - 1) : w.calls[i] = s.calls[i]
      /\ DOMAIN w.info = DOMAIN s.info
  BY DEF Ends
<1>3. DOMAIN w.calls = 1..(L - 1)
  BY <1>2, StateParts
<1> HIDE DEF L
<1>4. \A i \in DOMAIN w.calls : i \in DOMAIN s.calls /\ i < L /\ w.calls[i] = s.calls[i]
  BY <1>1, <1>2, <1>3
<1>5. Called(w) \subseteq Called(s)
  BY <1>4 DEF Called
<1>6. \A x, y : Pending(w, x, y) => Pending(s, x, y)
  BY <1>4 DEF Pending
<1>7. d \in Called(s) /\ d \notin Called(w) /\ d \in DOMAIN s.info
  BY <1>1, <1>4 DEF Called
<1>8. LookedPairs(N, s) \subseteq LookedPairs(N, w)
  BY <1>2, <1>6 DEF LookedPairs
<1>9. Ended(s) \subseteq Ended(w) /\ Ended(s) # Ended(w)
  BY <1>2, <1>5, <1>7 DEF Ended
<1> QED
  BY <1>2, <1>8, <1>9 DEF Further, Grows

\* A turn keeps what holds of the search, and takes it further.
LEMMA TurnKeeps ==
    ASSUME NEW N, NEW A, IsGraph(N, A), NEW s, Searched(A, s), LookedAt(A, s)
    PROVE  LET w == Turn(s, N, A) IN
           /\ Searched(A, w) /\ LookedAt(A, w)
           /\ Finished(N, s) => w = s
           /\ ~Finished(N, s) => Further(N, s, w)
<1> DEFINE w == Turn(s, N, A)
           unseen == {c \in N : ~Seen(s, c)}
           d == Innermost(s).class
           rest == Innermost(s).rest
<1>1. /\ s \in SearchState(N) /\ Stacked(s) \in SUBSET DOMAIN s.info /\ DOMAIN s.info \in SUBSET N
      /\ \A x \in DOMAIN s.info : Index(s, x) \in Nat
      /\ DOMAIN s.calls = 1..Len(s.calls) /\ InOrder(s)
      /\ \A i \in DOMAIN s.calls : s.calls[i].class \in DOMAIN s.info
      /\ s.calls # <<>> => d \in Stacked(s) /\ rest \subseteq A[d]
  BY SearchedParts DEF Searched
<1>2. unseen = N \ DOMAIN s.info /\ N \in SUBSET Entity /\ \A x \in N : A[x] \in SUBSET N
  BY DEF Seen, IsGraph
<1> HIDE DEF unseen, d, rest, w
<1>3. CASE s.calls = <<>> /\ unseen = {}
  <2>1. w = s /\ Finished(N, s)
    BY <1>1, <1>2, <1>3 DEF Turn, Finished, w, unseen
  <2> QED
    BY <2>1 DEF w
<1>4. CASE s.calls = <<>> /\ unseen # {}
  <2> DEFINE c == Least(unseen)
  <2>1. c \in N \ DOMAIN s.info
    BY <1>2, <1>4, LeastIsOne
  <2>2. w = visit(s, c, A)
    BY <1>4 DEF Turn, w, unseen
  <2> HIDE DEF c
  <2>3. w \in SearchState(N) /\ Visits(A, s, c, w)
    BY <1>1, <2>1, <2>2, VisitMakes
  <2>4. LookedAtBut(A, s, c, c)
    BY DEF LookedAt, LookedAtBut
  <2>5. Searched(A, w) /\ LookedAt(A, w)
    BY <1>4, <2>1, <2>3, <2>4, VisitKeeps
  <2>6. Further(N, s, w)
    BY <2>1, <2>3, VisitGrows
  <2>7. ~Finished(N, s)
    BY <1>2, <1>4 DEF Finished
  <2> QED
    BY <2>5, <2>6, <2>7 DEF w
<1>5. CASE s.calls # <<>> /\ rest = {}
  <2>1. w = Return(s, d, A)
    BY <1>5 DEF Turn, w, d, rest
  <2>2. w \in SearchState(N) /\ Ends(A, s, d, w)
    BY <1>1, <1>5, <2>1, ReturnMakes
  <2>3. Searched(A, w) /\ LookedAt(A, w)
    BY <1>5, <2>2, ReturnKeeps DEF d, rest
  <2>4. Further(N, s, w)
    BY <1>5, <2>2, ReturnGrows DEF d
  <2>5. ~Finished(N, s)
    BY <1>5 DEF Finished
  <2> QED
    BY <2>3, <2>4, <2>5 DEF w
<1>6. CASE s.calls # <<>> /\ rest # {}
  <2> DEFINE n == Least(rest)
             t == [s EXCEPT !.calls[Len(s.calls)].rest = @ \ {n}]
  <2>1. n \in rest /\ n \in A[d] /\ n \in N /\ d \in N
    <3>1. d \in N
      BY <1>1, <1>6
    <3>2. rest \in SUBSET Entity
      BY <1>1, <1>2, <1>6, <3>1
    <3> QED
      BY <1>1, <1>2, <1>6, <3>1, <3>2, LeastIsOne
  <2>2. w = LookAt(s, n, A)
    BY <1>6 DEF Turn, w, rest
  <2>3. w = IF ~Seen(t, n) THEN visit(t, n, A)
            ELSE IF OnStack(t, n) THEN Low(t, d, t.info[n].index) ELSE t
    BY <2>2 DEF LookAt, d
  <2>4. t \in SearchState(N) /\ Looks(s, n, t)
    BY <1>1, <1>6, LookMakes
  <2> HIDE DEF n, t
  <2>5. /\ Searched(A, t) /\ LookedAtBut(A, t, d, n) /\ t.calls # <<>> /\ Innermost(t).class = d
    BY <1>6, <2>4, LookKeeps DEF d
  <2>6. Further(N, s, t)
    BY <1>6, <2>1, <2>4, LookGrows DEF rest
  <2>7. ~Finished(N, s)
    BY <1>6 DEF Finished
  <2>8. t.info = s.info /\ t.stack = s.stack
    BY <2>4 DEF Looks
  <2>9. CASE ~Seen(t, n)
    <3>1. n \in N \ DOMAIN t.info /\ w = visit(t, n, A)
      BY <2>1, <2>3, <2>9 DEF Seen
    <3>2. w \in SearchState(N) /\ Visits(A, t, n, w)
      BY <2>4, <3>1, VisitMakes
    <3>3. Searched(A, w) /\ LookedAt(A, w)
      BY <2>1, <2>5, <3>1, <3>2, VisitKeeps
    <3>4. Further(N, t, w)
      BY <2>5, <3>1, <3>2, VisitGrows
    <3>5. Further(N, s, w)
      BY <2>6, <3>4 DEF Further, Grows
    <3> QED
      BY <2>7, <3>3, <3>5 DEF w
  <2>10. CASE Seen(t, n) /\ OnStack(t, n)
    <3>1. n \in Stacked(t) /\ d \in DOMAIN t.info /\ Index(t, n) \in Nat
      BY <1>1, <1>6, <2>8, <2>10 DEF OnStack, Stacked, Index
    <3>2. w = Low(t, d, Index(t, n))
      BY <2>3, <2>10 DEF Index
    <3>3. w \in SearchState(N) /\ Lowers(t, d, Index(t, n), w)
      BY <2>4, <3>1, <3>2, LowMakes
    <3>4. Searched(A, w) /\ LookedAt(A, w)
      BY <2>1, <2>5, <3>1, <3>3, LowerKeeps
    <3>5. Further(N, s, w)
      <4>1. Grows(N, t, w)
        BY <3>3, LowerGrows
      <4> QED
        BY <2>6, <4>1 DEF Further, Grows
    <3> QED
      BY <2>7, <3>4, <3>5 DEF w
  <2>11. CASE Seen(t, n) /\ ~OnStack(t, n)
    <3>1. w = t
      BY <2>3, <2>11
    <3>2. LookedAt(A, t)
      <4> SUFFICES ASSUME NEW x \in Stacked(t), NEW y \in A[x], ~Pending(t, x, y)
                   PROVE  y \in DOMAIN t.info /\ (y \in Stacked(t) => LowLink(t, x) <= Index(t, y))
        BY DEF LookedAt
      <4>1. CASE y = n
        BY <2>11, <4>1 DEF Seen, OnStack, Stacked
      <4>2. CASE y # n
        BY <2>5, <4>2 DEF LookedAtBut
      <4> QED
        BY <4>1, <4>2
    <3> QED
      BY <2>5, <2>6, <2>7, <3>1, <3>2 DEF w
  <2> QED
    BY <2>9, <2>10, <2>11
<1> QED
  BY <1>3, <1>4, <1>5, <1>6
-----------------------------------------------------------------------------
\* How far a search is, as a number.
Progress(N, s) ==
    Cardinality(DOMAIN s.info) + Cardinality(Ended(s)) + Cardinality(LookedPairs(N, s))

\* It is bounded by what there is to see, to return from and to look at, and
\* at the bound the search is finished.
LEMMA ProgressIsBounded ==
    ASSUME NEW N, NEW A, IsGraph(N, A), NEW s, Searched(A, s)
    PROVE  /\ Progress(N, s) \in Nat /\ Cardinality(N) \in Nat
           /\ Progress(N, s) <= Cardinality(N) * (Cardinality(N) + 2)
           /\ Progress(N, s) = Cardinality(N) * (Cardinality(N) + 2) => Finished(N, s)
<1> DEFINE all == Cardinality(N)
           a == Cardinality(DOMAIN s.info)
           b == Cardinality(Ended(s))
           c == Cardinality(LookedPairs(N, s))
<1>1. IsFiniteSet(N) /\ all \in Nat
  BY FS_CardinalityType DEF IsGraph
<1>2. IsFiniteSet(N \X N) /\ Cardinality(N \X N) = all * all
  BY <1>1, FS_Product
<1>3. /\ DOMAIN s.info \in SUBSET N /\ Ended(s) \in SUBSET N /\ LookedPairs(N, s) \in SUBSET (N \X N)
      /\ Called(s) \subseteq DOMAIN s.info
      /\ Len(s.calls) \in Nat /\ DOMAIN s.calls = 1..Len(s.calls)
      /\ s.calls # <<>> => Len(s.calls) \in 1..Len(s.calls)
  BY SearchedParts DEF Ended, LookedPairs, Called
<1>4. a \in Nat /\ a <= all /\ (a = all => DOMAIN s.info = N)
  BY <1>1, <1>3, FS_Subset, FS_CardinalityType
<1>5. b \in Nat /\ b <= all /\ (b = all => Ended(s) = N)
  BY <1>1, <1>3, FS_Subset, FS_CardinalityType
<1>6. c \in Nat /\ c <= all * all
  BY <1>2, <1>3, FS_Subset, FS_CardinalityType
<1>7. Progress(N, s) = a + b + c
  BY DEF Progress
<1>8. all * all \in Nat /\ all * (all + 2) = all * all + all + all
  <2> HIDE DEF all
  <2> QED
    BY <1>1
<1> DEFINE sq == all * all
<1>9. sq \in Nat /\ c <= sq /\ all * (all + 2) = sq + all + all
  BY <1>6, <1>8
<1> HIDE DEF all, a, b, c, sq
<1>10. a + b + c \in Nat /\ a + b + c <= sq + all + all
  BY <1>1, <1>4, <1>5, <1>6, <1>9
<1>11. a + b + c = sq + all + all => a = all /\ b = all
  BY <1>1, <1>4, <1>5, <1>6, <1>9
<1>12. ASSUME a = all, b = all PROVE Finished(N, s)
  <2>1. DOMAIN s.info = N /\ Ended(s) = N
    BY <1>4, <1>5, <1>12
  <2>2. Called(s) = {}
    BY <1>3, <2>1 DEF Ended
  <2>3. s.calls = <<>>
    BY <1>3, <2>2 DEF Called
  <2> QED
    BY <2>1, <2>3 DEF Finished
<1> QED
  BY <1>1, <1>7, <1>9, <1>10, <1>11, <1>12 DEF all

\* What takes a search further adds to it.
LEMMA FurtherCounts ==
    ASSUME NEW N, NEW A, IsGraph(N, A), NEW s, Searched(A, s), NEW w, Searched(A, w), Further(N, s, w)
    PROVE  Progress(N, s) + 1 <= Progress(N, w)
<1>1. IsFiniteSet(N) /\ IsFiniteSet(N \X N)
  BY FS_Product DEF IsGraph
<1>2. /\ DOMAIN s.info \in SUBSET N /\ Ended(s) \in SUBSET N /\ LookedPairs(N, s) \in SUBSET (N \X N)
      /\ DOMAIN w.info \in SUBSET N /\ Ended(w) \in SUBSET N /\ LookedPairs(N, w) \in SUBSET (N \X N)
  BY SearchedParts DEF Ended, LookedPairs
<1>3. IsFiniteSet(DOMAIN w.info) /\ IsFiniteSet(Ended(w)) /\ IsFiniteSet(LookedPairs(N, w))
  BY <1>1, <1>2, FS_Subset
<1>4. /\ DOMAIN s.info \in SUBSET DOMAIN w.info /\ Ended(s) \in SUBSET Ended(w)
      /\ LookedPairs(N, s) \in SUBSET LookedPairs(N, w)
      /\ DOMAIN s.info # DOMAIN w.info \/ Ended(s) # Ended(w) \/ LookedPairs(N, s) # LookedPairs(N, w)
  BY DEF Further, Grows
<1> DEFINE a == Cardinality(DOMAIN s.info)
           b == Cardinality(Ended(s))
           c == Cardinality(LookedPairs(N, s))
           aw == Cardinality(DOMAIN w.info)
           bw == Cardinality(Ended(w))
           cw == Cardinality(LookedPairs(N, w))
<1>5. a \in Nat /\ aw \in Nat /\ a <= aw /\ (aw = a => DOMAIN s.info = DOMAIN w.info)
  BY <1>3, <1>4, FS_Subset, FS_CardinalityType
<1>6. b \in Nat /\ bw \in Nat /\ b <= bw /\ (bw = b => Ended(s) = Ended(w))
  BY <1>3, <1>4, FS_Subset, FS_CardinalityType
<1>7. c \in Nat /\ cw \in Nat /\ c <= cw /\ (cw = c => LookedPairs(N, s) = LookedPairs(N, w))
  BY <1>3, <1>4, FS_Subset, FS_CardinalityType
<1>8. Progress(N, s) = a + b + c /\ Progress(N, w) = aw + bw + cw
  BY DEF Progress
<1> HIDE DEF a, b, c, aw, bw, cw
<1>9. aw # a \/ bw # b \/ cw # c
  BY <1>4, <1>5, <1>6, <1>7
<1>10. a + b + c + 1 <= aw + bw + cw
  BY <1>5, <1>6, <1>7, <1>9
<1> QED
  BY <1>8, <1>10

\* The search begins with nothing seen.
LEMMA NothingSearched ==
    ASSUME NEW N, NEW A, IsGraph(N, A)
    PROVE  Searched(A, NoInfo) /\ LookedAt(A, NoInfo)
<1>1. /\ NoInfo.stack = <<>> /\ NoInfo.calls = <<>> /\ NoInfo.found = {}
      /\ NoInfo.info = [c \in {} |-> [index |-> 0, low |-> 0]]
      /\ NoInfo = [info |-> NoInfo.info, stack |-> <<>>, found |-> {}, calls |-> <<>>]
  BY DEF NoInfo
<1>2. DOMAIN NoInfo.info = {} /\ NoInfo.info \in [{} -> [index : Nat, low : Nat]]
  BY <1>1
<1>3. NoInfo.info \in UNION {[D -> [index : Nat, low : Nat]] : D \in SUBSET N}
  <2>1. {} \in SUBSET N
    OBVIOUS
  <2> QED
    BY <1>2, <2>1
<1>4. DOMAIN A = N
  BY DEF IsGraph
<1>5. <<>> \in Seq(N) /\ <<>> \in Seq(Frame(N)) /\ {} \in SUBSET SUBSET N
  BY EmptySeq
<1>6. NoInfo \in SearchState(N)
  BY <1>1, <1>3, <1>5 DEF SearchState
<1>7. DOMAIN NoInfo.stack = {} /\ DOMAIN NoInfo.calls = {}
  BY <1>1
<1>8. Stacked(NoInfo) = {} /\ Done(NoInfo) = {} /\ Called(NoInfo) = {}
  BY <1>2, <1>7 DEF Stacked, Done, Called, Range
<1>9. Numbered(NoInfo) /\ InOrder(NoInfo) /\ Calling(A, NoInfo)
  BY <1>2, <1>7, <1>8 DEF Numbered, InOrder, Calling
<1>10. ClosedIn(A, Done(NoInfo)) /\ LowIsReached(A, NoInfo) /\ LeftLower(NoInfo) /\ UnderCall(A, NoInfo)
  BY <1>8 DEF ClosedIn, LowIsReached, LeftLower, UnderCall
<1>11. Founds(A, NoInfo) /\ LookedAt(A, NoInfo)
  BY <1>1, <1>8 DEF Founds, LookedAt
<1> QED
  BY <1>4, <1>6, <1>9, <1>10, <1>11 DEF Searched

\* A search with no call left has found the components of all it has seen.
LEMMA FinishedFindsAll ==
    ASSUME NEW N, NEW A, IsGraph(N, A), NEW s, Searched(A, s), Finished(N, s)
    PROVE  s.found = {Strongly(A, x) : x \in {y \in N : Cyclic(A, y)}}
<1>1. UnderCall(A, s) /\ Founds(A, s) /\ DOMAIN s.calls = {} /\ DOMAIN s.info = N
  BY DEF Searched, Finished
<1>2. Stacked(s) = {}
  BY <1>1 DEF UnderCall
<1>3. Done(s) = N
  BY <1>1, <1>2 DEF Done
<1> QED
  BY <1>1, <1>3 DEF Founds

\* cycles finds the components of a graph, those that are no cycle left out.
LEMMA CyclesAre ==
    ASSUME NEW N, NEW A, IsGraph(N, A)
    PROVE  cycles(N, A) = {Strongly(A, x) : x \in {y \in N : Cyclic(A, y)}}
<1> DEFINE T == {s \in SearchState(N) : Searched(A, s) /\ LookedAt(A, s)}
           Shape(f) == [n \in Nat |-> IF n = 0 THEN NoInfo ELSE Turn(f[n - 1], N, A)]
           Turned == CHOOSE f : f = Shape(f)
           step == [s \in T |-> Turn(s, N, A)]
           all == Cardinality(N)
           k == all * (all + 2)
<1>1. NoInfo \in T
  BY NothingSearched, SearchedParts
<1>2. ASSUME NEW s \in T
      PROVE  /\ Turn(s, N, A) \in T /\ (Finished(N, s) => Turn(s, N, A) = s)
             /\ ~Finished(N, s) => Progress(N, s) + 1 <= Progress(N, Turn(s, N, A))
  <2> DEFINE w == Turn(s, N, A)
  <2>1. /\ Searched(A, w) /\ LookedAt(A, w) /\ (Finished(N, s) => w = s)
        /\ (~Finished(N, s) => Further(N, s, w))
    BY TurnKeeps
  <2> HIDE DEF w
  <2>2. w \in T
    BY <2>1, SearchedParts
  <2>3. ~Finished(N, s) => Progress(N, s) + 1 <= Progress(N, w)
    BY <2>1, FurtherCounts
  <2> QED
    BY <2>1, <2>2, <2>3 DEF w
<1>3. \A s \in T : step[s] = Turn(s, N, A)
  OBVIOUS
<1>x. step \in [T -> T]
  BY <1>2
<1>4. cycles(N, A) = Turned[k].found
  BY DEF cycles
<1>t. \A s \in T : Searched(A, s)
  OBVIOUS
<1> HIDE DEF step, T, k
<1>5. \E f \in [Nat -> T] : f[0] = NoInfo /\ \A n \in Nat : f[n + 1] = step[f[n]]
  BY <1>1, <1>x, RecursionExists
<1>6. PICK f \in [Nat -> T] : f[0] = NoInfo /\ \A n \in Nat : f[n + 1] = step[f[n]]
  BY <1>5
<1>7. f = Shape(f)
  <2>1. f = [n \in Nat |-> f[n]]
    OBVIOUS
  <2>2. ASSUME NEW n \in Nat PROVE f[n] = IF n = 0 THEN NoInfo ELSE Turn(f[n - 1], N, A)
    <3>1. CASE n = 0
      BY <1>6, <3>1
    <3>2. CASE n # 0
      <4>1. n - 1 \in Nat /\ (n - 1) + 1 = n
        BY <3>2
      <4>2. f[(n - 1) + 1] = step[f[n - 1]] /\ f[n - 1] \in T
        BY <1>6, <4>1
      <4> QED
        BY <1>3, <3>2, <4>1, <4>2
    <3> QED
      BY <3>1, <3>2
  <2>3. Shape(f) = [n \in Nat |-> f[n]]
    BY <2>2
  <2> QED
    BY <2>1, <2>3
<1>8. Turned = Shape(Turned)
  <2>1. \E g : g = Shape(g)
    BY <1>7
  <2> HIDE DEF Shape
  <2> QED
    BY <2>1
<1> HIDE DEF Turned
<1>9. \A n \in Nat : Turned[n] = IF n = 0 THEN NoInfo ELSE Turn(Turned[n - 1], N, A)
  BY <1>8
<1> DEFINE Far(n) == Turned[n] \in T /\ (Finished(N, Turned[n]) \/ n <= Progress(N, Turned[n]))
           R == {n \in Nat : Far(n)}
<1>10. \A s \in T : Progress(N, s) \in Nat /\ Progress(N, s) <= k /\ (Progress(N, s) = k => Finished(N, s))
  BY <1>t, ProgressIsBounded DEF k
<1>11. R = Nat
  <2>1. 0 \in R
    <3>1. Turned[0] = NoInfo /\ Progress(N, NoInfo) \in Nat
      BY <1>1, <1>9, <1>10
    <3> QED
      BY <1>1, <3>1
  <2>2. ASSUME NEW n \in R PROVE n + 1 \in R
    <3>1. n \in Nat /\ n + 1 \in Nat /\ n + 1 # 0 /\ (n + 1) - 1 = n
      BY <2>2
    <3>2. Turned[n + 1] = Turn(Turned[n], N, A) /\ Turned[n] \in T
      BY <1>9, <2>2, <3>1
    <3>3. Turned[n + 1] \in T
      BY <1>2, <3>2
    <3>4. CASE Finished(N, Turned[n])
      BY <1>2, <3>1, <3>2, <3>3, <3>4
    <3>5. CASE ~Finished(N, Turned[n])
      <4>1. n <= Progress(N, Turned[n]) /\ Progress(N, Turned[n]) + 1 <= Progress(N, Turned[n + 1])
        BY <1>2, <2>2, <3>2, <3>5
      <4>2. Progress(N, Turned[n]) \in Nat /\ Progress(N, Turned[n + 1]) \in Nat
        BY <1>10, <3>2, <3>3
      <4>3. n + 1 <= Progress(N, Turned[n + 1])
        BY <3>1, <4>1, <4>2
      <4> QED
        BY <3>1, <3>3, <4>3
    <3> QED
      BY <3>4, <3>5
  <2> HIDE DEF R
  <2> QED
    BY <2>1, <2>2, Induction DEF R
<1>12. k \in Nat
  <2>1. all \in Nat
    BY FS_CardinalityType DEF IsGraph
  <2> HIDE DEF all
  <2> QED
    BY <2>1 DEF k
<1>13. Turned[k] \in T /\ (Finished(N, Turned[k]) \/ k <= Progress(N, Turned[k]))
  <2>1. k \in R
    BY <1>11, <1>12
  <2> QED
    BY <2>1
<1>14. Finished(N, Turned[k])
  BY <1>10, <1>12, <1>13
<1> QED
  BY <1>4, <1>13, <1>14, <1>t, FinishedFindsAll
-----------------------------------------------------------------------------
\* The graph that pairs of classes make: an edge for each pair.
LEMMA ReplacesIsGraph ==
    ASSUME NEW K, IsFiniteSet(K), K \in SUBSET Entity, NEW edges, edges \in SUBSET (K \X K)
    PROVE  /\ IsGraph(DOMAIN Replaces(edges), Replaces(edges))
           /\ DOMAIN Replaces(edges) \in SUBSET K
           /\ \A c, d : c \in DOMAIN Replaces(edges) /\ d \in Replaces(edges)[c] <=> <<c, d>> \in edges
           /\ \A c, d : <<c, d>> \in edges => c \in DOMAIN Replaces(edges) /\ d \in DOMAIN Replaces(edges)
<1> DEFINE A == Replaces(edges)
           N == {e[1] : e \in edges} \cup {e[2] : e \in edges}
<1>1. DOMAIN A = N /\ \A c \in N : A[c] = {e[2] : e \in {x \in edges : x[1] = c}}
  BY DEF Replaces
<1>2. A \in [N -> SUBSET N]
  BY DEF Replaces
<1>3. \A e \in edges : e = <<e[1], e[2]>> /\ e[1] \in K /\ e[2] \in K
  OBVIOUS
<1>4. N \in SUBSET K
  BY <1>3
<1>5. IsFiniteSet(N)
  BY <1>4, FS_Subset
<1>6. \A c, d : <<c, d>> \in edges => c \in N /\ d \in N
  <2> TAKE c, d
  <2>1. <<c, d>>[1] = c /\ <<c, d>>[2] = d
    OBVIOUS
  <2> QED
    BY <2>1
<1>7. \A c, d : c \in N /\ d \in A[c] <=> <<c, d>> \in edges
  <2> TAKE c, d
  <2>1. ASSUME c \in N, d \in A[c] PROVE <<c, d>> \in edges
    <3>1. PICK e \in edges : e[1] = c /\ e[2] = d
      BY <1>1, <2>1
    <3> QED
      BY <1>3, <3>1
  <2>2. ASSUME <<c, d>> \in edges PROVE c \in N /\ d \in A[c]
    <3>1. <<c, d>>[1] = c /\ <<c, d>>[2] = d /\ c \in N
      BY <1>6, <2>2
    <3> QED
      BY <1>1, <2>2, <3>1
  <2> QED
    BY <2>1, <2>2
<1> HIDE DEF A, N
<1>8. IsGraph(N, A)
  BY <1>2, <1>4, <1>5 DEF IsGraph
<1> QED
  BY <1>1, <1>4, <1>6, <1>7, <1>8 DEF A

\* Edges turned round, from what is replaced to what replaces it.
Backwards(edges) == {<<e[2], e[1]>> : e \in edges}

\* What replaces something, directly or through others, is what edges lead
\* from, one at least, to it.
LEMMA AboveIs ==
    ASSUME NEW K, IsFiniteSet(K), K \in SUBSET Entity, NEW edges, edges \in SUBSET (K \X K),
           NEW c, NEW first, \A d : d \in first <=> <<d, c>> \in edges
    PROVE  ReachedFrom(Backwards(edges), first) =
              {d \in DOMAIN Replaces(edges) : \E y \in Replaces(edges)[d] : c \in Reach(Replaces(edges), y)}
<1> DEFINE A == Replaces(edges)
           N == DOMAIN A
           newer == {<<e[2], e[1]>> : e \in edges}
           U == ReachedFrom(newer, first)
           V == {d \in N : \E y \in A[d] : c \in Reach(A, y)}
<1>1. /\ IsGraph(N, A) /\ \A z \in N : A[z] \in SUBSET N
      /\ \A a, b : a \in N /\ b \in A[a] <=> <<a, b>> \in edges
      /\ \A a, b : <<a, b>> \in edges => a \in N /\ b \in N
  BY ReplacesIsGraph DEF IsGraph
<1>2. /\ \A e \in edges : e = <<e[1], e[2]>>
      /\ \A a, b : <<b, a>> \in newer <=> <<a, b>> \in edges
      /\ \A q \in newer : q = <<q[1], q[2]>>
  <2>1. \A e \in edges : e = <<e[1], e[2]>>
    OBVIOUS
  <2>2. \A q \in newer : \E e \in edges : q = <<e[2], e[1]>>
    OBVIOUS
  <2>3. \A q \in newer : q = <<q[1], q[2]>>
    BY <2>2
  <2>4. ASSUME NEW a, NEW b, <<b, a>> \in newer PROVE <<a, b>> \in edges
    <3>1. PICK e \in edges : <<b, a>> = <<e[2], e[1]>>
      BY <2>2, <2>4
    <3> QED
      BY <2>1, <3>1
  <2>5. ASSUME NEW a, NEW b, <<a, b>> \in edges PROVE <<b, a>> \in newer
    <3>1. <<a, b>>[1] = a /\ <<a, b>>[2] = b
      OBVIOUS
    <3> QED
      BY <2>5, <3>1
  <2> QED
    BY <2>1, <2>3, <2>4, <2>5
<1>3. IsFiniteSet(newer)
  <2> DEFINE back == [e \in edges |-> <<e[2], e[1]>>]
  <2>1. IsFiniteSet(edges)
    BY FS_Product, FS_Subset
  <2>2. newer = {back[e] : e \in edges} /\ DOMAIN back = edges
    OBVIOUS
  <2> HIDE DEF back
  <2> QED
    BY <2>1, <2>2, ImageIsFinite
<1>4. /\ first \subseteq U /\ \A q \in newer : q[1] \in U => q[2] \in U
      /\ \A S : first \subseteq S /\ (\A q \in newer : q[1] \in S => q[2] \in S) => U \subseteq S
  BY ONLY <1>3, ReachedIsLeast
<1> HIDE DEF U, A, N, newer
<1>5. \A a, b : <<a, b>> \in edges /\ b \in U => a \in U
  <2> SUFFICES ASSUME NEW a, NEW b, <<a, b>> \in edges, b \in U PROVE a \in U
    OBVIOUS
  <2>1. <<b, a>> \in newer /\ <<b, a>>[1] = b /\ <<b, a>>[2] = a
    BY <1>2
  <2> QED
    BY <1>4, <2>1
<1>6. U \subseteq V
  <2>1. ASSUME NEW d \in first PROVE d \in V
    <3>1. d \in N /\ c \in A[d] /\ c \in N
      BY <1>1
    <3>2. c \in Reach(A, c)
      BY <1>1, <3>1, ReachIsLeast
    <3> QED
      BY <3>1, <3>2
  <2>2. ASSUME NEW q \in newer, q[1] \in V PROVE q[2] \in V
    <3> DEFINE b == q[1]
               a == q[2]
    <3>1. <<a, b>> \in edges
      BY <1>2
    <3> HIDE DEF a, b
    <3>2. a \in N /\ b \in A[a] /\ b \in N
      BY <1>1, <3>1
    <3>3. PICK y \in A[b] : c \in Reach(A, y)
      BY <2>2 DEF b
    <3>4. A[b] \subseteq Reach(A, b) /\ \A z \in Reach(A, b) : Reach(A, z) \subseteq Reach(A, b)
      BY <1>1, <3>2, ReachIsLeast
    <3>5. c \in Reach(A, b)
      BY <3>3, <3>4
    <3>6. a \in V
      BY <3>2, <3>5
    <3> QED
      BY <3>6 DEF a
  <2> HIDE DEF V
  <2>3. first \subseteq V
    BY <2>1
  <2> QED
    BY <1>4, <2>2, <2>3
<1>7. ASSUME NEW d \in N, NEW y \in A[d], c \in Reach(A, y) PROVE d \in U
  <2> DEFINE S == {z \in N : z = c \/ z \in U}
             T == N \ S
  <2>1. y \in N /\ <<d, y>> \in edges
    BY <1>1
  <2>2. ClosedIn(A, T)
    <3> SUFFICES ASSUME NEW z \in T, NEW u \in A[z], u \in S PROVE FALSE
      BY <1>1 DEF ClosedIn
    <3>1. <<z, u>> \in edges
      BY <1>1
    <3>2. u = c => z \in U
      BY <1>4, <3>1
    <3>3. u \in U => z \in U
      BY <1>5, <3>1
    <3> QED
      BY <3>2, <3>3
  <2>3. c \in N
    <3>1. Reach(A, y) \in SUBSET N
      BY <1>1, <2>1, ReachIsLeast
    <3> QED
      BY <1>7, <3>1
  <2>4. y \in S
    <3> SUFFICES ASSUME y \in T PROVE FALSE
      BY <2>1
    <3>1. T \in SUBSET N
      OBVIOUS
    <3>2. c \notin T
      OBVIOUS
    <3> HIDE DEF T
    <3>3. Reach(A, y) \subseteq T
      BY <1>1, <2>1, <2>2, <3>1, ReachIsLeast
    <3> QED
      BY <1>7, <3>2, <3>3
  <2>5. y = c => d \in U
    BY <1>4, <2>1
  <2>6. y \in U => d \in U
    BY <1>5, <2>1
  <2> QED
    BY <2>4, <2>5, <2>6
<1>8. U = V
  BY <1>6, <1>7
<1>9. Backwards(edges) = newer
  BY DEF Backwards, newer
<1> QED
  BY <1>8, <1>9 DEF U, N, A

\* A loop, as everything above a class that has the class above it: the
\* component of a class that edges lead back to.
LEMMA LoopIsComponent ==
    ASSUME NEW N, NEW A, IsGraph(N, A), NEW c \in N, Cyclic(A, c)
    PROVE  {d \in N : (\E y \in A[d] : c \in Reach(A, y)) /\ (\E y \in A[c] : d \in Reach(A, y))}
              = Strongly(A, c)
<1>1. \A x \in N : /\ A[x] \subseteq Reach(A, x) /\ Reach(A, x) \in SUBSET N
                   /\ \A y \in Reach(A, x) : Reach(A, y) \subseteq Reach(A, x)
  BY ReachIsLeast
<1>2. \A x \in N : A[x] \in SUBSET N
  BY DEF IsGraph
<1>3. ASSUME NEW d \in N, \E y \in A[d] : c \in Reach(A, y), \E y \in A[c] : d \in Reach(A, y)
      PROVE  d \in Strongly(A, c)
  <2>1. c \in Reach(A, d)
    BY <1>1, <1>3
  <2>2. d \in Reach(A, c)
    BY <1>1, <1>3
  <2> QED
    BY <2>1, <2>2 DEF Strongly
<1>4. ASSUME NEW d \in Strongly(A, c)
      PROVE  /\ d \in N /\ \E y \in A[d] : c \in Reach(A, y)
             /\ \E y \in A[c] : d \in Reach(A, y)
  <2>1. d \in Reach(A, c) /\ c \in Reach(A, d)
    BY DEF Strongly
  <2>2. d \in N /\ c \in Strongly(A, d)
    BY StronglyShared
  <2>3. Cyclic(A, d)
    <3>1. CASE d = c
      BY <3>1
    <3>2. CASE d # c
      BY <2>2, <3>2, CyclicIs
    <3> QED
      BY <3>1, <3>2
  <2>4. PICK y \in A[d] : d \in Reach(A, y)
    BY <2>3 DEF Cyclic
  <2>5. PICK z \in A[c] : c \in Reach(A, z)
    BY DEF Cyclic
  <2>6. c \in Reach(A, y)
    BY <1>1, <1>2, <2>1, <2>2, <2>4
  <2>7. d \in Reach(A, z)
    BY <1>1, <1>2, <2>1, <2>5
  <2> QED
    BY <2>2, <2>6, <2>7
<1> QED
  BY <1>3, <1>4
-----------------------------------------------------------------------------
\* The pairs of classes that a view says replace each other, and the loops it
\* reports of them.
LEMMA LoopsOfView ==
    ASSUME AcceptInv, NEW v \in Views
    PROVE  /\ DOMAIN v.class = v.entries
           /\ IsFiniteSet(Range(v.class)) /\ Range(v.class) \in SUBSET Entity
           /\ v.supersedes \in SUBSET (Range(v.class) \X Range(v.class))
           /\ {c.molecules : c \in {x \in v.conflicts : x.kind = "loop"}} =
                 {MembersOf(v.class, C) :
                     C \in cycles(DOMAIN Replaces(v.supersedes), Replaces(v.supersedes))}
<1> DEFINE g == entities
           S == subscribed
           o == OrderOf(g, S)
           C == ClaimsOf(g, S)
           E == InView(g, S)
           standing == Standing(C, o)
           links == On(standing, "equivalence")
           over == On(standing, "supersession")
           against == On(standing, "contradiction")
           class == ClassOf(E, links)
           records == TruthRecords(class, C, o)
<1>1. IsRight(o)
  BY OrderOfIsRight
<1>2. ReadsAs(v, Who(g, E, S), standing, class, records, Withdrawn(C, o))
  <2>1. v = Build(g, S)
    BY DEF Views
  <2> HIDE DEF g, S
  <2> QED
    BY <1>1, <2>1, ViewReadsClaims
<1>3. /\ v.entries = E /\ v.class = class /\ v.supersedes = Edges(class, over)
      /\ {c \in v.conflicts : c.kind # "succession"} =
            TruthConflicts(class, records) \cup LoopConflicts(class, over)
               \cup ContradictionConflicts(class, against, Who(g, E, S))
  BY <1>2 DEF ReadsAs, Who
<1>4. DOMAIN class = E /\ \A e \in E : class[e] = Name(Unite(links), e)
  BY DEF ClassOf, Name
<1>5. E \subseteq Entity /\ E \in SUBSET DOMAIN entities /\ IsFiniteSet(DOMAIN entities)
  BY EntitiesAreFinite DEF InView, AcceptInv, GraphInv, GraphTypeOK
<1>6. ClaimSet(links)
  BY StandingIsClaimSet
<1> HIDE DEF class, E, links, over, against, records
<1>7. \A e \in E : class[e] \in Entity
  <2>1. \A cl \in links : cl.a \in Entity <=> cl.b \in Entity
    BY <1>6 DEF ClaimSet
  <2>2. \A x \in Entity : x \in Entity <=> Name(Unite(links), x) \in Entity
    BY <1>6, <2>1, UniteLinks
  <2> QED
    BY <1>4, <1>5, <2>2
<1>8. IsFiniteSet(Range(class)) /\ Range(class) \in SUBSET Entity
  <2>1. IsFiniteSet(E)
    BY <1>5, FS_Subset
  <2>2. Range(class) = {class[e] : e \in E}
    BY <1>4 DEF Range
  <2> QED
    BY <1>4, <1>7, <2>1, <2>2, ImageIsFinite
<1>9. Edges(class, over) \in SUBSET (Range(class) \X Range(class))
  <2> SUFFICES ASSUME NEW cl \in BothIn(DOMAIN class, over)
               PROVE  Edge(class, cl) \in Range(class) \X Range(class)
    BY DEF Edges
  <2>1. cl.a \in DOMAIN class /\ cl.b \in DOMAIN class
    BY DEF BothIn
  <2>2. class[cl.a] \in Range(class) /\ class[cl.b] \in Range(class)
    BY <2>1 DEF Range
  <2> QED
    BY <2>2 DEF Edge
<1>10. {x \in v.conflicts : x.kind = "loop"} = LoopConflicts(class, over)
  <2>1. /\ \A c \in TruthConflicts(class, records) : c.kind = "truth"
        /\ \A c \in LoopConflicts(class, over) : c.kind = "loop"
        /\ \A c \in ContradictionConflicts(class, against, Who(g, E, S)) : c.kind = "contradiction"
    BY ConflictKinds
  <2> QED
    BY <1>3, <2>1
<1>11. {c.molecules : c \in LoopConflicts(class, over)} =
          {MembersOf(class, X) : X \in cycles(DOMAIN Replaces(Edges(class, over)), Replaces(Edges(class, over)))}
  <2> DEFINE within(X) == {cl \in BothIn(DOMAIN class, over) : {class[cl.a], class[cl.b]} \subseteq X}
             edges == Edges(class, over)
             record(X) == [kind |-> "loop", molecules |-> MembersOf(class, X),
                           meta |-> Declared(within(X)).meta,
                           declarers |-> Declared(within(X)).declarers]
             all == cycles(DOMAIN Replaces(edges), Replaces(edges))
  <2>1. LoopConflicts(class, over) = {record(X) : X \in all}
    BY DEF LoopConflicts
  <2> HIDE DEF within, all
  <2>2. \A X : record(X).molecules = MembersOf(class, X)
    OBVIOUS
  <2> HIDE DEF record
  <2>3. {c.molecules : c \in LoopConflicts(class, over)} = {MembersOf(class, X) : X \in all}
    BY <2>1, <2>2
  <2> QED
    BY <2>3 DEF all
<1> QED
  BY <1>3, <1>4, <1>8, <1>9, <1>10, <1>11

\* The classes of a view that something replaces directly.
LEMMA NewerIs ==
    ASSUME NEW v, NEW K, v.supersedes \in SUBSET (K \X K), NEW c
    PROVE  \A d : d \in Newer(v, {c}) <=> <<d, c>> \in v.supersedes
<1>1. \A e \in v.supersedes : e = <<e[1], e[2]>>
  OBVIOUS
<1>2. \A d : <<d, c>>[1] = d /\ <<d, c>>[2] = c
  OBVIOUS
<1>3. \A d : d \in Newer(v, {c}) <=> \E e \in v.supersedes : e[2] = c /\ e[1] = d
  BY DEF Newer
<1> QED
  BY <1>1, <1>2, <1>3

\* In a state the layers get to, the loops a view reports are those that
\* replacing makes.
LEMMA LoopsOfTheInvariant == AcceptInv => LoopsAreReported
<1> SUFFICES ASSUME AcceptInv, NEW v \in Views,
                    NEW newer, newer = {<<e[2], e[1]>> : e \in v.supersedes}
             PROVE  LET above(c) == ReachedFrom(newer, Newer(v, {c}))
                        loop(c) == {d \in above(c) : c \in above(d)}
                    IN  {c.molecules : c \in {x \in v.conflicts : x.kind = "loop"}} =
                           {MembersOf(v.class, loop(c)) : c \in {x \in Range(v.class) : x \in above(x)}}
  BY DEF LoopsAreReported
<1> DEFINE K == Range(v.class)
           edges == v.supersedes
           A == Replaces(edges)
           N == DOMAIN A
           above(c) == ReachedFrom(newer, Newer(v, {c}))
           loop(c) == {d \in above(c) : c \in above(d)}
<1>1. /\ IsFiniteSet(K) /\ K \in SUBSET Entity /\ edges \in SUBSET (K \X K)
      /\ {c.molecules : c \in {x \in v.conflicts : x.kind = "loop"}} =
            {MembersOf(v.class, C) : C \in cycles(N, A)}
  BY LoopsOfView
<1>2. IsGraph(N, A) /\ N \in SUBSET K
  BY <1>1, ReplacesIsGraph
<1> HIDE DEF K
<1>3. \A c : above(c) = {d \in N : \E y \in A[d] : c \in Reach(A, y)}
  <2> TAKE c
  <2> DEFINE first == Newer(v, {c})
  <2>1. \A d : d \in first <=> <<d, c>> \in edges
    BY <1>1, NewerIs
  <2>2. newer = Backwards(edges)
    BY DEF Backwards
  <2> HIDE DEF first, edges
  <2>3. ReachedFrom(newer, first) = {d \in DOMAIN Replaces(edges) :
                                        \E y \in Replaces(edges)[d] : c \in Reach(Replaces(edges), y)}
    <3>1. IsFiniteSet(K) /\ K \in SUBSET Entity /\ edges \in SUBSET (K \X K)
      BY <1>1
    <3> QED
      BY ONLY <3>1, <2>1, <2>2, AboveIs
  <2> QED
    BY <2>3 DEF first
<1>4. cycles(N, A) = {Strongly(A, x) : x \in {y \in N : Cyclic(A, y)}}
  BY <1>2, CyclesAre
<1> HIDE DEF A, N, above, edges
<1>5. {x \in K : x \in above(x)} = {x \in N : Cyclic(A, x)}
  BY <1>2, <1>3 DEF Cyclic
<1>6. \A c \in {x \in N : Cyclic(A, x)} : loop(c) = Strongly(A, c)
  <2> SUFFICES ASSUME NEW c \in N, Cyclic(A, c) PROVE loop(c) = Strongly(A, c)
    OBVIOUS
  <2>1. loop(c) = {d \in N : (\E y \in A[d] : c \in Reach(A, y)) /\ (\E y \in A[c] : d \in Reach(A, y))}
    BY <1>3
  <2> QED
    BY <1>2, <2>1, LoopIsComponent
<1>7. {MembersOf(v.class, C) : C \in cycles(N, A)} =
         {MembersOf(v.class, loop(c)) : c \in {x \in K : x \in above(x)}}
  <2> HIDE DEF loop
  <2> QED
    BY <1>4, <1>5, <1>6
<1> QED
  BY <1>1, <1>7 DEF A, N, above, edges, K

\* In every state and for every subscription, the loops a view reports are
\* those of its supersessions, each as all the classes that replace each other
\* (supersede.go, applySupersession and cycles).
THEOREM LoopsAreAlwaysReported == Spec => []LoopsAreReported
  BY LoopsOfTheInvariant, AcceptInvariant, PTL
-----------------------------------------------------------------------------
\* What replacing leads to from X, as Current visits it: what the pairs turned
\* round reach.
LEMMA VisitedIs ==
    ASSUME NEW v, NEW K, IsFiniteSet(K), v.supersedes \in SUBSET (K \X K), NEW X \in SUBSET K
    PROVE  /\ Visited(v, X) = ReachedFrom(Backwards(v.supersedes), X)
           /\ IsFiniteSet(Backwards(v.supersedes))
<1> DEFINE edges == v.supersedes
           newer == Backwards(edges)
           Forth(C) == C \cup Newer(v, C)
           T == SUBSET K
           Shape(f) == [n \in Nat |-> IF n = 0 THEN X ELSE Forth(f[n - 1])]
           Within == CHOOSE f : f = Shape(f)
           Reached(f) == [n \in Nat |-> IF n = 0 THEN X
                                        ELSE f[n - 1] \cup {p[2] : p \in {q \in newer : q[1] \in f[n - 1]}}]
           Found == CHOOSE f : f = Reached(f)
           step == [C \in T |-> Forth(C)]
<1>1. \A C : Newer(v, C) = {p[2] : p \in {q \in newer : q[1] \in C}}
  <2> TAKE C
  <2>1. newer = {<<e[2], e[1]>> : e \in edges}
    BY DEF Backwards
  <2>2. \A e \in edges : <<e[2], e[1]>>[1] = e[2] /\ <<e[2], e[1]>>[2] = e[1]
    OBVIOUS
  <2>3. Newer(v, C) = {x[1] : x \in {y \in edges : y[2] \in C}}
    BY DEF Newer
  <2> HIDE DEF newer, edges
  <2>4. ASSUME NEW d \in Newer(v, C) PROVE d \in {p[2] : p \in {q \in newer : q[1] \in C}}
    <3>1. PICK e \in edges : e[2] \in C /\ d = e[1]
      BY <2>3
    <3> DEFINE q == <<e[2], e[1]>>
    <3>2. q \in newer /\ q[1] \in C /\ q[2] = d
      BY <2>1, <2>2, <3>1
    <3> HIDE DEF q
    <3> QED
      BY <3>2
  <2>5. ASSUME NEW q \in newer, q[1] \in C PROVE q[2] \in Newer(v, C)
    <3>1. PICK e \in edges : q = <<e[2], e[1]>>
      BY <2>1
    <3>2. e[2] \in C /\ q[2] = e[1]
      BY <2>2, <2>5, <3>1
    <3> QED
      BY <2>3, <3>2
  <2> QED
    BY <2>4, <2>5
<1>2. IsFiniteSet(edges) /\ IsFiniteSet(newer) /\ Cardinality(newer) = Cardinality(edges)
  <2> DEFINE turned == [e \in edges |-> <<e[2], e[1]>>]
  <2>1. IsFiniteSet(edges)
    BY FS_Product, FS_Subset
  <2>2. \A e \in edges : e = <<e[1], e[2]>>
    OBVIOUS
  <2>3. turned \in Bijection(edges, newer)
    <3>1. turned \in Surjection(edges, newer)
      BY DEF Surjection, Backwards
    <3>2. \A a, b \in edges : turned[a] = turned[b] => a = b
      BY <2>2
    <3> HIDE DEF turned, newer
    <3>3. turned \in Injection(edges, newer)
      BY <3>1, <3>2 DEF Injection, IsInjective, Surjection
    <3> QED
      BY <3>1, <3>3 DEF Bijection
  <2> HIDE DEF turned, newer, edges
  <2>4. ExistsBijection(edges, newer)
    BY <2>3 DEF ExistsBijection
  <2> QED
    BY <2>1, <2>4, FS_Bijection
<1> DEFINE k == Cardinality(edges)
<1>3. Visited(v, X) = Within[k]
  BY DEF Visited
<1>4. ReachedFrom(newer, X) = Found[Cardinality(newer)]
  BY DEF ReachedFrom
<1>5. k \in Nat
  BY <1>2, FS_CardinalityType
<1>6. step \in [T -> T] /\ X \in T
  <2> SUFFICES ASSUME NEW C \in T, NEW e \in edges PROVE e[1] \in K
    BY DEF Newer
  <2> QED
    OBVIOUS
<1>7. \A C \in T : step[C] = Forth(C)
  OBVIOUS
<1>8. \A C : Forth(C) = C \cup {p[2] : p \in {q \in newer : q[1] \in C}}
  BY <1>1
<1> HIDE DEF step, T, k, Forth, newer, edges
<1>9. \E f \in [Nat -> T] : f[0] = X /\ \A n \in Nat : f[n + 1] = step[f[n]]
  <2>1. X \in T
    BY <1>6
  <2>2. step \in [T -> T]
    BY <1>6
  <2> QED
    BY ONLY <2>1, <2>2, RecursionExists
<1>10. PICK f \in [Nat -> T] : f[0] = X /\ \A n \in Nat : f[n + 1] = step[f[n]]
  BY <1>9
<1>11. f = Shape(f)
  <2>1. f = [n \in Nat |-> f[n]]
    OBVIOUS
  <2>2. ASSUME NEW n \in Nat PROVE f[n] = IF n = 0 THEN X ELSE Forth(f[n - 1])
    <3>1. CASE n = 0
      BY <1>10, <3>1
    <3>2. CASE n # 0
      <4>1. n - 1 \in Nat /\ (n - 1) + 1 = n
        BY <3>2
      <4>2. f[(n - 1) + 1] = step[f[n - 1]] /\ f[n - 1] \in T
        BY <1>10, <4>1
      <4> QED
        BY <1>7, <3>2, <4>1, <4>2
    <3> QED
      BY <3>1, <3>2
  <2>3. Shape(f) = [n \in Nat |-> f[n]]
    BY <2>2
  <2> QED
    BY <2>1, <2>3
<1>12. \A g : Shape(g) = Reached(g)
  BY <1>8
<1>13. Within = Shape(Within)
  <2>1. \E g : g = Shape(g)
    BY <1>11
  <2> HIDE DEF Shape
  <2> QED
    BY <2>1
<1>14. Found = Reached(Found)
  <2>0. f = Reached(f)
    <3>1. Shape(f) = Reached(f)
      BY <1>12
    <3> HIDE DEF Shape, Reached
    <3> QED
      BY <1>11, <3>1
  <2>1. \E g : g = Reached(g)
    BY <2>0
  <2> HIDE DEF Reached
  <2> QED
    BY <2>1
<1>15. Found = Shape(Found)
  BY <1>12, <1>14
<1> HIDE DEF Within, Found
<1>16. /\ \A n \in Nat : Within[n] = IF n = 0 THEN X ELSE Forth(Within[n - 1])
       /\ \A n \in Nat : Found[n] = IF n = 0 THEN X ELSE Forth(Found[n - 1])
  BY <1>13, <1>15
<1> DEFINE R == {n \in Nat : Within[n] = Found[n]}
<1>17. R = Nat
  <2>1. 0 \in R
    BY <1>16
  <2>2. ASSUME NEW n \in R PROVE n + 1 \in R
    <3>1. n \in Nat /\ n + 1 \in Nat /\ n + 1 # 0 /\ (n + 1) - 1 = n
      OBVIOUS
    <3> QED
      BY <1>16, <3>1
  <2> HIDE DEF R
  <2> QED
    BY <2>1, <2>2, Induction DEF R
<1>18. Within[k] = Found[k]
  BY <1>5, <1>17
<1> QED
  BY <1>2, <1>3, <1>4, <1>18 DEF k, newer, edges

\* Where everything has something newer, something is newer than itself: what
\* has the fewest above it has among them all that those have.
LEMMA NewestLoops ==
    ASSUME NEW K, IsFiniteSet(K), NEW R, R # {}, NEW above, above \in [R -> SUBSET K],
           \A c \in R : \E d \in R : d \in above[c] /\ above[d] \subseteq above[c]
    PROVE  \E d \in R : d \in above[d]
<1> DEFINE sizes == {Cardinality(above[c]) : c \in R}
<1>1. \A c \in R : above[c] \in SUBSET K /\ IsFiniteSet(above[c]) /\ Cardinality(above[c]) \in Nat
  BY FS_Subset, FS_CardinalityType
<1>2. sizes \in SUBSET Nat /\ sizes # {}
  BY <1>1
<1>3. \A m \in sizes : \E c \in R : m = Cardinality(above[c])
  OBVIOUS
<1>4. \A c \in R : Cardinality(above[c]) \in sizes
  OBVIOUS
<1> HIDE DEF sizes
<1>5. PICK m \in sizes : \A n \in sizes : m <= n
  BY <1>2, LeastNumber
<1>6. PICK c \in R : m = Cardinality(above[c])
  BY <1>3
<1>7. PICK d \in R : d \in above[c] /\ above[d] \subseteq above[c]
  OBVIOUS
<1>8. Cardinality(above[d]) <= Cardinality(above[c])
  BY <1>1, <1>7, FS_Subset
<1>9. Cardinality(above[d]) = Cardinality(above[c])
  BY <1>1, <1>4, <1>5, <1>6, <1>8
<1>10. above[d] = above[c]
  BY <1>1, <1>7, <1>9, FS_Subset
<1> QED
  BY <1>7, <1>10

\* In a state the layers get to, a view's current versions are those nothing
\* replaces that replacing leads to; where there are none it leads into a loop.
LEMMA CurrentOfTheInvariant == AcceptInv => CurrentIsReached
<1> SUFFICES ASSUME AcceptInv, NEW v \in Views, NEW m \in v.entries
             PROVE  LET newer == {<<e[2], e[1]>> : e \in v.supersedes}
                        up == MembersOf(v.class, ReachedFrom(newer, {v.class[m]}))
                    IN  /\ Current(v, m) = {x \in up : ~IsSuperseded(v, x)}
                        /\ Current(v, m) = {} => up \cap Looping(v) # {}
  BY DEF CurrentIsReached
<1> DEFINE newer == {<<e[2], e[1]>> : e \in v.supersedes}
           looping == Looping(v)
           up == MembersOf(v.class, ReachedFrom(newer, {v.class[m]}))
           K == Range(v.class)
           edges == v.supersedes
           A == Replaces(edges)
           N == DOMAIN A
           R == ReachedFrom(newer, {v.class[m]})
           above == [c \in R |-> ReachedFrom(newer, Newer(v, {c}))]
           loop(d) == {x \in ReachedFrom(newer, Newer(v, {d})) : d \in ReachedFrom(newer, Newer(v, {x}))}
<1>1. /\ IsFiniteSet(K) /\ K \in SUBSET Entity /\ edges \in SUBSET (K \X K)
      /\ DOMAIN v.class = v.entries
  BY LoopsOfView
<1>2. newer = Backwards(edges)
  BY DEF Backwards
<1>3. v.class[m] \in K /\ {v.class[m]} \in SUBSET K /\ \A c \in K : \E x \in v.entries : v.class[x] = c
  BY <1>1 DEF Range
<1> HIDE DEF K
<1>4. Visited(v, {v.class[m]}) = R /\ IsFiniteSet(newer)
  <2> DEFINE X == {v.class[m]}
  <2>1. X \in SUBSET K
    BY <1>3
  <2> HIDE DEF X
  <2>2. Visited(v, X) = ReachedFrom(Backwards(v.supersedes), X) /\ IsFiniteSet(Backwards(v.supersedes))
    BY <1>1, <2>1, VisitedIs
  <2> QED
    BY <1>2, <2>2 DEF X
<1>5. \A c, d : <<c, d>> \in newer <=> <<d, c>> \in edges
  <2>1. \A e \in edges : e = <<e[1], e[2]>>
    BY <1>1
  <2> QED
    BY <2>1
<1>6. \A c, d : d \in Newer(v, {c}) <=> <<d, c>> \in edges
  BY <1>1, NewerIs
<1>7. \A q \in newer : q = <<q[1], q[2]>>
  OBVIOUS
<1>l. {c.molecules : c \in {x \in v.conflicts : x.kind = "loop"}} =
         {MembersOf(v.class, loop(c)) : c \in {x \in K : x \in ReachedFrom(newer, Newer(v, {x}))}}
  BY LoopsOfTheInvariant DEF LoopsAreReported, K
<1> HIDE DEF newer
<1>8. /\ v.class[m] \in R
      /\ \A q \in newer : q[1] \in R => q[2] \in R
      /\ \A Z : {v.class[m]} \subseteq Z /\ (\A q \in newer : q[1] \in Z => q[2] \in Z) => R \subseteq Z
  BY ONLY <1>4, ReachedIsLeast
<1>9. \A c \in R : Newer(v, {c}) \subseteq R
  <2> SUFFICES ASSUME NEW c \in R, NEW d \in Newer(v, {c}) PROVE d \in R
    OBVIOUS
  <2>1. <<c, d>> \in newer /\ <<c, d>>[1] = c /\ <<c, d>>[2] = d
    BY <1>5, <1>6
  <2> QED
    BY <1>8, <2>1
<1>10. R \subseteq K
  <2>1. \A q \in newer : q[2] \in K
    <3> SUFFICES ASSUME NEW q \in newer PROVE q[2] \in K
      OBVIOUS
    <3>1. <<q[2], q[1]>> \in edges
      BY <1>5, <1>7
    <3> QED
      BY <1>1, <3>1
  <2> QED
    BY <1>3, <1>8, <2>1
<1>11. Current(v, m) = MembersOf(v.class, {c \in R : Newer(v, {c}) = {}})
  BY <1>4 DEF Current
<1>12. \A x : IsSuperseded(v, x) <=> x \in v.entries /\ Newer(v, {v.class[x]}) # {}
  BY DEF IsSuperseded
<1> HIDE DEF R
<1>13. Current(v, m) = {x \in up : ~IsSuperseded(v, x)}
  <2>1. up = {x \in v.entries : v.class[x] \in R}
    BY <1>1 DEF MembersOf, R
  <2>2. Current(v, m) = {x \in v.entries : v.class[x] \in {c \in R : Newer(v, {c}) = {}}}
    BY <1>1, <1>11 DEF MembersOf
  <2> QED
    BY <1>12, <2>1, <2>2
<1>14. ASSUME Current(v, m) = {} PROVE up \cap looping # {}
  <2>1. ASSUME NEW c \in R PROVE \E d \in R : d \in Newer(v, {c})
    <3>1. PICK x \in v.entries : v.class[x] = c
      BY <1>3, <1>10
    <3>2. Newer(v, {c}) # {}
      <4> SUFFICES ASSUME Newer(v, {c}) = {} PROVE FALSE
        OBVIOUS
      <4>1. x \in MembersOf(v.class, {a \in R : Newer(v, {a}) = {}})
        BY <1>1, <3>1 DEF MembersOf
      <4> QED
        BY <1>11, <1>14, <4>1
    <3> QED
      BY <1>9, <3>2
  <2>2. ASSUME NEW c \in R
        PROVE  /\ Newer(v, {c}) \subseteq above[c] /\ \A q \in newer : q[1] \in above[c] => q[2] \in above[c]
               /\ \A Z : Newer(v, {c}) \subseteq Z /\ (\A q \in newer : q[1] \in Z => q[2] \in Z)
                            => above[c] \subseteq Z
    <3> DEFINE first == Newer(v, {c})
    <3>1. above[c] = ReachedFrom(newer, first)
      OBVIOUS
    <3> HIDE DEF first, above
    <3>2. /\ first \subseteq ReachedFrom(newer, first)
          /\ \A q \in newer : q[1] \in ReachedFrom(newer, first) => q[2] \in ReachedFrom(newer, first)
          /\ \A Z : first \subseteq Z /\ (\A q \in newer : q[1] \in Z => q[2] \in Z)
                       => ReachedFrom(newer, first) \subseteq Z
      BY ONLY <1>4, ReachedIsLeast
    <3> QED
      BY ONLY <3>1, <3>2 DEF first
  <2>3. ASSUME NEW c \in R, NEW d \in R, d \in Newer(v, {c})
        PROVE  d \in above[c] /\ above[d] \subseteq above[c]
    <3>1. d \in above[c]
      BY <2>2, <2>3
    <3>2. Newer(v, {d}) \subseteq above[c]
      <4> SUFFICES ASSUME NEW b \in Newer(v, {d}) PROVE b \in above[c]
        OBVIOUS
      <4>1. <<d, b>> \in newer /\ <<d, b>>[1] = d /\ <<d, b>>[2] = b
        BY <1>5, <1>6
      <4> HIDE DEF above
      <4> QED
        BY <2>2, <3>1, <4>1
    <3> HIDE DEF above
    <3> QED
      BY <2>2, <3>1, <3>2
  <2>4. above \in [R -> SUBSET K]
    <3> SUFFICES ASSUME NEW c \in R PROVE above[c] \subseteq K
      OBVIOUS
    <3>1. \A q \in newer : q[2] \in K
      <4> SUFFICES ASSUME NEW q \in newer PROVE q[2] \in K
        OBVIOUS
      <4>1. <<q[2], q[1]>> \in edges
        BY <1>5, <1>7
      <4> QED
        BY <1>1, <4>1
    <3>2. Newer(v, {c}) \subseteq K
      BY <1>9, <1>10
    <3> HIDE DEF above
    <3> QED
      BY <2>2, <3>1, <3>2
  <2>5. PICK d \in R : d \in above[d]
    <3> HIDE DEF above
    <3>1. R # {} /\ \A c \in R : \E d \in R : d \in above[c] /\ above[d] \subseteq above[c]
      BY <1>8, <2>1, <2>3
    <3> QED
      BY ONLY <1>1, <2>4, <3>1, NewestLoops
  <2>6. d \in ReachedFrom(newer, Newer(v, {d}))
    BY <2>5
  <2>7. d \in K /\ d \in loop(d)
    BY <1>10, <2>6
  <2> HIDE DEF loop, above
  <2>8. MembersOf(v.class, loop(d)) \in
           {c.molecules : c \in {x \in v.conflicts : x.kind = "loop"}}
    BY <1>l, <2>6, <2>7
  <2>9. MembersOf(v.class, loop(d)) \subseteq looping
    BY <2>8 DEF Looping
  <2>10. PICK x \in v.entries : v.class[x] = d
    BY <1>3, <2>7
  <2>11. x \in up /\ x \in MembersOf(v.class, loop(d))
    BY <1>1, <2>7, <2>10 DEF MembersOf, R
  <2> QED
    BY <2>9, <2>11
<1> QED
  BY <1>13, <1>14 DEF newer

\* In every state and for every subscription, an application is shown the
\* versions nothing replaces, of those that replacing leads to, and is shown
\* none only where a reported loop is in the way
\* (accept.go, Current; supersede.go, applySupersession).
THEOREM CurrentIsAlwaysReached == Spec => []CurrentIsReached
  BY CurrentOfTheInvariant, AcceptInvariant, PTL
=============================================================================
