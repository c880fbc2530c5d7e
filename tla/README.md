# A TLA+ development of Dialog's Go node

Dialog is a protocol for publishing semantic statements as signed, hash-chained
blocks. A node stores blocks it receives in any order (Layer 1), derives a graph
of entities from them (Layer 2) and a user's view of what holds (Layer 3). This
directory specifies the Go implementation under `src/go` and the node of
`src/demo`, checks them with TLC on small instances, and proves the properties that
matter most with TLAPS. Every
definition is translated from the code; `PROJECT.json` names the lines.

Contents: [the system](#the-system), [the modules](#the-modules),
[the code in steps](#from-code-to-steps), [the runs](#the-runs),
[disagreements](#disagreements-with-the-documentation), [the proofs](#the-proofs),
[not modelled](#not-modelled), [the plan](#the-plan).

## The system

| part | code | state | operations |
|---|---|---|---|
| block structure | `block/block.go`, `op.go`, `payload.go`, `decode.go` | none: a `*Block` is immutable | build, sign, decode; `Content.Validate`, `Payload.Validate` |
| MemStore | `block/store.go` | the blocks; an index by (author, prev); an index by referenced digest; one RWMutex | `Add`, `AddAll`; `Block`, `Has`, `BlocksWithPrev`, `BlocksReferencing`, `Forks`, `Tips` |
| validation | `block/validate.go` | none across calls; a resolver per call | `Validate`, `ValidatePayload` |
| ValidatingStore | `block/verdict.go` | a MemStore; a verdict per block; the blocks waiting for a block; a second RWMutex | `Add` (admit, store, record, file, settle, take); `Verdict`, `Report`, `Accepted`, `Rejected`, `Pending` |
| chains | `block/chain.go` | none | `ValidateChain`, `ValidateSuccession`, `Successors`, `ValidateHistory` |
| graph (L2) | `graph/graph.go` | entities, digests by kind, creators, references, referrers; one RWMutex | `Ingest`, `IngestPayload`, queries |
| acceptance (L3) | `accept/*.go` | a view, built once | `Build`, queries |
| synchronisation | `transport/sync.go`, `resolver.go`, `announce.go` | resume positions per source, asked sources, fetched and failed digests | `SyncChain`, `SyncChainFrom`, `Resolver.Block`, `Announce` |
| server, client | `transport/server.go`, `client.go`, `seq.go` | none of their own | tip, range, siblings, block, blocks, announce over HTTP |
| builder | `block/builder.go` | the tip of a chain, whether it has rotated | `Public`, `Rotation`, `Private`, `Succeeds` |
| privacy | `privacy/*.go` | none | seal and open a payload, wrap its key |
| encodings | `cid`, `dcbor`, `entity` | none | canonical bytes, digests, entities |
| TypeScript node | `ts/src` | its own, single-threaded | the same protocol |
| demo node | `demo/internal/chainfile`, `replay` | a store and a graph, loaded once | `Load` |
| query server | `demo/cmd/dialog-mcp` | the subscribed authors and the view for them; one RWMutex | change subscriptions; provenance, truth and other readings |
| commands, vectors | `go/cmd`, `go/internal`, `demo/internal/publish`, `render` | none | flags, fixtures, rendering |

**How they interact.** A server's announce handler and a syncer call
`ValidatingStore.Add` for every block they receive. `Add` validates through
`block.Validate`, which reads the very store it is to be added to (through the
`Store` interface, one lock acquisition per read), or through a
`transport.Resolver`, which fetches missing blocks while validation waits. The
graph is built from accepted blocks, the L3 view from a graph and a source that
answers `Accepted`. The server answers a peer from a branch it walks through the
store, one lock acquisition per position, and the peer's syncer checks that answer
and offers its blocks. The demo's node fills a MemStore and a graph from files, and
its query server builds a view per set of authors and swaps it under its lock.

**What is hard.**

- `ValidatingStore.Add` holds no lock across validation. Every look at the store
  sees a different state, and the acceptance written at the end rests on all of
  them (`verdict.go:218`).
- Blocks arrive in any order, more than once, and before what they reference.
  Absence must never count as evidence, and what waited must be decided when
  what it waits for arrives, through chains of waiting blocks.
- A block can be held but unreadable (private, no key), and malformed inside.
- A fork can form at any slot, from any goroutine. It is to be detected, never
  resolved.
- Two pairs of hand-kept indexes shadow the sets they index.
- The scan limit, the resume positions, the pursuit bound, the branch choice
  of the server and the bound on a body are boundaries that only odd histories reach.
- A server answers from a store that grows while it looks, a resolver shares a
  cache between goroutines that fetch outside its lock, and a query server's view
  is replaced between two readings.
- A digest names a block only if each block has exactly one encoding; encoder and
  decoder are written apart and must agree.
- L3 computes fixed points and classes over declarations that different authors
  make about each other, cycles included.

`PROJECT.json` lists these as `hazards`, each at its line, with the properties
that are there to catch it or the reason none is there yet.

**What makes each part correct.**

| part | correct if |
|---|---|
| MemStore | both indexes say what a scan of the blocks would say; every fork is reported by exactly the additions that made it |
| validation | what the resolver accepts is what the declarative rules accept, and it rejects nothing a fuller store could accept |
| ValidatingStore | acceptance is inductive along chains and never taken back; nothing that waits is lost; whatever the interleaving, the accepted blocks are ones that a one-block-at-a-time account allows; every call returns |
| chains | what was valid stays valid as blocks arrive; a succession in doubt is joined by nobody and reported |
| graph | the five indexes agree; a failed ingest changes nothing; the graph depends on the set of blocks only |
| L3 | classes, current versions and conflicts are the closures the specification describes, the same for every order of the blocks; nobody but an author takes back what the author said |
| sync | the local store ends up holding the chain up to the source's tip, or the call says it does not |
| server, announce | an answer hides nothing that was held when the request came; a receipt tells the final state of each block |
| resolver | a failure remembered hides nothing obtained since, and nothing is fetched without need |
| encodings, builder | what one side wrote the other reads, in one form only; a damaged body yields nothing its author did not sign |
| demo node | it holds the chains of its directory, all of them, or does not exist; changes of view are told exactly |

## The modules

| module | models | notes |
|---|---|---|
| `Blocks` | `block.go`, `op.go` | the universe of blocks, as the constant `content`, and what every `*Block` satisfies, as assumptions |
| `MemStore` | `store.go` | state and operations, one atomic operator each |
| `MemStoreCalls` | `AddAll` over a shared MemStore | a complete specification, so that MemStore can be checked and proved about alone |
| `Resolution` | `validate.go`: the references pass and the resolver | pure: a validation in progress is a record, each operator one turn of it |
| `Validity` | rules 3 to 6 and 10 without an algorithm | reachability as least closed sets; the reference the resolver is compared with |
| `ValidatingStore` | `verdict.go` over `MemStore` and `Resolution` | the core: a program counter per goroutine, one step per lock acquisition |
| `BlockReception` | the promise of Layer 1 | the abstract specification: a set of kept and a set of valid blocks |
| `Chain` | `chain.go` | questions asked of a store at one moment |
| `Announce` | `announce.go`, `handleAnnounce` | composes `ValidatingStore` with the two passes of a request |
| `Branch` | `server.go`: `at`, `branch`, `walk`, `tipOf`; `CheckRange` | pure: what a source serves of a forked chain, as one step |
| `Serving` | `server.go`: the handlers of the five reading requests | composes `MemStoreCalls` with walks that take one position at a time |
| `Sync` | `sync.go`: `SyncChain`, `SyncChainFrom` and all they call; `client.go` | composes `ValidatingStore` with `Branch`: a call in progress is a record, its offers are calls of `Add` |
| `TransportResolver` | `resolver.go` | `Block` and `Prefetch`, one step per look at or write to the cache and per exchange |
| `Graph` | `graph.go` | Layer 2: an ingest is one step, as its lock makes it |
| `Lineage` | `accept/order.go` | logical histories, with what an order remembers |
| `Meta` | `accept/meta.go`, `standing.go` | meta-molecules, which of them stand, union-find |
| `View` | `accept.go`, `truth.go`, `supersede.go`, `declaration.go`, `conflict.go` | `Build` and the queries: truth, Tarjan's components, the current version |
| `Acceptance` | the way through the layers | composes `MemStore`, `Chain`, `Graph` and `View` |
| `Node` | `demo/internal/replay`, `chainfile`, `demo/cmd/dialog-mcp` | composes the same parts, loaded from a directory, with a server whose view is replaced |
| `Dcbor` | `dcbor/*.go` | encoder and strict decoder, byte by byte |
| `Entities` | `entity/*.go` | fillers, scalars and molecules as values, templates |
| `BlockEncoding` | `block.go`, `decode.go`, `payload.go`, `privacy.go` | a block and its bytes, sealing and opening |
| `BlockSequence` | `builder.go`, `seq.go` | authors who write, a body on its way, a reader with a bound |
| `MCUniverse`, `MCMolecules`, `MC...` | - | small universes and the symmetry for TLC |
| `...Proofs` | - | lemmas and theorems |

Two families share nothing but names: blocks as digests (`Blocks` and what
extends it; `TransportResolver` takes only the digests and their relations from it)
and blocks as bytes (`Dcbor` and what extends it). `MCTransport` puts a server
(`Serving`) or a resolver (`TransportResolver`) over one store that is written to.

`ValidatingStore` EXTENDS `MemStore` (its blocks and indexes are part of the
state) and `Validity` (which EXTENDS `Resolution`). `ValidatingStore` implements
`BlockReception` under the mapping `held <- blocks, valid <- accepted`. `Announce`
EXTENDS it and lets its goroutines offer whole requests. `Sync` EXTENDS `ValidatingStore`: the
goroutine `syncer` calls `Add` only as the syncer's code does, the other goroutines
as they like. `Branch` says in one step what `Serving` does in many: `Sync` takes an
honest peer's answer from `Branch`, and `QuietAnswersAgree` in `Serving` shows that
a store at rest gives that answer.

Definitions preceded by a comment that starts with *Mutant* are wrong on purpose:
a version of the next definition with a plausible mistake in it. No specification
uses one; each shows that a property is able to fail.

## From code to steps

A block *is* its digest: SHA-256 over the canonical bytes. So `Digest` is the set
of blocks that may exist and `content` gives each one's fields; nothing forces
a store to hold any of them. Construction (rules 1, 2, 7 and 8: encoding,
signature, shape) is the assumption `WellFormedContent`, because no `*Block`
exists without it; hashing gives `HashesAreAcyclic`. A private block's `refs` and
`ops` in `content` are those of its payload; `Refs(d)` gives the empty list that
the plaintext block has. An entity is its digest, a filler count is the Boolean
`fits`.

A call of `Add` is a path through `pc`:

| pc | the code that runs next | where it comes from |
|---|---|---|
| `lookup` | is the block accepted already | `verdict.go:206` |
| `linkage` | `store.Block(prev)` | `validate.go:418` |
| `verdict` | `store.Accepted(prev)`, then author and rotation | `validate.go:428` |
| `siblings` | `BlocksWithPrev`, the fork report | `validate.go:371` |
| `refs` | one entry of refs, rules 6 and 10 | `validate.go:521` |
| `resolve` | one operation reference, one ancestor, one queue entry | `validate.go:551`, `657` |
| `store` | `MemStore.Add` | `verdict.go:222` |
| `record` | the verdict and the index of waiters, under `mu` | `verdict.go:242` |
| `done` | the branch on what admit returned | `verdict.go:171` |
| `take`, `waiters` | `settle`'s two loops | `verdict.go:279` |

A step is what happens between one lock acquisition and the next. Steps that
touch no shared state (arithmetic on the resolver, the branch at `done`) are
steps too, so a behaviour of the model is finer than one of the program and
never coarser. `admit` is used twice, by a caller and by `settle`;
`arrived[p]` says which.

The resolver's `blocks` cache is not state here: it remembers blocks that were
found, and a MemStore never drops one, so a lookup gives the same answer with it.
What the resolver could *not* find it does not remember, and the model looks
again, as the code does.

**Synchronisation.** A call of `SyncChain` is the record `call`; `call.at` names
the code that runs next. A request to a source and its answer are one step.

| `call.at` | the code that runs next | where it comes from |
|---|---|---|
| `source` | the loop over sources, `ctx.Err()` | `sync.go:234` |
| `tip` | `src.Tip`, then the position to ask from | `sync.go:296` |
| `range` | one turn of the loop over pages | `sync.go:323` |
| `offer` | `ctx.Err()`, then `resolveRefs` | `sync.go:467`, `490` |
| `add` | the fetched refs, then the block itself, to `Add` | `sync.go:507`, `478` |
| `check` | `Has(claimed)` | `sync.go:353` |
| `pursue` | one turn of the walk back | `sync.go:399` |
| `siblings`, `sibling`, `added` | the three loops of `querySiblings` | `sync.go:518` |

While `Add` runs, `pc[syncer]` moves and `call` waits. The sources are the
environment: one in `Honest` answers as `server.go` does from the blocks it holds
by then (`Branch`), any other with whatever `client.go` lets through, and one in
`Flaky` may fail; between two requests a source may gain blocks, and the context
may be cancelled. A source never fails the walk back by returning another block:
to the client that is a failed fetch. `heldTip` and one answer of a server are
one step each although the code looks at one position at a time.

**Announcing.** A request is its sequence of blocks: `offers[p]` is what is left of
the first loop, `readings[p]` of the second; between two of them the client may go
away (`Cancel`). A block's disposition is read under the store's lock, one block a
step, as the code reads it.

**Serving.** `progress[r].phase` names the loop a handler is in: `at` (the cursor
must be a held block), `walk` and `tip` (one position of `walk` or `tipOf`), `fetch`
(one digest of a blocks request), `reply`. A range walks for its body, then again for
its tip header; the model keeps both walks and what may arrive between them.

**Resolving.** `call[p].phase` is the place in `Block` or `Prefetch`: the local
store, the cache, the context, one source, then `keep` or `fail`. Between any two of
them other goroutines move and the local store may gain blocks. A source answers or
does not, and may do otherwise the next time. A local store that fails with anything
but "not found" ends the call, and nothing is remembered of it.

**The graph and a view.** `Ingest` holds the write lock from its first look to its
last write: one step. `Build` reads a graph and a store once and is a function. A
view changes by being built again: an action that ingests a block changes what
`Build` gives, and properties of steps compare the view before with the one after.
Lists without duplicates in ascending order, which is how this code keeps every
index, are sets. Recursion in the code is a path or a machine here: placing a block walks
back to what is placed and then counts forward (`PathTo`, `Along`), and Tarjan's
recursion is a stack of calls. A value that is used often is bound by a set of one
member, so that TLC computes it once. The refusal of a digest held as another kind has no state to happen
in, since an entity's kind is part of what its digest is taken over.

**The node.** `Load` is read, store, validate, ingest, chain by chain; a failure at
any step ends it without a node. Reading is one step, since nothing else happens yet:
`EntryAgrees` is what `readChain` compares, field by field, and `Reads` adds what is
asked of the index as a whole. Of the warnings a report may carry, that of a block
dated before its predecessor is `InTime`; the others come of blocks that are missing or
private, which fail the load by themselves. `SetSubscriptions` then `BuildView` then `Swap` then
`Report` is one change of subscriptions: only the swap is under the lock.

**Bytes.** An unsigned argument is its big-endian bytes without leading zeros, so
it has its full 64 bits; an operator that may refuse returns a set, empty when it
does. Field names are one byte, since only that they differ matters, and a key and
its public key are one value. SHA-256, Ed25519 and the AEAD are constants; a run
gives them two-byte checksums that depend on every byte and its place.

## The runs

| run | instance | processes | what it shows |
|---|---|---|---|
| `store` | 9 blocks: a chain that forks into a block and a rotation; blocks of three authors that need each other's entities | 2 goroutines | `TypeOK`, `AcceptedChain`, `FiledUntilArrival`, `AcceptedRefs`, `OneDirection`, `ImplementsReception` |
| `announce` | 19 blocks in three families: plain, private (sealed, opened, garbled), and two missing at once; scan limit 2 | 1 | `ReceiptIsFinal`, `LeftBehindStillWaits`, `AcceptedChainsStayValid`, `RejectionIsDefinitive`, `ScanCount`, `AnnounceTerminates` |
| `sync` | two genesis blocks and a fork, two honest sources that grow | 1 | `ExposedForksAreFound` |
| `sync_unreliable` | an unsound block, a block with a foreign ref; a source that answers anything, or fails; in one family of behaviours another goroutine offers blocks | 1 or 2 | `TipIsReached`, `RejectedIsUnsound`, `ResumeCoversTheChain`, `SyncTerminates` |
| `transport` | two branches, a hole, a block that refers to the other branch; a server, or a Resolver with 2 sources and 3 calls, over one store | 2 writers and 1 reader, or 1 writer and 2 that resolve | `IndexesAgree`, `EveryForkIsFlagged`, `AnswersHideNothing`, `QuietAnswersAgree`, `MissingIsNotObtained` |
| `acceptance` | 10 blocks of 4 authors, all five meta-bonds, a disputed rotation, private blocks; 3 sets of subscriptions | - | `GraphIsItsBlocks`, `IndexesAgreeWithNodes`, `OrderFollowsHistory`, `HistoriesAgree`, `EquivalenceIsTheClosure`, `DisagreementsAreSurfaced`, `LoopsAreReported`, `CurrentIsReached`, `NobodyHasAVeto`, `OthersChangeNothing` |
| `node` | 23 directories: whole, in part and in two orders, and others spoilt in a way of their own; 4 requests | 2 clients | `LoadIsExact`, `ReportsAddUp`, `AnswersAreAttributed` |
| `encoding` | 2 authors, up to 3 blocks, 22 items, exponents -3..3 and mantissas -128..127; a cut of up to 2 bytes or one damaged byte | - | `WhatIsSentIsRead`, `DamageIsNoticed`, `OneEncoding`, `DecimalsAreExact`, `PayloadsStayInPlace` |
| `lost_wakeup` | the chain | 2 | one property, violated |
| `dangling` | a chain with a branch of two blocks beside one of one, an honest source that may fail | 1 | one property, violated |
| `reannounce` | the instance of `announce` | 1 | one property, violated |
| `fork_race` | the instance of `store` | 2 | one property, violated |

What each property says is in the comment above it. Every component's module states
its type invariant; `store` checks that of the core, and those of ValidatingStore,
MemStoreCalls, Serving, Sync, Announce, the resolver and the graph are proved. Those of
the other modules say only what their variables may hold, and any cfg can take them
as one more INVARIANT. The ones that carry the weight:

- *Layer 1.* `AcceptedChain` (an accepted block's ancestry is accepted although its
  verdict was computed from stale reads), `ImplementsReception` (whatever the
  goroutines do, an observer of the two sets sees the one-block-at-a-time account),
  `RejectionIsDefinitive` (no rejection that a fuller store or another key would
  undo), `FiledUntilArrival` (the index of waiters loses nothing),
  `LeftBehindStillWaits` (with one caller at rest, a block is undecided only if it
  could not be accepted or if the block it is filed under is missing) and `AcceptedChainsStayValid` (what `ValidateChain`
  said once it says for good).
- *Transport.* `ExposedForksAreFound` (a sync that reports no error has brought in
  every block of the advertised chain that forks with the store, whichever way the
  source switched branches), `TipIsReached`, `ResumeCoversTheChain`,
  `ReceiptIsFinal`, `AnswersHideNothing` and `MissingIsNotObtained`: an answer given
  while the store moved is one a peer can build on.
- *Layers 2 and 3.* `GraphIsItsBlocks` (no order of arrival shows in the graph),
  `IndexesAgreeWithNodes` (its indexes say what a scan of it would),
  `OrderFollowsHistory` and `HistoriesAgree` (two pieces of code that read
  successions from opposite ends agree), `CurrentIsReached`, and the two step
  properties `NobodyHasAVeto` and `OthersChangeNothing`.
- *Encodings.* `OneEncoding` (a block has one digest because nothing else decodes
  to it) and `DamageIsNoticed`.

**Bounds.** In `store`, `announce` and the Sync runs the bound is the universe of
blocks and the number of goroutines; no counter is capped, since a store that only
grows makes every call finite. In `store` any block may be offered at any time, by
any goroutine, any number of times. Two goroutines suffice for the interleavings the
code is exposed to: each hazard is between a goroutine that decides and one that
changes what was decided upon, and the steps of a third add no kind of change that
a second offer of the second goroutine does not. The proofs do not depend on this:
they hold for any `Proc`. The universes are chosen so that each branch of the
validator is taken: a genesis, a successor, a rotation, a fork, a block after a
rotation, a block on another author's chain; refs that arrive late, in a chain of
two, that break rules 5, 6 and 10; an entity of the wrong kind; private blocks as
ancestors and through refs, with and without a key, and malformed; one held block
named by two refs lists, with a limit that is reached.

The other bounds, by name:

- `Announces`: the sequences of a request, chosen to come backwards, in pieces, with
  and without what they need. Any of them, again and again.
- `PageLimit`, `MaxPages`, `MaxPursuit`: the syncer's own fields, set to 1 or 2 to
  bite. `Gains`: what an honest source may come to hold. In `sync` no source fails
  and the walk's bound covers the longest branch; `dangling` shows what happens
  otherwise. `Families`: which blocks and goroutines a behaviour uses.
- `Limits`, `Wanted`, `Batches`: the range limit, the digests a blocks request
  names, the batches of `AddAll`. A limit of two stops one walk and not another.
- `MaxCalls`: three calls on one Resolver, so two may overlap and a third come
  after both. The proofs hold for any number. In `transport` a behaviour has the
  server or the Resolver beside the goroutines that add blocks, since neither writes
  to the store the other reads.
- `Backlog`: how many blocks of `acceptance` are held and not yet ingested; the
  order of ingestion stays free.
- `Directories`, `Requests`, `MaxChanges`: what a node may be loaded from, what a
  client may subscribe to, and three changes of subscriptions. Of the spoilt
  directories each fails one check: a file that is missing, stray, undecodable or of
  another author, an index that does not parse, has another format, or says a false
  digest, key, number, size or count of operations, a chain with a gap, a fork, a
  private block or a block dated before its predecessor.
- `MaxDepth` 7 for 64, `IntBits` 8 for 64, the sizes of keys and digests, bounds on
  a body of one byte less than, exactly and more than what is sent, and none.
  `ItemNoise` and `Noise` are what a damaged byte is changed by.

**Symmetry.** `store` uses the permutations of `Proc`. No definition names a
goroutine, and it checks invariants and step properties only; liveness is checked in
runs without symmetry.

**Fairness.** `FairAnnounceSpec` is weak fairness of each request's next step: the
Go scheduler runs a runnable goroutine, and mutexes are not held across anything
that blocks, so a step of a begun call is never disabled by another goroutine for
good. Beginning a request has none: nobody is obliged to announce. The Sync runs add
weak fairness of the call in progress: a request is answered or fails, since the
client's transport has a timeout (`client.go:169`). The sources' gains, the
cancellation and the next call have none. `AnnounceTerminates` and `SyncTerminates`
need no more than that. The other specifications state no fairness, and no liveness
is claimed of them.

**Deadlock** is checked where something can always happen. Four runs end in states
where all that the bounds allow has been done (all batches added, all calls made,
all blocks ingested, a directory that does not load, a body read), and say so with
`CHECK_DEADLOCK FALSE`.

## Disagreements with the documentation

Four runs end in a counterexample to something the repository itself says.

- `lost_wakeup` (`verdict.go:227`). A goroutine that has found a block's
  predecessor missing files the block later; a second goroutine that admits the
  predecessor and settles it in between takes a list without it. The block stays
  undecided, with its predecessor accepted, until it is offered again.
- `dangling` (`sync.go:353`, `411`). A walk that fails hands over what it fetched,
  so the tip is stored without its ancestry. The next sync tests only whether the
  tip is held, pursues nothing and reports no error, although the source would
  serve the rest by now; the position it keeps makes the range empty, and the fork
  behind the tip is never found. A tip that a ref brought in has the same effect.
- `reannounce` (`verdict.go:297`). A waiting block that turns out to break a rule
  when its request completes it keeps its undecided verdict and is reported held;
  announced again it is rejected. `spec/07-transport.md:174` promises the same
  receipt.
- `fork_race` (`verdict.go:264`). Two goroutines judge two blocks of one slot, and
  each lists the siblings before the other stores its block. Both blocks are
  accepted, the `ForkError` that would have shown the fork is dropped because
  "Validate has already detected it and put it in the report" (`verdict.go:258-260`),
  and no report has it. `Forks()` does.

One more shows in a passing run: "A molecule caught in a supersession cycle has no
current version at all" (`accept.go:523`), but where something outside the loop
supersedes a member of it, `Current` returns that (`accept.go:541`). The instance of
`acceptance` has such a loop, and `CurrentIsReached` states what `Current` returns.

Others were met on the way; no run is spent on them.

- Between storing a block and recording its verdict (`verdict.go:222`, two locks) a
  reader sees a held block without a verdict, while `verdict.go:17-19` says that the
  absence of a verdict means the store does not hold the block.
- A block whose refs list two missing blocks is filed under the first only
  (`validate.go:787`); the arrival of the second, if that is the one it needs, does
  not wake it. `NothingLeftBehind`, which `lost_wakeup` refutes with two goroutines, is
  false for this reason even with one; `LeftBehindStillWaits` says what does hold.
- An equivalence through molecules outside the view unites what it links, but the
  declarations in its middle are filed under no class (`accept.go:322-325`,
  `declaration.go:130-136` say otherwise).
- A truth conflict's declarers include authors of older statements that are not
  among its meta-molecules (`conflict.go:124`).
- A successor key cannot withdraw what its predecessor key declared: standing is
  kept per key and lineage (`standing.go`), and by the meta-molecule's own digest,
  not its class.
- `ValidateHistory` affirms a history whose genesis block names two rotations that
  appoint its key, which the block order calls ambiguous; `HistoriesAgree` says so
  by its condition.
- The subscriptions tool's "Nothing was resolved. The authors who disagreed are no
  longer both in the view" (`subscriptions.go:170`) is false when dropping a third
  author ended the equivalence that joined two molecules.
- The index is said to list chains in "the order they must be replayed in"
  (`chainfile.go:77-79`); `Load` stores the blocks of all chains before it validates
  any, so it takes them in any order, and `LoadIsExact` asks nothing of it.
- The comment on `ParseTemplateVariables` lets a closing underscore open the next
  variable; the code, and its own example, do not.

## The proofs

The theorems are for every value of the constants: any finite universe of blocks,
any goroutines, keys, sources and bounds. They rest on the named assumptions
`NullsAssumption`, `ContentAssumption`, `WellFormedContent`, `DigestsAreFinite`,
`HashesAreAcyclic` (`Blocks`), `MoleculeAssumption` (`Meta`: a molecule's fillers are
pairs of a type and a value of that type), `OptionsAssumption`, `RankAssumption`,
`BatchesAssumption`, `ServingAssumption`, `SyncAssumption`, `AnnouncesAssumption`,
`ResolverAssumption` and `NodeAssumption` (blocks have timestamps and sizes, and an index
lists sequences of entries, each chain under a key that may not parse), which TLC evaluates in the runs.

Three hypotheses appear in some theorems. *One caller* (`\A p, q \in Proc : p = q`) is
there where the statement is false with two: the count of scanned blocks,
the waiters woken and a receipt's finality all rest on nothing arriving
while a block is judged, which nothing in the code ensures. *Plain* (no scan limit,
no garbled payload) leaves aside the two ways of rejecting a block that a complete
store would accept. *Dependable* (`Sync`) is what a sync needs to leave no gap: honest
sources that do not fail, nobody else who writes to the store, a bound on pursuits
that no synced chain is longer than and, where references are resolved, none to a
synced author's block whose past is not already behind the block that refers (a
block fetched for a reference comes without its chain). Where a source may
fail, a gap is what `dangling` shows. TLC evaluates the hypothesis on the instance of
`sync`.

The last column says which run checks the same property on its small instance; the
others are stated for what they are worth to the theorems beside them.

| theorem | property | module | run |
|---|---|---|---|
| `TypeCorrect` | `TypeOK` of ValidatingStore | `ValidatingStoreProofs` | `store` |
| `AcceptancesAreWellFounded` | `AcceptedChain` | `ValidatingStoreProofs` | `store` |
| `AncestryIsHeld` | `NoAncestorGap` | `ValidatingStoreProofs` | - |
| `PendingIsFiled` | `FiledUntilArrival` | `ValidatingStoreProofs` | `store` |
| `VerdictsHaveBlocks` | `VerdictsAreOfHeldBlocks` | `ValidatingStoreProofs` | - |
| `VerdictsMoveOneWay` | `OneDirection` | `ValidatingStoreProofs` | `store` |
| `RefsAreChecked` | `AcceptedRefs` | `ValidatingStoreProofs` | `store` |
| `StoreImplementsReception` | `ImplementsReception` | `ValidatingStoreProofs` | `store` |
| `RejectionsAreDefinitive` | `RejectionIsDefinitive` | `ValidatingStoreProofs` | `announce` |
| `ScansAreCounted`, one caller | `ScanCount` | `ValidatingStoreProofs` | `announce` |
| `WaitersAreWoken`, one caller, Plain | `LeftBehindStillWaits` | `AnnounceProofs` | `announce` |
| `AcceptedChainsAlwaysValid` | `AcceptedChainsStayValid` | `AnnounceProofs` | `announce` |
| `ReceiptsAreFinal`, one caller, Plain | `ReceiptIsFinal` | `AnnounceProofs` | `announce` |
| `ResumeHasNoGap`, Plain | `ResumeCoversTheChain` | `SyncProofs` | `sync_unreliable` |
| `TipsAreReached`, Plain | `TipIsReached` | `SyncProofs` | `sync_unreliable` |
| `RejectedIsAlwaysUnsound`, Plain | `RejectedIsUnsound` | `SyncProofs` | `sync_unreliable` |
| `DependableSyncFindsForks`, Plain, Dependable | `ExposedForksAreFound` | `SyncProofs` | `sync` |
| `MemStoreIndexesAgree` | `IndexesAgree` | `ServingProofs` | `transport` |
| `ForksAreAlwaysThePairs` | `ForksAreTheForkingPairs` | `ServingProofs` | - |
| `EveryForkIsAlwaysFlagged` | `EveryForkIsFlagged` | `ServingProofs` | `transport` |
| `AnswersNeverHide` | `AnswersHideNothing` | `ServingProofs` | `transport` |
| `QuietAnswersAlwaysAgree` | `QuietAnswersAgree` | `ServingProofs` | `transport` |
| `MissingIsNeverObtained` | `MissingIsNotObtained` | `ResolverProofs` | `transport` |
| `NothingIsAskedTwice` | `AskedOnce` | `ResolverProofs` | - |
| `FailuresAreAlwaysListed` | `FailuresAreListed` | `ResolverProofs` | - |
| `GraphIsAlwaysItsBlocks` | `GraphIsItsBlocks` | `ViewProofs` | `acceptance` |
| `IndexesAlwaysAgree` | `IndexesAgreeWithNodes` | `ViewProofs` | `acceptance` |
| `GraphAccumulates` | `Accumulates` | `ViewProofs` | - |
| `AcceptanceUsesTheGraph` | `Spec => GraphSpec` | `ViewProofs` | - |
| `OrderAlwaysFollowsHistory` | `OrderFollowsHistory` | `ViewProofs` | `acceptance` |
| `HistoriesAlwaysAgree` | `HistoriesAgree` | `ViewProofs` | `acceptance` |
| `EquivalenceIsAlwaysTheClosure` | `EquivalenceIsTheClosure` | `ViewProofs` | `acceptance` |
| `DisagreementsAreAlwaysSurfaced` | `DisagreementsAreSurfaced` | `ViewProofs` | `acceptance` |
| `LoopsAreAlwaysReported` | `LoopsAreReported` | `ViewProofs` | `acceptance` |
| `CurrentIsAlwaysReached` | `CurrentIsReached` | `ViewProofs` | `acceptance` |
| `NobodyEverHasAVeto` | `NobodyHasAVeto` | `ViewProofs` | `acceptance` |
| `OthersNeverChangeAnything` | `OthersChangeNothing` | `ViewProofs` | `acceptance` |
| `LoadIsAlwaysExact` | `LoadIsExact` | `NodeProofs` | `node` |
| `AnswersAreAlwaysAttributed` | `AnswersAreAttributed` | `NodeProofs` | `node` |
| `ReportsAlwaysAddUp` | `ReportsAddUp` | `NodeProofs` | `node` |

and the type invariants of MemStoreCalls, Serving, Announce, Sync, the resolver and
the graph (`CallsTypeCorrect`, `ServingTypeCorrect`, `AnnounceTypeCorrect`,
`SyncTypeCorrect` under Plain, `ResolverTypeCorrect`, `GraphTypeCorrect`).

*Type correctness of the ValidatingStore.* `TypeOK` is not inductive: to type the
queue and the list in hand one must know that a goroutine at a given `pc` has a
block in hand, and that a validation under way has an operation to look at.
`TypeInv` adds exactly that.

*Acceptance.* The acceptance of a block is written several steps after its
predecessor's verdict was read. `StoreInvariant` carries the fact across:
`CallInv(p)` says what goroutine `p` has established at each `pc` (from `siblings`
on, the predecessor is accepted and rule 3 holds; the ancestor the resolver will
look at next is accepted or held; a pending admission names a block and the block
in hand is stored before it is recorded), `StoreInv` what the store satisfies between
them. It is preserved by another goroutine's steps because all it says about the
store is monotone: `Grows` shows that `blocks` and `accepted` only grow,
`CallsStable` that this is enough. `StoreStep` has one step per action.

*References.* `ChecksInv(p)` says, while `p` validates, that every entry of refs
before the one it is at is held and obeys rules 6 and 10 or is in the report; the
report travels with the admission until `Record` writes it down, and a verdict
written is never rewritten. The invariant needs nothing of the acceptance
proof but the types.

*Decisions.* What the resolver may find is a closure (`Validity`), defined as a least
closed set; `ClosureLeast` gives that characterisation from the recursive function
that computes it. `Trace(d, v, held)` relates a traversal under way to it: it has
reached nothing outside the closure (`Reached`), the references it has passed are
sound (`Passed`), and unless it noted a gap it has left out nothing (`Followed`). The
first two justify an acceptance and grow with the store; the last justifies a
rejection, since a traversal that is complete without a gap has seen all any larger
store could add. `Hopeless` is what a rejection then means. `DecisionInv` is `Trace`
at each `pc`; the refinement follows because the two steps that change `blocks` or
`accepted` are steps of `BlockReception`, and all others stutter (`ReceptionStep`).

*One caller.* `OneInv` says that the count is the number of held foreign blocks
visited (`CountRight`), and that a block is never among its own foreign blocks
(`HashesAreAcyclic`). `WakeInv` says of
each undecided block that it is filed under something that will wake it (`Kept`), or
that the caller has it still ahead (`Ahead`): in hand, in the list it took, or filed
under a block in settle's queue. It speaks of the predecessor separately, because an
arrival wakes what awaits a block and an acceptance wakes what awaits its verdict.
`FreshInv` says that the block in hand is not accepted while it is judged; then
what is rejected is hopeless and never becomes accepted, and `ReceiptsInv` can say
of a receipt under way what must still hold when it is sent.

*Accepted chains.* Acceptance is closed under prev, so `walk`, taken as the recursive
function it is, never leaves the accepted blocks (`AcceptedWalk`). This holds with
any number of callers.

*Sync.* The call hands blocks over and the store answers later, beside other
goroutines. `SyncInv` speaks of the store only through two sets, `Answered` (known,
unsound, or being added) and `Covered` (held, unsound, or being added), and both only
grow (`AnswersGrow`). `CallOk` says what the call has established at each place: the
position it will keep has its chain in `Covered` or in hand, and each source that is
done claims no more than was handed over, unless the context is cancelled and the
call is bound to see it (`Doomed`).

*Exposed forks.* A fork may lie anywhere on a chain, and a call may be cut short
anywhere, so the invariant is about the store: no held block of a synced author has a
gap behind it (`NoGaps`), of this call or of an earlier one. It needs `WholeInv` to know
at each place of the call that what is handed over next has all that is behind it
in the store or handed over before it (`InSequence`). A page is a run from a position whose
chain is covered (`RunInSequence`). A pursuit goes down the chain of the claim, which
an honest source holds (`Served`), and cannot reach its bound before the genesis block
(`Descending`), so it fails only if the call is cancelled (`PursuitFailsWhole`); then
nothing of the walk is handed over. A fork's position is behind a held block, so siblings
are whole as well (`ForksAreWhole`). When a source is done, the whole chain of its tip
is covered (`WholeReport`), which is more than `ExposedForksAreFound` says.

*MemStore.* What `Add` appends to an index is new to it, because a held block is not
added again (`AddedToIndexes`). `EveryForkIsFlagged` counts: `FlaggedFromTheSecond`
says of each slot that all its blocks but the first in its list are flagged, which
is inductive, and gives the cardinality.

*Serving.* `Reading(r)` says what a handler has established at each phase, relative
to what was held when the request arrived: each position it passed has the lowest
block of those, or a lower one that came since. `Undisturbed(r)` says that while
nothing came its output is a path, and `TipIsTheEnd` that the branch has one end, so
a tip and a range read apart are those of one walk.

*Resolver.* `CallInv(p)` ties what a call remembered at its beginning to the phases
it can have reached: at `ask`, the cache was looked at after the call began and had
no answer, and answers only accumulate (`Grown`). A fetch
that fails may end after one of the same block that succeeded, so a digest can be
both fetched and failed; `MissingIsNotObtained` rests on `ReadCache` looking at
what was fetched first.

*Graph.* `GraphSpec` is any sequence of the two calls. `Accumulate` writes nodes and
indexes together, so `GraphIsItsBlocks` and `IndexesAgreeWithNodes` are inductive
once it is known that a node has the kind of its digest (`KindsAgree`).

*Block order.* `Spec` of `Acceptance` gives `AcceptInv`: the graph's invariant, a
store in which what a block is built on is held (`StoreWhole`), and no block ingested
that is not held. What a block follows (`anchor`) is then held, and since nothing is built
on itself (`HashesAreAcyclic`) a held block has exactly one line back to the start of its
lineage (`LineOfBlock`). An order remembers what it placed, so the hard part is that
it does not matter what was placed before: `IsRight(o)` says that every block `o` has
placed stands where it does on its line, after what it follows, and that every
succession in doubt on the way is told; `of` keeps that (`OfIsRight`), and so does
placing a set of blocks one by one (`PlaceAllIsRight`). On the other side,
`Histories` is a closure of pairs, and `HistoryIsLine` shows it to be the line.
`HistoriesAgree` sets `rotationBehind`, which looks from the new chain back, against
`ValidateHistory`, which looks from the old one forward. Attempting its proof showed
that it is false for a block `g` that is no genesis block and refs a rotation to its own
key, which the instance does not contain; the property now says `IsGenesis(g)`.

*Who changes what.* One ingest adds to a graph only what one author published
(`GrownBy`), and leaves the claims and statements of all others as they were: a
position, once given, is the same in the larger graph (`TagsArePlaced`), whatever
was ingested since. A withdrawal compares an author's statements with each other only
(`WithdrawnInView`), hence `NobodyHasAVeto`. A view of authors who did not
publish the block has the same claims (`OthersSayNothing`), the same places for what they
said, and so the same truth records (`PlacesDecide`), hence `OthersChangeNothing`.

*Truth.* The records of a class stand one for one for the words that subscribed
authors published on it (`StandsFor`, `RecordsAreWords`). `IsLast` compares the sizes of
histories, the code positions on a line, and the two are the same by `HistoryIsLine`
(`LastWords`); a conflict is then a conflict of words, and the one record told has
the authors of both sides.

*Union-find.* The parents of a union-find lead down in rank (`Forest`), so every
entity has a last parent, its `Name`. Finding compresses paths and leaves every name as it
was (`FindKeeps`); a union gives two classes the lower of their names (`UnionNames`).
After all claims, the ends of each have one name, and no name has left a set that the
claims do not lead out of (`UniteLinks`). The closure is the least such set
(`ReachedIsLeast`), hence `EquivalenceIsTheClosure`.

*Tarjan.* The search is a sequence of turns (`Visit`, `Look`, `Return`) on a record of
numbers, a stack, calls under way and components found. `Searched` is what holds
between turns: indexes increase up the stack and along the calls, each class on the
stack is reached from the call it stands above (`UnderCall`), and one that is no call
has a lower low link than its index (`LeftLower`), while a low link is always the index
of something on the stack that is reached (`LowIsReached`). What is
done leads only to what is done. From these, a call that ends with its low link equal to its
index has above it on the stack exactly its component (`AboveIsComponent`).
`VisitKeeps`, `LookKeeps` and `ReturnKeeps` preserve the invariant, one turn each
(`TurnKeeps`); the search ends because `Progress` grows with every turn
(`FurtherCounts`) and is at most n(n + 2) for n classes (`ProgressIsBounded`), the number of turns
`components` allows. `CyclesAre` is the result: the components found are the sets of classes that
reach each other, each once. `LoopsOfView` turns them into the reported loops
(`AboveIs`, `LoopIsComponent`). For `CurrentIsReached`, `VisitedIs` says that the walk of `Current`
visits what is reached; where each of a finite set has something newer within it, one
of them reaches itself (`NewestLoops`), and that is a reported loop.

*Node.* `Read` compares what each entry of the index says with the file it names;
`DescribedIsRead` shows that these are the directories whose entries are those `Build`
writes. A directory is then good (`MayLoad`) by its listed blocks alone; `Load` follows
each chain back from its tip. `GoodDirectory` is the middle term, and `MayLoadIfGood` shows
the two to be the same: a chain in which each block is published on the one before
holds no block twice (`ChainIsSimple`), so the walk from its tip ends, and is the chain.
`LoadInv` says at each phase which chains are good, and what is held, ingested and
still to do; a load that failed had to, because a fork met while storing is a fork of
the directory and chains are judged when all is stored. `ServerInv` is small: the subscriptions and the view are of
the same authors whenever the lock is free, and so in every snapshot.
`AnswersAreAttributed` then follows from what is proved of any view. `ReportInv`
accounts for overlapping calls: a handler that has swapped and not reported yet owes
the difference between the pair it read under the lock and what it asked for, and
what was reported plus what is owed is what changed since the server started. The
handlers that owe are counted as a set of pairs of a handler and what its view holds, so
that the sum is a cardinality (`OneMoreReports`).

*Recursion.* What a recursive function computes is proved through `MemStoreProofs`:
`LeastNumber` and `Induction` (as sets of numbers, since an operator cannot be
passed), `RecursionExists` (a recursive definition has a solution, so the CHOOSE
behind it satisfies its equation), `RecursionTo` for functions of bounded domain, and
`Saturation` (a growing sequence of sets of digests is stationary after
`Cardinality(Digest)` turns). An operator declared RECURSIVE is beyond the
provers.

Only model-checked:

- `NothingLeftBehind` and `ExposedForksAreFound` without the hypotheses above: both are
  false in general (`lost_wakeup`, `dangling`).
- The encodings: `Dcbor` declares RECURSIVE operators, its values being of unbounded
  depth.
- `AnnounceTerminates` and `SyncTerminates`: liveness under fairness.

## Not modelled

- `ValidatePayload`: the same passes, once, over a payload its caller opened.
- Warnings (a report's remarks that change no verdict), but for those that fail a
  node's load; error wording, and the order in which sets are listed.
- `MemStore.Add` failing with anything but a `ForkError`: only a nil block does.
- A validator that fetches while it validates (`transport.Resolver` as the source of
  a validation): each of the two is modelled, their composition is not.
- `Poll`, a ticker around `SyncChain`.
- Key wrapping (`wrap.go`) and the key ring: X25519 and HKDF without state. Unicode
  normal form, CIDs as text, IRIs, decimal literals and RFC 3339: whether a text is
  acceptable is given from outside.
- HTTP framing: paths, methods, headers but the tip's, status codes, media types.
- The query server's tools that look up, list and render; commands, publishing,
  test vectors.
- The TypeScript node, a second, single-threaded implementation of the same
  specification.

Nothing in the repository wires a `ValidatingStore` to a graph: the demo feeds a
graph from a MemStore whose chains it validates itself, and so do `Acceptance` and
`Node`.

## The plan

What is left, in order:

1. `TransportResolver` as the source of a validation, with its failures remembered
   across the blocks of one syncer.
2. `ValidatePayload`, beside `Announce`.
