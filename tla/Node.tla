-------------------------------- MODULE Node --------------------------------
(***************************************************************************)
(* The demo's node (demo/internal/replay, chainfile) and the query server  *)
(* over it (demo/cmd/dialog-mcp).                                          *)
(*                                                                         *)
(* A node is loaded from a directory of chains: every block file is read   *)
(* and checked against the index, then stored, and when all are stored the *)
(* chains are validated and ingested one by one.  It never changes after   *)
(* that, so a view of it is identified with the authors it was built for.  *)
(* The server keeps one set of subscribed authors and the view for it, and *)
(* answers clients from that pair while others replace it.                 *)
(*                                                                         *)
(* An author's demo name is identified with the author's key.  A directory *)
(* is a record: parses says whether index.json is there and is JSON of the *)
(* index's fields only, format and index are what it holds, and files maps *)
(* each block file to what decodes from it.  A read that fails although    *)
(* the file is there is left out.                                          *)
(***************************************************************************)
EXTENDS View

Sequence == INSTANCE SequencesExt

CONSTANTS
    ts,             \* ts[d]: the timestamp of a block that is not private
    size,           \* size[d]: the length of its bytes
    Format,         \* the format an index must declare
    File,           \* paths of block files
    Directories,    \* bound: the directories a node is started on
    Client,         \* requests the server handles at once
    Requests,       \* bound: the sets of authors clients ask for
    MaxChanges      \* bound: calls that replace the subscriptions

\* An index lists chains, each by its author and its blocks in a sequence.  A
\* public key or a digest whose text does not parse is NoAuthor or NoDigest.
BlockEntry == [index : Int, file : File, digest : Digest \cup {NoDigest}, size : Int, ops : Int]

ASSUME NodeAssumption ==
    /\ MaxChanges \in Nat
    /\ ts \in [Digest -> Int] /\ size \in [Digest -> Nat]
    /\ \A d \in Directories :
          /\ d.parses \in BOOLEAN
          /\ \A f \in DOMAIN d.files : d.files[f] \in Digest \cup {NoDigest}
          /\ d.index \in Seq(Range(d.index))
          /\ \A chain \in Range(d.index) :
                /\ chain.pub \in Author \cup {NoAuthor}
                /\ chain.blocks \in Seq(BlockEntry)

VARIABLES
    dir,        \* the directory
    load,       \* how far Load has got
    subs,       \* the authors subscribed to
    view,       \* the authors the server's view was built for
    call,       \* call[c]: what client c's handler is doing
    changes,    \* how many calls replaced, or asked to replace, subs
    reports     \* what the calls that replaced subs have reported

nodeVars == <<memVars, graphVars, dir, load>>
serverVars == <<subs, view, call, changes, reports>>

Phase == {"read", "store", "validate", "ingest", "serving", "failed"}
Load == [phase : Phase, chain : Nat, todo : Seq(Digest)]

\* asked, built: the request, and the authors of the view built for it.
\* before, previous: the pair that was replaced, or the snapshot taken.
Call == [phase : {"idle", "building", "swapping", "reporting", "answering"},
         asked : SUBSET Author, before : SUBSET Author, previous : SUBSET Author]
NoCall == [phase |-> "idle", asked |-> {}, before |-> {}, previous |-> {}]

NodeTypeOK ==
    /\ MemTypeOK /\ GraphTypeOK
    /\ dir \in Directories
    /\ load \in Load
    /\ subs \in SUBSET Author /\ view \in SUBSET Author
    /\ call \in [Client -> Call]
    /\ changes \in 0..MaxChanges
    /\ Len(reports) <= changes

NodeInit ==
    /\ MemInit /\ GraphInit
    /\ dir \in Directories
    /\ load = [phase |-> "read", chain |-> 1, todo |-> <<>>]
    /\ subs = {} /\ view = {}
    /\ call = [c \in Client |-> NoCall]
    /\ changes = 0
    /\ reports = <<>>
-----------------------------------------------------------------------------
\* What the index lists; a block file is NoDigest if nothing decodes from it.
Listed(d) == UNION {Range(d.index[i].blocks) : i \in DOMAIN d.index}

\* len(b.Ops()): those of a private block are inside enc.
PlainOps(d) == IF content[d].type = "private" THEN 0 ELSE Len(content[d].ops)

\* Build, of the block x, which is the j-th of its chain.
BuildEntry(x, j, file) ==
    [index |-> j - 1, file |-> file, digest |-> x, size |-> size[x], ops |-> PlainOps(x)]

\* What an entry of the index says of a block holds of the block it names.
EntryAgrees(d, pub, b) ==
    /\ b.digest \in Digest
    /\ b.file \in DOMAIN d.files
    /\ b.size = size[b.digest]
    /\ d.files[b.file] = b.digest
    /\ content[b.digest].pub = pub
    /\ b.ops = PlainOps(b.digest)

\* readChain
ReadsChain(d, chain) ==
    /\ chain.pub \in Author
    /\ \A i \in DOMAIN chain.blocks :
          /\ chain.blocks[i].index = i - 1
          /\ EntryAgrees(d, chain.pub, chain.blocks[i])

\* checkComplete, where files holds no other stray files than block files.
Complete(d) == DOMAIN d.files \subseteq {b.file : b \in Listed(d)}

\* Read
Reads(d) ==
    /\ d.parses /\ d.format = Format
    /\ \A i \in DOMAIN d.index : ReadsChain(d, d.index[i])
    /\ Complete(d)

Digests(chain) == [i \in DOMAIN chain.blocks |-> chain.blocks[i].digest]
Authors == {dir.index[i].pub : i \in DOMAIN dir.index}

Goto(phase, chain, todo) == load' = [phase |-> phase, chain |-> chain, todo |-> todo]

ReadFiles ==
    /\ load.phase = "read"
    /\ IF Reads(dir)
       THEN Goto("store", 1, Sequence!FlattenSeq([i \in DOMAIN dir.index |-> Digests(dir.index[i])]))
       ELSE Goto("failed", 1, <<>>)
    /\ UNCHANGED <<memVars, graphVars, dir, serverVars>>

StoreNext ==
    /\ load.phase = "store" /\ load.todo # <<>>
    /\ Add(Head(load.todo))
    /\ IF ForkError(Head(load.todo)) THEN Goto("failed", 1, <<>>)
                                     ELSE Goto("store", 1, Tail(load.todo))
    /\ UNCHANGED <<graphVars, dir, serverVars>>

StoreDone ==
    /\ load.phase = "store" /\ load.todo = <<>>
    /\ Goto("validate", 1, <<>>)
    /\ UNCHANGED <<memVars, graphVars, dir, serverVars>>

\* A block that is not private is warned of where it is dated before its
\* predecessor, unless that one is private (validatePrev).
InTime(d) ==
    LET prev == content[d].prev IN
    prev # NoDigest /\ content[prev].type # "private" => ts[prev] <= ts[d]

\* A report without forks, unchecked rules or warnings.  What makes the resolver
\* warn further along the refs, a block that is missing or sealed, is met again
\* at a chain of the directory, which fails the load there.
Clean(d) ==
    /\ content[d].type # "private"
    /\ InTime(d)
    /\ Range(Refs(d)) \subseteq blocks
    /\ Len(BlocksWithPrev(content[d].pub, content[d].prev)) = 1

\* Mutant: what the index lists is not compared with what was walked.
checkChainKey(chain, walked) ==
    /\ content[Head(walked)].pub = chain.pub
    /\ \A d \in Range(walked) : Clean(d)

\* checkChain: got is what ValidateChain walked.
checkChain(chain, walked) ==
    /\ walked = Digests(chain)
    /\ content[Head(walked)].pub = chain.pub
    /\ \A d \in Range(walked) : Clean(d)

ValidateNext ==
    /\ load.phase = "validate" /\ load.chain <= Len(dir.index)
    /\ LET chain == dir.index[load.chain]
           tip == Sequence!Last(Digests(chain))
       IN  IF /\ chain.blocks # <<>>
              /\ ValidateChain(tip, Validated)
              /\ checkChain(chain, walk(tip))
           THEN Goto("ingest", load.chain, walk(tip))
           ELSE Goto("failed", load.chain, <<>>)
    /\ UNCHANGED <<memVars, graphVars, dir, serverVars>>

IngestNext ==
    /\ load.phase = "ingest" /\ load.todo # <<>>
    /\ Ingest(Head(load.todo))
    /\ Goto("ingest", load.chain, Tail(load.todo))
    /\ UNCHANGED <<memVars, dir, serverVars>>

IngestDone ==
    /\ load.phase = "ingest" /\ load.todo = <<>>
    /\ Goto("validate", load.chain + 1, <<>>)
    /\ UNCHANGED <<memVars, graphVars, dir, serverVars>>

\* Load returns, and NewServer subscribes to everybody.
NewServer ==
    /\ load.phase = "validate" /\ load.chain > Len(dir.index)
    /\ Goto("serving", load.chain, <<>>)
    /\ subs' = Authors /\ view' = Authors
    /\ UNCHANGED <<memVars, graphVars, dir, call, changes, reports>>
-----------------------------------------------------------------------------
Serving(c, phase) == load.phase = "serving" /\ call[c].phase = phase
Handler(c, k) == call' = [call EXCEPT ![c] = k]

\* snapshot: subscriptions and view are read under one lock, by every tool and
\* by dialog_subscriptions when it is asked what they are.
Snapshot(c) ==
    /\ Serving(c, "idle")
    /\ Handler(c, [NoCall EXCEPT !.phase = "answering", !.before = view, !.previous = subs])
    /\ UNCHANGED <<nodeVars, subs, view, changes, reports>>

Answer(c) ==
    /\ Serving(c, "answering")
    /\ Handler(c, NoCall)
    /\ UNCHANGED <<nodeVars, subs, view, changes, reports>>

\* setSubscriptions, up to View: a name the node has no chain for is refused.
SetSubscriptions(c, S) ==
    /\ Serving(c, "idle")
    /\ changes < MaxChanges
    /\ changes' = changes + 1
    /\ Handler(c, IF S \subseteq Authors THEN [NoCall EXCEPT !.phase = "building", !.asked = S]
                                         ELSE NoCall)
    /\ UNCHANGED <<nodeVars, subs, view, reports>>

\* resubscribe builds the view before it takes the lock.
BuildView(c) ==
    /\ Serving(c, "building")
    /\ Handler(c, [call[c] EXCEPT !.phase = "swapping"])
    /\ UNCHANGED <<nodeVars, subs, view, changes, reports>>

Swap(c) ==
    /\ Serving(c, "swapping")
    /\ Handler(c, [call[c] EXCEPT !.phase = "reporting", !.before = view, !.previous = subs])
    /\ subs' = call[c].asked /\ view' = call[c].asked
    /\ UNCHANGED <<nodeVars, changes, reports>>
-----------------------------------------------------------------------------
View(S) == Build(entities, S)

\* conflictKey
Key(x) == [f \in DOMAIN x \cap {"kind", "molecules", "blocks", "meta"} |-> x[f]]
Keys(v) == {Key(x) : x \in v.conflicts}

\* diffConflicts
Appeared(v, w) == {x \in w.conflicts : Key(x) \notin Keys(v)}

\* What is told of a change from the view for S to the one for T.
Reported(S, T) ==
    {[delta |-> Cardinality(w.entries) - Cardinality(v.entries),
      appeared |-> {Key(x) : x \in Appeared(v, w)},
      disappeared |-> {Key(x) : x \in Appeared(w, v)}] : v \in {View(S)}, w \in {View(T)}}

\* Mutant: compares with the view the server holds by now.
ReportCurrent(c) ==
    /\ Serving(c, "reporting")
    /\ Handler(c, NoCall)
    /\ \E r \in Reported(call[c].before, view) : reports' = Append(reports, r)
    /\ UNCHANGED <<nodeVars, subs, view, changes>>

Report(c) ==
    /\ Serving(c, "reporting")
    /\ Handler(c, NoCall)
    /\ \E r \in Reported(call[c].before, call[c].asked) : reports' = Append(reports, r)
    /\ UNCHANGED <<nodeVars, subs, view, changes>>

NodeNext ==
    \/ ReadFiles \/ StoreNext \/ StoreDone \/ ValidateNext \/ IngestNext \/ IngestDone \/ NewServer
    \/ \E c \in Client : \/ Snapshot(c) \/ Answer(c) \/ BuildView(c) \/ Swap(c) \/ Report(c)
                         \/ \E S \in Requests : SetSubscriptions(c, S)

NodeSpec == NodeInit /\ [][NodeNext]_<<nodeVars, serverVars>>
-----------------------------------------------------------------------------
\* The answers, from the snapshot taken: v is the view, S the subscriptions.

\* blockLabel: where a block stands, as far as a view can tell; the length is
\* told of subscribed authors only.
Unplaced == [height |-> 0, length |-> 0]
blockLabel(v, d) ==
    CASE d \notin DOMAIN v.positions -> Unplaced
      [] d \in DOMAIN v.positions /\ content[d].pub \notin v.subscribed ->
             [height |-> v.positions[d].height + 1, length |-> 0]
      [] OTHER -> [height |-> v.positions[d].height + 1, length |-> v.positions[d].length]

\* dialog_provenance reads the graph, and marks who is subscribed.
ProvenanceAnswer(v, S, e) ==
    [inView |-> e \in v.entries,
     records |-> {[author |-> t.author, subscribed |-> t.author \in S,
                   block |-> blockLabel(v, t.block)] : t \in Provenance(e)}]

\* dialog_truth, and dialog_equivalents, which tells part of it.
TruthAnswer(v, e) ==
    LET class == v.class[e] IN
    [truth |-> Truth(v, e), assertions |-> Assertions(v, e),
     superseded |-> IsSuperseded(v, e), supersededBy |-> SupersededBy(v, e),
     supersedes |-> Supersedes(v, e),
     current |-> IF IsSuperseded(v, e) THEN Current(v, e) ELSE {},
     supersessionDeclaredBy |-> v.supersessionDecls[class],
     contradicts |-> Contradictions(v, e),
     contradictionDeclaredBy |-> v.contradictionDecls[class],
     equivalents |-> EquivalenceClass(v, e) \ {e},
     equivalenceDeclaredBy |-> v.equivalenceDecls[class]]
-----------------------------------------------------------------------------
\* The entries of an index are those that Build writes for the blocks in its
\* files, and no block file is left over.
Described(d) ==
    /\ d.parses /\ d.format = Format
    /\ \A i \in DOMAIN d.index : \A j \in DOMAIN d.index[i].blocks :
          \E f \in DOMAIN d.files :
              /\ d.files[f] # NoDigest /\ content[d.files[f]].pub = d.index[i].pub
              /\ d.index[i].blocks[j] = BuildEntry(d.files[f], j, f)
    /\ \A f \in DOMAIN d.files : \E b \in Listed(d) : b.file = f

\* A directory makes a node exactly when its index is the one Build writes for
\* its files and every chain of it is whole, linear, dated forwards, free of forks
\* and private blocks, and sound with nothing but the directory's blocks to
\* resolve through; and the node then holds those blocks and no others ("a
\* partially loaded node is never returned").  Nothing is asked of the order the
\* chains are listed in: Load stores all blocks before it validates any.
LoadIsExact ==
    LET held == {b.digest : b \in Listed(dir)}
        chain(i) == Digests(dir.index[i])
        whole(i) == /\ chain(i) # <<>>
                    /\ \A j \in DOMAIN chain(i) :
                          content[chain(i)[j]].prev = IF j = 1 THEN NoDigest ELSE chain(i)[j - 1]
        good == /\ Described(dir)
                /\ \A i \in DOMAIN dir.index : whole(i)
                /\ \A a, b \in held : ~IsFork(a, b)
                /\ \A d \in held : /\ content[d].type # "private" /\ InTime(d)
                                   /\ Range(Refs(d)) \subseteq held
                                   /\ PrevSound(d) /\ RefsSound(d, held)
                                   /\ OperationsSound(d, held, {})
    IN  /\ load.phase = "serving" =>
               /\ good
               /\ blocks = held /\ DOMAIN payloads = held
               /\ DOMAIN entities = UNION {Definitions(d) : d \in held}
        /\ load.phase = "failed" => ~good

\* What the calls that replaced the subscriptions have told, however they ran
\* into each other, adds up to what changed: none of them compared its view
\* with one that another call had replaced.
ReportsAddUp ==
    load.phase = "serving" /\ (\A c \in Client : call[c].phase # "reporting") =>
        \A first \in {View(Authors)}, now \in {View(view)} :
        LET times(k, f) == Cardinality({i \in DOMAIN reports : k \in reports[i][f]})
            was(k, v) == IF k \in Keys(v) THEN 1 ELSE 0
            Told[n \in 0..Len(reports)] ==
                IF n = 0 THEN Cardinality(first.entries) ELSE Told[n - 1] + reports[n].delta
        IN  /\ Told[Len(reports)] = Cardinality(now.entries)
            /\ \A k \in Keys(first) \cup Keys(now)
                        \cup UNION {reports[i].appeared : i \in DOMAIN reports} :
                   was(k, first) + times(k, "appeared") - times(k, "disappeared") = was(k, now)

Answering == {c \in Client : call[c].phase = "answering"}

\* "This is what makes an answer attributable rather than authoritative": an
\* entity is in the view exactly when one of its authors is marked subscribed,
\* and a reading is never reported without somebody subscribed who declared
\* it, whatever other clients do to the subscriptions meanwhile.
AnswersAreAttributed ==
    \A c \in Answering : \A v \in {View(call[c].before)} :
        LET backed(D) == \A x \in D : /\ x.backing # {}
                                      /\ \A t \in x.backing : t.author \in call[c].previous
        IN  /\ \A e \in DOMAIN entities :
                   LET a == ProvenanceAnswer(v, call[c].previous, e) IN
                   /\ a.inView <=> \E r \in a.records : r.subscribed
                   /\ \A r \in a.records : r.subscribed => r.block # Unplaced
            /\ \A e \in v.entries :
              LET a == TruthAnswer(v, e) IN
              /\ a.superseded <=> a.supersededBy # {}
              /\ a.supersededBy \cup a.supersedes # {} => a.supersessionDeclaredBy # {}
              /\ a.contradicts # {} => a.contradictionDeclaredBy # {}
              /\ a.equivalents # {} => a.equivalenceDeclaredBy # {}
              /\ a.truth # "unasserted" => a.assertions # {}
              /\ backed(a.supersessionDeclaredBy \cup a.contradictionDeclaredBy
                            \cup a.equivalenceDeclaredBy)
=============================================================================
