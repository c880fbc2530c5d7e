----------------------------- MODULE Resolution -----------------------------
(***************************************************************************)
(* The pure part of block.Validate: rules 4, 5, 6 and 10.  A validation in *)
(* progress is a record (the Go resolver together with the Report), and    *)
(* each operator below is one turn of it against the blocks held at that   *)
(* moment.  ValidatingStore takes one turn per step, because each turn     *)
(* takes the MemStore's lock for itself and other goroutines add blocks    *)
(* between two turns.                                                      *)
(*                                                                         *)
(* The resolver's cache is abstracted away: it remembers only blocks that  *)
(* were found, and a store never loses one.                                *)
(***************************************************************************)
EXTENDS Blocks

CONSTANTS
    ScanLimit,  \* Options.ScanLimit: 0 means the default, < 0 no limit
    Keyed,      \* private blocks the Decrypter opens
    Garbled     \* private blocks whose payload is malformed, or on which the
                \* Decrypter fails

ASSUME OptionsAssumption ==
    /\ ScanLimit \in Int
    /\ Keyed \in SUBSET Digest
    /\ Garbled \in SUBSET Digest
    /\ Keyed \cap Garbled = {}

DefaultScanLimit == 256
scanLimit == IF ScanLimit = 0 THEN DefaultScanLimit ELSE ScanLimit

Readable(d) == content[d].type = "private" => d \in Keyed
DecryptFails(d) == content[d].type = "private" /\ d \in Garbled

Validation == [
    \* the Report: siblings found by rule 9, refs whose target was not held
    forks : SUBSET Digest, unchecked : SUBSET Digest,
    \* the loops: refs still to check; current operation and reference
    toCheck : Seq(Digest), op : Nat \ {0}, ref : Nat \ {0},
    \* the resolver
    defs : SUBSET Entity,
    nextAncestor : Digest \cup {NoDigest},
    ancestorGap : Digest \cup {NoDigest},
    refsGap : Digest \cup {NoDigest},
    keyGap : Digest \cup {NoDigest},
    queue : Seq(Digest), visited : SUBSET Digest, scanned : Nat]

NoValidation ==
    [forks |-> {}, unchecked |-> {}, toCheck |-> <<>>, op |-> 1, ref |-> 1,
     defs |-> {}, nextAncestor |-> NoDigest, ancestorGap |-> NoDigest,
     refsGap |-> NoDigest, keyGap |-> NoDigest, queue |-> <<>>,
     visited |-> {}, scanned |-> 0]

\* validateReferences sets this up for a block whose refs are in the clear.
NewValidation(d) ==
    [NoValidation EXCEPT !.toCheck = Refs(d), !.queue = Refs(d),
                         !.nextAncestor = content[d].prev]

\* The first gap of each sort is the one remembered.
Gap(g, d) == IF g = NoDigest THEN d ELSE g
-----------------------------------------------------------------------------
\* The pass over refs.  An entry that is not held stays unchecked; one that
\* is held breaks rule 6 (private target of a public block) or 10 (own chain).
BreaksRule6(d, x) == content[d].type = "public" /\ content[x].type = "private"
BreaksRule10(d, x) == SameAuthor(d, x)

\* Mutant: an entry that is not held is skipped silently.
CheckRefSilently(v, held) == [v EXCEPT !.toCheck = Tail(@)]

CheckRef(v, held) ==
    [v EXCEPT !.toCheck = Tail(@),
              !.unchecked = @ \cup ({Head(v.toCheck)} \ held)]

\* extendAncestors: one more ancestor's operations.  An unreadable private
\* ancestor is passed through; a missing one ends the walk.
ExtendAncestors(v, held) ==
    LET d == v.nextAncestor IN
    IF d \notin held
    THEN [v EXCEPT !.ancestorGap = d, !.nextAncestor = NoDigest]
    ELSE [v EXCEPT !.nextAncestor = content[d].prev,
                   !.defs = IF Readable(d) THEN @ \cup Definitions(d) ELSE @,
                   !.keyGap = IF Readable(d) THEN @ ELSE Gap(@, d)]

\* extendRefs: one entry of the breadth-first queue.  The scan limit counts
\* the held blocks reached, and no other.
\* Mutant: one block too many is scanned.
AtScanLimitLate(v, held) ==
    /\ Head(v.queue) \in held \ v.visited
    /\ scanLimit >= 0
    /\ v.scanned > scanLimit

AtScanLimit(v, held) ==
    /\ Head(v.queue) \in held \ v.visited
    /\ scanLimit >= 0
    /\ v.scanned >= scanLimit

Scan(v, d) ==
    IF Readable(d)
    THEN [v EXCEPT !.scanned = @ + 1,
                   !.defs = @ \cup Definitions(d),
                   !.queue = @ \o content[d].refs]
    ELSE [v EXCEPT !.scanned = @ + 1, !.keyGap = Gap(@, d)]

ExtendRefs(v, held) ==
    LET d == Head(v.queue)
        w == [v EXCEPT !.queue = Tail(@), !.visited = @ \cup {d}]
    IN  CASE d \in v.visited -> w
          [] d \notin v.visited /\ d \notin held ->
                [w EXCEPT !.refsGap = Gap(@, d)]
          [] d \in held \ v.visited -> Scan(w, d)

\* define, after an operation's references have all resolved.
Define(v, d) ==
    [v EXCEPT !.defs = @ \cup ({content[d].ops[v.op].creates} \ {NoEntity}),
              !.op = @ + 1, !.ref = 1]
-----------------------------------------------------------------------------
\* Where a validation of d stands.
RefsChecked(v) == v.toCheck = <<>>
OpsDone(v, d) == v.op > Len(content[d].ops)
Op(v, d) == content[d].ops[v.op]
\* Mutant: the last reference of an operation is not resolved.
OpResolvedEarly(v, d) == v.ref >= Len(Op(v, d).references)

OpResolved(v, d) == v.ref > Len(Op(v, d).references)
Wanted(v, d) == Op(v, d).references[v.ref]
Resolved(v, d) == Wanted(v, d).entity \in v.defs
Exhausted(v) == v.nextAncestor = NoDigest /\ v.queue = <<>>

\* Of a failed resolution: the block it awaits, NoDigest if it awaits a key.
Undecided(v) == {v.ancestorGap, v.refsGap, v.keyGap} # {NoDigest}
AwaitedBlock(v) == Gap(v.ancestorGap, v.refsGap)
=============================================================================
