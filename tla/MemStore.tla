------------------------------ MODULE MemStore ------------------------------
(***************************************************************************)
(* block.MemStore: the in-memory set of blocks, indexed by position in an  *)
(* author's chain and by referenced digest.  Every method runs under the   *)
(* store's lock, so each is one atomic operator here.                      *)
(***************************************************************************)
EXTENDS Blocks

VARIABLES
    blocks,     \* the digests of the blocks held
    position,   \* position[<<pub, prev>>]: blocks claiming that slot
    referrers   \* referrers[d]: held blocks that list d in their refs

memVars == <<blocks, position, referrers>>

\* positionKey: a genesis block has the slot with the null prev.
Slot == Author \X (Digest \cup {NoDigest})
SlotOf(d) == <<content[d].pub, content[d].prev>>

MemTypeOK ==
    /\ blocks \in SUBSET Digest
    /\ position \in [Slot -> Seq(Digest)]
    /\ referrers \in [Digest -> Seq(Digest)]

MemInit ==
    /\ blocks = {}
    /\ position = [s \in Slot |-> <<>>]
    /\ referrers = [d \in Digest |-> <<>>]

\* Mutant: the fork is noticed from the third claimant on.
ForkErrorLate(d) == d \notin blocks /\ Len(position[SlotOf(d)]) > 1

\* Add returns a *ForkError: d is new and its slot is already claimed.
ForkError(d) == d \notin blocks /\ position[SlotOf(d)] # <<>>

\* Mutant: the check for a block already held is dropped.
AddAgain(d) ==
    /\ blocks' = blocks \cup {d}
    /\ position' = [position EXCEPT ![SlotOf(d)] = Append(@, d)]
    /\ referrers' = [x \in Digest |-> IF x \in Range(Refs(d)) THEN Append(referrers[x], d)
                                                           ELSE referrers[x]]

Add(d) ==
    IF d \in blocks
    THEN UNCHANGED memVars
    ELSE /\ blocks' = blocks \cup {d}
         /\ position' = [position EXCEPT ![SlotOf(d)] = Append(@, d)]
         /\ referrers' = [x \in Digest |->
                            IF x \in Range(Refs(d)) THEN Append(referrers[x], d)
                                                    ELSE referrers[x]]

BlocksWithPrev(pub, prev) == position[<<pub, prev>>]
BlocksReferencing(d) == referrers[d]

\* Forks: one record per slot claimed by two or more blocks.
Forks == {[pub |-> s[1], prev |-> s[2], blocks |-> Range(position[s])] :
            s \in {t \in Slot : Len(position[t]) >= 2}}

Tips(pub) == {d \in blocks : content[d].pub = pub /\ position[<<pub, d>>] = <<>>}

\* IsFork, which compares two blocks and knows nothing of the index.
IsFork(a, b) == /\ a # b
                /\ SameAuthor(a, b)
                /\ content[a].prev = content[b].prev
-----------------------------------------------------------------------------
\* The two indexes say of every slot and every digest exactly what a scan of
\* the held blocks would say, and say it once (Add maintains them by hand).
IndexesAgree ==
    /\ \A s \in Slot : /\ Range(position[s]) = {d \in blocks : SlotOf(d) = s}
                       /\ Unique(position[s])
    /\ \A x \in Digest : /\ Range(referrers[x]) =
                                {d \in blocks : x \in Range(Refs(d))}
                         /\ Unique(referrers[x])
=============================================================================
