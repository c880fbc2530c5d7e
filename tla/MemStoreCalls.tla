--------------------------- MODULE MemStoreCalls ---------------------------
(***************************************************************************)
(* Goroutines that share one MemStore.  Each calls AddAll with a list of   *)
(* blocks (Add is a list of one); AddAll takes the lock once per block, so *)
(* the calls of two goroutines interleave between blocks.                  *)
(***************************************************************************)
EXTENDS MemStore

CONSTANTS
    Caller,     \* goroutines
    Batches     \* the lists of blocks a caller may pass to AddAll

VARIABLES
    batch,      \* batch[c]: what is left of c's AddAll
    flagged     \* blocks whose Add returned a *ForkError

ASSUME BatchesAssumption == Batches \subseteq Seq(Digest)

vars == <<memVars, batch, flagged>>

TypeOK ==
    /\ MemTypeOK
    /\ batch \in [Caller -> Seq(Digest)]
    /\ flagged \in SUBSET Digest

Init ==
    /\ MemInit
    /\ batch = [c \in Caller |-> <<>>]
    /\ flagged = {}

AddAll(c, s) ==
    /\ batch[c] = <<>>
    /\ batch' = [batch EXCEPT ![c] = s]
    /\ UNCHANGED <<memVars, flagged>>

\* One turn of AddAll's loop.  A fork error ends it, the block being stored.
AddNext(c) ==
    /\ batch[c] # <<>>
    /\ Add(Head(batch[c]))
    /\ IF ForkError(Head(batch[c]))
       THEN /\ flagged' = flagged \cup {Head(batch[c])}
            /\ batch' = [batch EXCEPT ![c] = <<>>]
       ELSE /\ batch' = [batch EXCEPT ![c] = Tail(@)]
            /\ UNCHANGED flagged

Next == \E c \in Caller : AddNext(c) \/ \E s \in Batches : AddAll(c, s)

Spec == Init /\ [][Next]_vars
-----------------------------------------------------------------------------
\* Forks(), read off the index, agrees with IsFork, which compares two
\* blocks: two held blocks fork each other iff one fork record has both.
ForksAreTheForkingPairs ==
    \A a, b \in blocks :
        IsFork(a, b) <=> a # b /\ \E f \in Forks : {a, b} \subseteq f.blocks

\* Detection is exact whatever the interleaving of the callers: of the blocks
\* claiming one slot, every one but the first to arrive made its Add fail.
EveryForkIsFlagged ==
    /\ \A f \in Forks : Cardinality(f.blocks \ flagged) = 1
    /\ \A d \in flagged : \E f \in Forks : d \in f.blocks
=============================================================================
