--------------------------- MODULE ServingProofs ---------------------------
(***************************************************************************)
(* Proofs about a MemStore that any number of goroutines add to (TypeOK,   *)
(* IndexesAgree, ForksAreTheForkingPairs and EveryForkIsFlagged), and      *)
(* about a server that reads it meanwhile (AnswersHideNothing and          *)
(* QuietAnswersAgree).                                                     *)
(*                                                                         *)
(* That every fork is flagged needs more than the indexes: which of the    *)
(* claimants of a slot are flagged is told by their places in the index    *)
(* (FlaggedFromTheSecond), because Add looks at the slot and appends to it *)
(* under one lock.                                                         *)
(*                                                                         *)
(* A reader's answer is right by what it has found so far (Reading): as    *)
(* the store only grows, what a position of the index shows includes all   *)
(* that claimed it when the request arrived.                               *)
(***************************************************************************)
EXTENDS Serving, MemStoreProofs

FlaggedFromTheSecond ==
    /\ flagged \subseteq blocks
    /\ \A s \in Slot : \A i \in DOMAIN position[s] : position[s][i] \in flagged <=> i > 1

CallsInv == TypeOK /\ IndexesAgree /\ FlaggedFromTheSecond
-----------------------------------------------------------------------------
\* Of a block held already, Add keeps everything, and does not fail.
LEMMA AddedAgain ==
    ASSUME NEW d \in blocks, Add(d)
    PROVE  UNCHANGED memVars /\ ~ForkError(d)
  BY DEF Add, ForkError

\* A new claimant of a slot goes to its end, and is flagged unless it is the
\* first.
LEMMA AddFlags ==
    ASSUME MemTypeOK, IndexesAgree, FlaggedFromTheSecond, NEW d \in Digest \ blocks, Add(d),
           flagged' = IF ForkError(d) THEN flagged \cup {d} ELSE flagged
    PROVE  FlaggedFromTheSecond'
<1>1. blocks' = blocks \cup {d} /\ flagged \subseteq blocks
  BY AddType DEF FlaggedFromTheSecond
<1>2. ASSUME NEW s \in Slot, NEW i \in DOMAIN position'[s]
      PROVE  position'[s][i] \in flagged' <=> i > 1
  <2> DEFINE p == position[s]
  <2>1. /\ p \in Seq(Digest)
        /\ Range(p) \subseteq blocks
        /\ \A j \in DOMAIN p : p[j] \in flagged <=> j > 1
    BY DEF MemTypeOK, IndexesAgree, FlaggedFromTheSecond
  <2>2. position'[s] = IF s = SlotOf(d) THEN Append(p, d) ELSE p
    BY AddedToIndexes
  <2>3. \A j \in DOMAIN p : p[j] \in flagged' <=> j > 1
    BY <2>1 DEF Range
  <2>4. CASE s # SlotOf(d)
    BY <2>2, <2>3, <2>4
  <2>5. CASE s = SlotOf(d)
    <3>1. /\ DOMAIN p = 1..Len(p) /\ Len(p) \in Nat
          /\ DOMAIN Append(p, d) = 1..(Len(p) + 1)
          /\ \A j \in 1..Len(p) : Append(p, d)[j] = p[j]
          /\ Append(p, d)[Len(p) + 1] = d
      BY <2>1, AppendProperties
    <3>2. d \in flagged' <=> p # <<>>
      BY <1>1, <2>5 DEF ForkError
    <3>3. p # <<>> <=> Len(p) + 1 > 1
      BY <2>1, <3>1, EmptySeq
    <3> HIDE DEF p
    <3>4. i \in 1..Len(p) \/ i = Len(p) + 1
      BY <2>2, <2>5, <3>1
    <3> QED
      BY <2>2, <2>3, <2>5, <3>1, <3>2, <3>3, <3>4
  <2> QED
    BY <2>4, <2>5
<1> QED
  BY <1>1, <1>2 DEF FlaggedFromTheSecond
-----------------------------------------------------------------------------
\* Nothing is held and nobody calls.
LEMMA InitCalls == Init => CallsInv
<1> SUFFICES ASSUME Init PROVE CallsInv
  OBVIOUS
<1>1. /\ blocks = {} /\ flagged = {} /\ batch = [c \in Caller |-> <<>>]
      /\ position = [s \in Slot |-> <<>>] /\ referrers = [d \in Digest |-> <<>>]
  BY DEF Init, MemInit
<1>2. TypeOK
  BY <1>1 DEF TypeOK, MemTypeOK
<1>3. Range(<<>>) = {} /\ Unique(<<>>)
  BY DEF Range, Unique
<1>4. IndexesAgree
  BY <1>1, <1>3 DEF IndexesAgree
<1>5. FlaggedFromTheSecond
  BY <1>1 DEF FlaggedFromTheSecond
<1> QED
  BY <1>2, <1>4, <1>5 DEF CallsInv

\* One turn of AddAll.
LEMMA TurnInv ==
    ASSUME CallsInv, NEW c \in Caller, AddNext(c)
    PROVE  CallsInv'
<1> DEFINE d == Head(batch[c])
<1>1. batch[c] \in Seq(Digest) /\ batch[c] # <<>> /\ batch \in [Caller -> Seq(Digest)]
  BY DEF CallsInv, TypeOK, AddNext
<1>2. d \in Digest /\ Tail(batch[c]) \in Seq(Digest)
  BY <1>1
<1>3. Add(d) /\ flagged' = (IF ForkError(d) THEN flagged \cup {d} ELSE flagged)
  BY DEF AddNext
<1>4. batch' \in [Caller -> Seq(Digest)]
  <2>1. \/ batch' = [batch EXCEPT ![c] = <<>>]
        \/ batch' = [batch EXCEPT ![c] = Tail(batch[c])]
    BY DEF AddNext
  <2>2. <<>> \in Seq(Digest)
    OBVIOUS
  <2> QED
    BY <1>1, <1>2, <2>1, <2>2
<1>5. MemTypeOK /\ IndexesAgree /\ FlaggedFromTheSecond /\ flagged \in SUBSET Digest
  BY DEF CallsInv, TypeOK
<1>6. MemTypeOK' /\ flagged' \in SUBSET Digest
  BY <1>2, <1>3, <1>5, AddType
<1> HIDE DEF d
<1>7. CASE d \in blocks
  <2>1. UNCHANGED memVars /\ flagged' = flagged
    BY <1>3, <1>7, AddedAgain
  <2>2. IndexesAgree' /\ FlaggedFromTheSecond'
    BY <1>5, <2>1 DEF memVars, IndexesAgree, FlaggedFromTheSecond
  <2> QED
    BY <1>4, <1>6, <2>2 DEF CallsInv, TypeOK
<1>8. CASE d \notin blocks
  <2>1. IndexesAgree' /\ FlaggedFromTheSecond'
    BY <1>2, <1>3, <1>5, <1>8, AddKeepsIndexes, AddFlags
  <2> QED
    BY <1>4, <1>6, <2>1 DEF CallsInv, TypeOK
<1> QED
  BY <1>7, <1>8

\* CallsInv is inductive.
LEMMA CallsStep == CallsInv /\ [Next]_vars => CallsInv'
<1> SUFFICES ASSUME CallsInv, [Next]_vars PROVE CallsInv'
  OBVIOUS
<1>1. CASE UNCHANGED vars
  BY <1>1 DEF vars, memVars, CallsInv, TypeOK, MemTypeOK, IndexesAgree, FlaggedFromTheSecond
<1>2. ASSUME NEW c \in Caller, NEW s \in Batches, AddAll(c, s) PROVE CallsInv'
  BY <1>2, BatchesAssumption
     DEF AddAll, memVars, CallsInv, TypeOK, MemTypeOK, IndexesAgree, FlaggedFromTheSecond
<1> QED
  BY <1>1, <1>2, TurnInv DEF Next

\* It holds in every state.
LEMMA CallsInvariant == Spec => []CallsInv
  BY InitCalls, CallsStep, PTL DEF Spec

\* A MemStore holds blocks, slots and referrers of the right kinds.
THEOREM CallsTypeCorrect == Spec => []TypeOK
<1>1. CallsInv => TypeOK
  BY DEF CallsInv
<1> QED
  BY <1>1, CallsInvariant, PTL

\* The position and refs indexes always say what a scan of the blocks would,
\* and say it once (MemStore.add).
THEOREM MemStoreIndexesAgree == Spec => []IndexesAgree
<1>1. CallsInv => IndexesAgree
  BY DEF CallsInv
<1> QED
  BY <1>1, CallsInvariant, PTL

-----------------------------------------------------------------------------
\* The forks are the slots with two claimants, and a fork's blocks are those
\* in its slot.
LEMMA ForkSlots ==
    ASSUME CallsInv, NEW f \in Forks
    PROVE  \E s \in Slot : /\ f.blocks = Range(position[s])
                          /\ position[s] \in Seq(Digest) /\ Len(position[s]) >= 2
<1>1. PICK s \in Slot : /\ f = [pub |-> s[1], prev |-> s[2], blocks |-> Range(position[s])]
                        /\ Len(position[s]) >= 2
  BY DEF Forks
<1> QED
  BY <1>1 DEF CallsInv, TypeOK, MemTypeOK

\* A slot whose list has two entries is one of the forks.
LEMMA ClaimedTwice ==
    ASSUME NEW s \in Slot, Len(position[s]) >= 2
    PROVE  \E f \in Forks : f.blocks = Range(position[s])
<1> DEFINE f == [pub |-> s[1], prev |-> s[2], blocks |-> Range(position[s])]
<1>1. f \in Forks
  <2> HIDE DEF f
  <2>1. s \in {t \in Slot : Len(position[t]) >= 2}
    OBVIOUS
  <2> QED
    BY <2>1 DEF Forks, f
<1>2. f.blocks = Range(position[s])
  OBVIOUS
<1> QED
  BY <1>1, <1>2

\* Two blocks in one slot make it a fork.
LEMMA SharedSlot ==
    ASSUME CallsInv, NEW s \in Slot, NEW a \in Range(position[s]), NEW b \in Range(position[s]),
           a # b
    PROVE  \E f \in Forks : f.blocks = Range(position[s])
<1>1. position[s] \in Seq(Digest)
  BY DEF CallsInv, TypeOK, MemTypeOK
<1>2. PICK i, j \in 1..Len(position[s]) : position[s][i] = a /\ position[s][j] = b
  BY <1>1 DEF Range
<1>3. i # j /\ Len(position[s]) \in Nat
  BY <1>1, <1>2
<1>4. Len(position[s]) >= 2
  BY <1>2, <1>3
<1> QED
  BY <1>4, ClaimedTwice

\* What CallsInv says of a fork is what IsFork and the flags say.
LEMMA ForksAgree == CallsInv => ForksAreTheForkingPairs
<1> SUFFICES ASSUME CallsInv, NEW a \in blocks, NEW b \in blocks
             PROVE  IsFork(a, b) <=> a # b /\ \E f \in Forks : {a, b} \subseteq f.blocks
  BY DEF ForksAreTheForkingPairs
<1>1. a \in Digest /\ b \in Digest /\ SlotOf(a) \in Slot /\ SlotOf(b) \in Slot
  BY ContentType DEF CallsInv, TypeOK, MemTypeOK, SlotOf, Slot
<1>2. IsFork(a, b) <=> a # b /\ SlotOf(a) = SlotOf(b)
  BY DEF IsFork, SameAuthor, SlotOf
<1>3. \A s \in Slot : Range(position[s]) = {d \in blocks : SlotOf(d) = s}
  BY DEF CallsInv, IndexesAgree
<1>4. ASSUME IsFork(a, b)
      PROVE  a # b /\ \E f \in Forks : {a, b} \subseteq f.blocks
  <2>1. a \in Range(position[SlotOf(a)]) /\ b \in Range(position[SlotOf(a)]) /\ a # b
    BY <1>1, <1>2, <1>3, <1>4
  <2>2. \E f \in Forks : f.blocks = Range(position[SlotOf(a)])
    BY <1>1, <2>1, SharedSlot
  <2> QED
    BY <2>1, <2>2
<1>5. ASSUME a # b, NEW f \in Forks, {a, b} \subseteq f.blocks
      PROVE  IsFork(a, b)
  BY <1>2, <1>3, <1>5, ForkSlots
<1> QED
  BY <1>4, <1>5

\* A fork is flagged because its second claimant found the slot claimed.
LEMMA FlagsAgree == CallsInv => EveryForkIsFlagged
<1> SUFFICES ASSUME CallsInv PROVE EveryForkIsFlagged
  OBVIOUS
<1>1. ASSUME NEW f \in Forks PROVE Cardinality(f.blocks \ flagged) = 1
  <2>1. PICK s \in Slot : /\ f.blocks = Range(position[s])
                          /\ position[s] \in Seq(Digest) /\ Len(position[s]) >= 2
    BY <1>1, ForkSlots
  <2>2. \A i \in 1..Len(position[s]) : position[s][i] \in flagged <=> i > 1
    BY <2>1 DEF CallsInv, FlaggedFromTheSecond
  <2>3. 1 \in 1..Len(position[s]) /\ \A i \in 1..Len(position[s]) : ~(i > 1) => i = 1
    BY <2>1
  <2>4. f.blocks \ flagged = {position[s][1]}
    BY <2>1, <2>2, <2>3 DEF Range
  <2> QED
    BY <2>4, FS_Singleton
<1>2. ASSUME NEW d \in flagged PROVE \E f \in Forks : d \in f.blocks
  <2>1. d \in blocks /\ d \in Digest /\ SlotOf(d) \in Slot
    BY <1>2, ContentType DEF CallsInv, TypeOK, MemTypeOK, SlotOf, Slot, FlaggedFromTheSecond
  <2> DEFINE s == SlotOf(d)
  <2>2. d \in Range(position[s]) /\ position[s] \in Seq(Digest)
    BY <2>1 DEF CallsInv, TypeOK, MemTypeOK, IndexesAgree
  <2>3. PICK i \in 1..Len(position[s]) : position[s][i] = d
    BY <2>2 DEF Range
  <2>4. i > 1
    BY <1>2, <2>1, <2>2, <2>3 DEF CallsInv, FlaggedFromTheSecond
  <2>5. Len(position[s]) >= 2
    BY <2>2, <2>3, <2>4
  <2> QED
    BY <2>1, <2>2, <2>5, ClaimedTwice
<1> QED
  BY <1>1, <1>2 DEF EveryForkIsFlagged

\* Forks, read off the index, and IsFork, which compares two blocks, always
\* name the same pairs.
THEOREM ForksAreAlwaysThePairs == Spec => []ForksAreTheForkingPairs
  BY CallsInvariant, ForksAgree, PTL

\* However many goroutines add, every claimant of a slot but the first made its
\* Add return a ForkError, and nothing else did.
THEOREM EveryForkIsAlwaysFlagged == Spec => []EveryForkIsFlagged
  BY CallsInvariant, FlagsAgree, PTL
-----------------------------------------------------------------------------
\* A range so far: each block follows the one before it, and is the lowest of
\* those that were held when the request arrived, or lower.
Ranged(q, out) ==
    /\ CheckRange(out, q.pub, q.at)
    /\ \A i \in DOMAIN out : \A d \in At(q.began, q.pub, Before(out, i, q.at)) :
          rank[out[i]] <= rank[d]

\* It ended at its limit or where nothing followed.
RangeEnded(q, out) == Len(out) < q.limit => At(q.began, q.pub, End(out, q.at)) = {}

\* What reader r has established at each phase.
Reading(r) ==
    LET q == request[r]
        p == progress[r]
    IN  /\ q.began \subseteq blocks
        /\ p.phase # "idle" => q.pub \in Author \/ q.op = "blocks"
        /\ p.phase = "walk" => /\ q.op = "range"
                               /\ p.pos = End(p.out, q.at)
                               /\ p.tip = NoDigest
                               /\ Ranged(q, p.out)
                               /\ Len(p.out) <= q.limit
        /\ p.phase = "tip" => /\ q.op \in {"range", "tip"}
                              /\ p.pos = p.tip
        /\ p.phase \in {"tip", "reply"} /\ q.op = "range" =>
              Ranged(q, p.out) /\ RangeEnded(q, p.out) /\ Len(p.out) <= q.limit
        /\ p.phase = "at" => q.op = "siblings" /\ p.pos = q.at
        /\ p.phase = "fetch" =>
              /\ q.op = "blocks"
              /\ Range(q.wanted) \cap q.began \subseteq Range(p.out) \cup Range(p.todo)
        /\ p.phase = "reply" =>
              /\ q.op # "none"
              /\ q.op = "tip" => At(q.began, q.pub, p.tip) = {}
              /\ q.op = "range" => At(q.began, q.pub, p.tip) = {}
              /\ q.op = "siblings" => At(q.began, q.pub, q.at) \subseteq Range(p.out)
              /\ q.op = "blocks" => Range(q.wanted) \cap q.began \subseteq Range(p.out)

\* What it has found follows the branch, if nothing came since it was asked.
Undisturbed(r) ==
    LET q == request[r]
        p == progress[r]
    IN  q.began = blocks =>
          /\ p.phase \in {"walk", "tip", "reply"} /\ q.op = "range" =>
                p.out \in Paths(blocks, q.pub, q.at)
          /\ p.phase \in {"tip", "reply"} /\ q.op \in {"range", "tip"} =>
                \E s \in Paths(blocks, q.pub, NoDigest) : p.tip = End(s, NoDigest)

ServingInv == CallsInv /\ ServingTypeOK /\ \A r \in Reader : Reading(r) /\ Undisturbed(r)

\* The position index shows all the blocks held there.
LEMMA PositionsShown ==
    ASSUME CallsInv, NEW pub \in Author, NEW d \in Position
    PROVE  /\ BlocksWithPrev(pub, d) \in Seq(Digest)
           /\ Range(BlocksWithPrev(pub, d)) = At(blocks, pub, d)
<1>1. <<pub, d>> \in Slot
  BY DEF Slot, Position
<1>2. /\ position[<<pub, d>>] \in Seq(Digest)
      /\ Range(position[<<pub, d>>]) = {e \in blocks : SlotOf(e) = <<pub, d>>}
  BY <1>1 DEF CallsInv, TypeOK, MemTypeOK, IndexesAgree
<1>3. {e \in blocks : SlotOf(e) = <<pub, d>>} = At(blocks, pub, d)
  BY DEF SlotOf, At, Claims
<1> QED
  BY <1>2, <1>3 DEF BlocksWithPrev

\* What reader r sees at its position.
LEMMA AtShown ==
    ASSUME ServingInv, NEW r \in Reader, request[r].pub \in Author
    PROVE  at(r) = At(blocks, request[r].pub, progress[r].pos)
<1>1. progress[r].pos \in Position
  BY DEF ServingInv, ServingTypeOK, Progress
<1>2. CallsInv
  BY DEF ServingInv
<1> QED
  BY <1>1, <1>2, PositionsShown DEF at

\* A range goes on with the lowest block held.
LEMMA RangeGoesOn ==
    ASSUME NEW q \in Request, NEW out \in Seq(Digest), Ranged(q, out), blocks \in SUBSET Digest,
           q.began \subseteq blocks, At(blocks, q.pub, End(out, q.at)) # {}
    PROVE  LET b == branch(At(blocks, q.pub, End(out, q.at))) IN
           b \in Digest /\ Ranged(q, Append(out, b)) /\ End(Append(out, b), q.at) = b
<1> DEFINE here == At(blocks, q.pub, End(out, q.at))
           b == branch(here)
           t == Append(out, b)
           n == Len(out)
<1>1. here \in SUBSET Digest /\ here # {} /\ At(q.began, q.pub, End(out, q.at)) \subseteq here
  BY DEF At
<1>n. n \in Nat /\ n = Len(out)
  OBVIOUS
<1>h. \A x \in here : Claims(x, q.pub, End(out, q.at))
  BY DEF At
<1>b. b = branch(here) /\ here = At(blocks, q.pub, End(out, q.at))
  OBVIOUS
<1> HIDE DEF here
<1>2. b \in here /\ b \in Digest /\ \A e \in here : rank[b] <= rank[e]
  BY <1>1, BranchLowest
<1> HIDE DEF b
<1>3. t \in Seq(Digest) /\ Len(t) = n + 1 /\ t[n + 1] = b /\ \A i \in 1..n : t[i] = out[i]
  BY <1>2
<1>4. End(out, q.at) = Before(t, n + 1, q.at)
  <2>1. CASE out = <<>>
    BY <2>1 DEF End, Before
  <2>2. CASE out # <<>>
    <3>1. n # 0 /\ n \in 1..n
      BY <2>2
    <3> QED
      BY <1>3, <2>2, <3>1 DEF End, Before
  <2> QED
    BY <2>1, <2>2
<1>5. End(t, q.at) = b
  <2>1. t # <<>>
    BY <1>3
  <2> QED
    BY <1>3, <2>1 DEF End
<1>t. t = Append(out, b) /\ DOMAIN t = 1..(n + 1) /\ DOMAIN out = 1..n
  BY <1>3
<1> HIDE DEF n, t
<1>6. \A i \in 1..n : Before(t, i, q.at) = Before(out, i, q.at)
  <2> TAKE i \in 1..n
  <2>1. i = 1 \/ i - 1 \in 1..n
    BY <1>n
  <2> QED
    BY <1>3, <2>1 DEF Before
<1>7. \A i \in 1..(n + 1) : i \in 1..n \/ i = n + 1
  BY <1>n
<1>8. CheckRange(t, q.pub, q.at)
  <2>1. \A i \in 1..n : Claims(out[i], q.pub, Before(out, i, q.at))
    BY <1>t DEF Ranged, CheckRange, Before
  <2>2. \A i \in 1..(n + 1) : Claims(t[i], q.pub, Before(t, i, q.at))
    BY <1>2, <1>3, <1>4, <1>6, <1>7, <1>h, <2>1
  <2> QED
    BY <1>t, <2>2 DEF CheckRange, Before
<1>9. ASSUME NEW i \in 1..(n + 1), NEW d \in At(q.began, q.pub, Before(t, i, q.at))
      PROVE  rank[t[i]] <= rank[d]
  <2>1. CASE i \in 1..n
    BY <1>3, <1>6, <1>9, <1>t, <2>1 DEF Ranged
  <2>2. CASE i = n + 1
    BY <1>1, <1>2, <1>3, <1>4, <1>9, <2>2
  <2> QED
    BY <1>7, <2>1, <2>2
<1>10. Ranged(q, t)
  BY <1>8, <1>9, <1>t DEF Ranged
<1> QED
  BY <1>2, <1>5, <1>10, <1>b, <1>t
-----------------------------------------------------------------------------
\* Before the first request.
LEMMA InitServing == ServingInit => ServingInv
<1> SUFFICES ASSUME ServingInit PROVE ServingInv
  OBVIOUS
<1>1. CallsInv
  BY InitCalls DEF ServingInit
<1>2. NoRequest \in Request /\ NoProgress \in Progress
  BY DEF NoRequest, Request, NoProgress, Progress, Position
<1>3. ServingTypeOK
  BY <1>1, <1>2 DEF ServingInit, ServingTypeOK, CallsInv
<1>4. \A r \in Reader : Reading(r) /\ Undisturbed(r)
  BY DEF ServingInit, Reading, Undisturbed, NoRequest, NoProgress
<1> QED
  BY <1>1, <1>3, <1>4 DEF ServingInv

\* A step of the store disturbs no reader.
LEMMA StoreServes ==
    ASSUME ServingInv, [Next]_vars, UNCHANGED servingVars
    PROVE  ServingInv'
<1>1. CallsInv'
  BY CallsStep DEF ServingInv
<1>2. blocks \subseteq blocks'
  <2>1. CASE UNCHANGED vars
    BY <2>1 DEF vars, memVars
  <2>2. ASSUME NEW c \in Caller, NEW s \in Batches, AddAll(c, s) PROVE blocks \subseteq blocks'
    BY <2>2 DEF AddAll, memVars
  <2>3. ASSUME NEW c \in Caller, AddNext(c) PROVE blocks \subseteq blocks'
    BY <2>3 DEF AddNext, Add, memVars
  <2> QED
    BY <2>1, <2>2, <2>3 DEF Next
<1>3. ServingTypeOK'
  BY <1>1 DEF ServingInv, ServingTypeOK, CallsInv, servingVars
<1>4. ASSUME NEW r \in Reader PROVE (Reading(r) /\ Undisturbed(r))'
  <2>1. Reading(r) /\ Undisturbed(r) /\ request' = request /\ progress' = progress
    BY DEF ServingInv, servingVars
  <2>2. Reading(r)'
    BY <1>2, <2>1 DEF Reading, Ranged, RangeEnded
  <2>3. Undisturbed(r)'
    <3>1. request[r].began \subseteq blocks
      BY <2>1 DEF Reading
    <3>2. request[r].began = blocks' => blocks' = blocks
      BY <1>2, <3>1
    <3> QED
      BY <2>1, <3>2 DEF Undisturbed
  <2> QED
    BY <2>2, <2>3
<1> QED
  BY <1>1, <1>3, <1>4 DEF ServingInv

\* A step of one reader is about that reader alone.
LEMMA ReaderAlone ==
    ASSUME ServingInv, NEW r \in Reader, UNCHANGED vars,
           NEW q \in Request, request' = [request EXCEPT ![r] = q],
           NEW p \in Progress, progress' = [progress EXCEPT ![r] = p],
           request'[r] = q /\ progress'[r] = p => Reading(r)' /\ Undisturbed(r)'
    PROVE  ServingInv'
<1>1. CallsInv'
  BY CallsStep DEF ServingInv
<1>2. request \in [Reader -> Request] /\ progress \in [Reader -> Progress]
  BY DEF ServingInv, ServingTypeOK
<1>3. ServingTypeOK'
  BY <1>1, <1>2 DEF ServingTypeOK, CallsInv
<1>4. request'[r] = q /\ progress'[r] = p
  BY <1>2
<1>5. \A x \in Reader : x # r => request'[x] = request[x] /\ progress'[x] = progress[x]
  BY <1>2
<1>6. ASSUME NEW x \in Reader, x # r PROVE Reading(x)' /\ Undisturbed(x)'
  <2>1. Reading(x) /\ Undisturbed(x) /\ request'[x] = request[x] /\ progress'[x] = progress[x]
    BY <1>5, <1>6 DEF ServingInv
  <2>2. blocks' = blocks
    BY DEF vars, memVars
  <2> QED
    BY <2>1, <2>2 DEF Reading, Undisturbed, Ranged, RangeEnded
<1> QED
  BY <1>1, <1>3, <1>4, <1>6 DEF ServingInv

\* A request arrives.
LEMMA ArriveServes ==
    ASSUME ServingInv, NEW r \in Reader, Arrive(r)
    PROVE  ServingInv'
<1>0. /\ NoRequest \in Request /\ NoProgress \in Progress /\ blocks \in SUBSET Digest
      /\ NoRequest.op = "none" /\ NoProgress.out = <<>> /\ NoProgress.tip = NoDigest
  BY DEF NoRequest, Request, NoProgress, Progress, Position, ServingInv, ServingTypeOK, TypeOK, MemTypeOK
<1>u. request \in [Reader -> Request] /\ progress \in [Reader -> Progress]
  BY DEF ServingInv, ServingTypeOK
<1>b. UNCHANGED vars => blocks' = blocks
  BY DEF vars, memVars
<1>1. ASSUME NEW a \in Author, handleTip(r, a) PROVE ServingInv'
  <2> DEFINE q == [[NoRequest EXCEPT !.op = "tip", !.pub = a] EXCEPT !.began = blocks]
             p == [NoProgress EXCEPT !.phase = "tip"]
  <2>1. q \in Request /\ p \in Progress
    BY <1>0 DEF Request, Progress
  <2>2. /\ UNCHANGED vars /\ request' = [request EXCEPT ![r] = q]
        /\ progress' = [progress EXCEPT ![r] = p]
    BY <1>1 DEF handleTip, Begin, Goto
  <2>3. /\ q.op = "tip" /\ q.pub = a /\ q.began = blocks
        /\ p.phase = "tip" /\ p.pos = NoDigest /\ p.tip = NoDigest
    BY DEF NoRequest, NoProgress
  <2> HIDE DEF q, p
  <2>4. ASSUME request'[r] = q, progress'[r] = p PROVE Reading(r)' /\ Undisturbed(r)'
    <3>1. Reading(r)'
      BY <1>b, <2>2, <2>3, <2>4 DEF Reading
    <3>2. <<>> \in Paths(blocks', a, NoDigest) /\ End(<<>>, NoDigest) = NoDigest
      BY DEF Paths, End
    <3>3. Undisturbed(r)'
      BY <2>3, <2>4, <3>2 DEF Undisturbed
    <3> QED
      BY <3>1, <3>3
  <2> QED
    BY <2>1, <2>2, <2>4, ReaderAlone
<1>2. ASSUME NEW a \in Author, NEW d \in Position, NEW n \in Limits, handleRange(r, a, d, n)
      PROVE  ServingInv'
  <2> DEFINE q == [[NoRequest EXCEPT !.op = "range", !.pub = a, !.at = d, !.limit = n]
                      EXCEPT !.began = blocks]
             p == [NoProgress EXCEPT !.phase = "walk", !.pos = d]
  <2>0. n \in Nat
    BY ServingAssumption
  <2>1. q \in Request /\ p \in Progress
    BY <1>0, <2>0 DEF Request, Progress
  <2>2. /\ UNCHANGED vars /\ request' = [request EXCEPT ![r] = q]
        /\ progress' = [progress EXCEPT ![r] = p]
    BY <1>2 DEF handleRange, Begin, Goto
  <2>3. /\ q.op = "range" /\ q.pub = a /\ q.began = blocks /\ q.at = d /\ q.limit = n
        /\ p.phase = "walk" /\ p.pos = d /\ p.out = <<>> /\ p.tip = NoDigest
    BY DEF NoRequest, NoProgress
  <2> HIDE DEF q, p
  <2>4. ASSUME request'[r] = q, progress'[r] = p PROVE Reading(r)' /\ Undisturbed(r)'
    <3>1. Ranged(q, <<>>) /\ End(<<>>, d) = d
      BY DEF Ranged, CheckRange, End
    <3>2. Reading(r)'
      BY <1>b, <2>0, <2>2, <2>3, <2>4, <3>1 DEF Reading
    <3>3. <<>> \in Paths(blocks', a, d)
      BY DEF Paths
    <3>4. Undisturbed(r)'
      BY <2>3, <2>4, <3>3 DEF Undisturbed
    <3> QED
      BY <3>2, <3>4
  <2> QED
    BY <2>1, <2>2, <2>4, ReaderAlone
<1>3. ASSUME NEW a \in Author, NEW d \in Position, handleSiblings(r, a, d) PROVE ServingInv'
  <2> DEFINE q == [[NoRequest EXCEPT !.op = "siblings", !.pub = a, !.at = d] EXCEPT !.began = blocks]
             p == [NoProgress EXCEPT !.phase = "at", !.pos = d]
  <2>1. q \in Request /\ p \in Progress
    BY <1>0 DEF Request, Progress
  <2>2. /\ UNCHANGED vars /\ request' = [request EXCEPT ![r] = q]
        /\ progress' = [progress EXCEPT ![r] = p]
    BY <1>3 DEF handleSiblings, Begin, Goto
  <2>3. /\ q.op = "siblings" /\ q.pub = a /\ q.began = blocks /\ q.at = d
        /\ p.phase = "at" /\ p.pos = d
    BY DEF NoRequest, NoProgress
  <2> HIDE DEF q, p
  <2>4. ASSUME request'[r] = q, progress'[r] = p PROVE Reading(r)' /\ Undisturbed(r)'
    BY <1>b, <2>2, <2>3, <2>4 DEF Reading, Undisturbed
  <2> QED
    BY <2>1, <2>2, <2>4, ReaderAlone
<1>4. ASSUME NEW s \in Wanted, handleFetch(r, s) PROVE ServingInv'
  <2> DEFINE q == [[NoRequest EXCEPT !.op = "blocks", !.wanted = s] EXCEPT !.began = blocks]
             p == [NoProgress EXCEPT !.phase = "fetch", !.todo = s]
  <2>0. s \in Seq(Digest)
    BY ServingAssumption
  <2>1. q \in Request /\ p \in Progress
    BY <1>0, <2>0 DEF Request, Progress
  <2>2. /\ UNCHANGED vars /\ request' = [request EXCEPT ![r] = q]
        /\ progress' = [progress EXCEPT ![r] = p]
    BY <1>4 DEF handleFetch, Begin, Goto
  <2>3. /\ q.op = "blocks" /\ q.wanted = s /\ q.began = blocks
        /\ p.phase = "fetch" /\ p.todo = s /\ p.out = <<>>
    BY DEF NoRequest, NoProgress
  <2> HIDE DEF q, p
  <2>4. ASSUME request'[r] = q, progress'[r] = p PROVE Reading(r)' /\ Undisturbed(r)'
    BY <1>b, <2>2, <2>3, <2>4 DEF Reading, Undisturbed
  <2> QED
    BY <2>1, <2>2, <2>4, ReaderAlone
<1> QED
  BY <1>1, <1>2, <1>3, <1>4 DEF Arrive

\* One turn of a range.
LEMMA WalkServes ==
    ASSUME ServingInv, NEW r \in Reader, WalkOn(r)
    PROVE  ServingInv'
<1> DEFINE q == request[r]
           p == progress[r]
           here == At(blocks, q.pub, End(p.out, q.at))
           b == branch(here)
           over == [p EXCEPT !.phase = "tip", !.pos = NoDigest]
           on == [p EXCEPT !.out = Append(p.out, b), !.pos = b]
<1>1. q \in Request /\ p \in Progress /\ request \in [Reader -> Request] /\ blocks \in SUBSET Digest
  BY DEF ServingInv, ServingTypeOK, TypeOK, MemTypeOK
<1>2. Reading(r) /\ Undisturbed(r) /\ p.phase = "walk"
  BY DEF ServingInv, WalkOn
<1>3. /\ q.op = "range" /\ q.pub \in Author /\ p.pos = End(p.out, q.at) /\ p.tip = NoDigest
      /\ Ranged(q, p.out) /\ Len(p.out) <= q.limit /\ q.began \subseteq blocks
  BY <1>2 DEF Reading
<1>t. p.out \in Seq(Digest) /\ q.limit \in Nat /\ Len(p.out) \in Nat
  BY <1>1 DEF Progress, Request
<1>4. at(r) = here
  BY <1>3, AtShown
<1>5. /\ UNCHANGED vars /\ request' = request
      /\ progress' = [progress EXCEPT ![r] = IF here = {} \/ Len(p.out) = q.limit THEN over ELSE on]
  BY <1>4 DEF WalkOn, Goto
<1>6. request' = [request EXCEPT ![r] = q]
  BY <1>1, <1>5
<1>b. blocks' = blocks
  BY <1>5 DEF vars, memVars
<1>7. CASE here = {} \/ Len(p.out) = q.limit
  <2>1. over \in Progress
    BY <1>1 DEF Progress, Position
  <2>2. over.phase = "tip" /\ over.pos = NoDigest /\ over.tip = NoDigest /\ over.out = p.out
    BY <1>1, <1>3 DEF Progress
  <2>3. progress' = [progress EXCEPT ![r] = over]
    BY <1>5, <1>7
  <2>4. RangeEnded(q, p.out)
    <3>1. here = {} => At(q.began, q.pub, End(p.out, q.at)) = {}
      BY <1>3 DEF At
    <3> QED
      BY <1>7, <1>t, <3>1 DEF RangeEnded
  <2> HIDE DEF over, here
  <2>5. ASSUME request'[r] = q, progress'[r] = over PROVE Reading(r)' /\ Undisturbed(r)'
    <3>1. Reading(r)'
      BY <1>3, <1>b, <2>2, <2>4, <2>5 DEF Reading
    <3>2. <<>> \in Paths(blocks', q.pub, NoDigest) /\ End(<<>>, NoDigest) = NoDigest
      BY DEF Paths, End
    <3>3. Undisturbed(r)'
      BY <1>2, <1>b, <2>2, <2>5, <3>2 DEF Undisturbed
    <3> QED
      BY <3>1, <3>3
  <2> QED
    BY <1>1, <1>5, <1>6, <2>1, <2>3, <2>5, ReaderAlone
<1>8. CASE here # {} /\ Len(p.out) # q.limit
  <2>1. b \in Digest /\ Ranged(q, Append(p.out, b)) /\ End(Append(p.out, b), q.at) = b
    BY <1>1, <1>3, <1>8, <1>t, RangeGoesOn
  <2>2. q.began = blocks => Append(p.out, b) \in Paths(blocks, q.pub, q.at)
    <3>1. q.began = blocks => p.out \in Paths(blocks, q.pub, q.at)
      BY <1>2, <1>3 DEF Undisturbed
    <3> QED
      BY <1>1, <1>8, <3>1, PathGoesOn
  <2> HIDE DEF b
  <2>3. on \in Progress /\ Len(Append(p.out, b)) <= q.limit
    <3>1. Append(p.out, b) \in Seq(Digest) /\ Len(Append(p.out, b)) = Len(p.out) + 1
      BY <1>t, <2>1
    <3>2. on \in Progress
      BY <1>1, <2>1, <3>1 DEF Progress, Position
    <3> QED
      BY <1>3, <1>8, <1>t, <3>1, <3>2
  <2>4. on.phase = "walk" /\ on.pos = b /\ on.tip = NoDigest /\ on.out = Append(p.out, b)
    BY <1>1, <1>2, <1>3 DEF Progress
  <2>5. progress' = [progress EXCEPT ![r] = on]
    BY <1>5, <1>8
  <2> HIDE DEF on, here
  <2>6. ASSUME request'[r] = q, progress'[r] = on PROVE Reading(r)' /\ Undisturbed(r)'
    <3>1. Reading(r)'
      BY <1>3, <1>b, <2>1, <2>3, <2>4, <2>6 DEF Reading
    <3>2. Undisturbed(r)'
      BY <1>b, <2>2, <2>4, <2>6 DEF Undisturbed
    <3> QED
      BY <3>1, <3>2
  <2> QED
    BY <1>1, <1>5, <1>6, <2>3, <2>5, <2>6, ReaderAlone
<1> QED
  BY <1>7, <1>8

\* One turn of the walk to the tip.
LEMMA TipServes ==
    ASSUME ServingInv, NEW r \in Reader, TipOn(r)
    PROVE  ServingInv'
<1> DEFINE q == request[r]
           p == progress[r]
           here == At(blocks, q.pub, p.tip)
           b == branch(here)
           over == [p EXCEPT !.phase = "reply"]
           on == [p EXCEPT !.tip = b, !.pos = b]
<1>1. q \in Request /\ p \in Progress /\ request \in [Reader -> Request] /\ blocks \in SUBSET Digest
  BY DEF ServingInv, ServingTypeOK, TypeOK, MemTypeOK
<1>2. Reading(r) /\ Undisturbed(r) /\ p.phase = "tip"
  BY DEF ServingInv, TipOn
<1>3. q.op \in {"range", "tip"} /\ q.pub \in Author /\ p.pos = p.tip /\ q.began \subseteq blocks
  BY <1>2 DEF Reading
<1>r. q.op = "range" => Ranged(q, p.out) /\ RangeEnded(q, p.out) /\ Len(p.out) <= q.limit
  BY <1>2 DEF Reading
<1>4. at(r) = here
  BY <1>3, AtShown
<1>5. /\ UNCHANGED vars /\ request' = request
      /\ progress' = [progress EXCEPT ![r] = IF here = {} THEN over ELSE on]
  BY <1>4 DEF TipOn, Goto
<1>6. request' = [request EXCEPT ![r] = q]
  BY <1>1, <1>5
<1>b. blocks' = blocks
  BY <1>5 DEF vars, memVars
<1>7. CASE here = {}
  <2>1. over \in Progress
    BY <1>1 DEF Progress
  <2>2. over.phase = "reply" /\ over.tip = p.tip /\ over.out = p.out
    BY <1>1 DEF Progress
  <2>3. progress' = [progress EXCEPT ![r] = over]
    BY <1>5, <1>7
  <2>4. At(q.began, q.pub, p.tip) = {}
    BY <1>3, <1>7 DEF At
  <2> HIDE DEF over, here
  <2>5. ASSUME request'[r] = q, progress'[r] = over PROVE Reading(r)' /\ Undisturbed(r)'
    <3>1. Reading(r)'
      BY <1>3, <1>b, <1>r, <2>2, <2>4, <2>5 DEF Reading
    <3>3. Undisturbed(r)'
      BY <1>2, <1>b, <2>2, <2>5 DEF Undisturbed
    <3> QED
      BY <3>1, <3>3
  <2> QED
    BY <1>1, <1>5, <1>6, <2>1, <2>3, <2>5, ReaderAlone
<1>8. CASE here # {}
  <2>1. b \in Digest
    <3>1. here \in SUBSET Digest
      BY <1>1 DEF At
    <3> QED
      BY <1>8, <3>1, BranchLowest
  <2>2. ASSUME q.began = blocks
        PROVE  \E s \in Paths(blocks, q.pub, NoDigest) : b = End(s, NoDigest)
    <3>1. PICK s \in Paths(blocks, q.pub, NoDigest) : p.tip = End(s, NoDigest)
      BY <1>2, <1>3, <2>2 DEF Undisturbed
    <3>2. Append(s, b) \in Paths(blocks, q.pub, NoDigest) /\ End(Append(s, b), NoDigest) = b
      BY <1>1, <1>8, <3>1, PathGoesOn
    <3> QED
      BY <3>2
  <2> HIDE DEF b
  <2>3. on \in Progress
    BY <1>1, <2>1 DEF Progress, Position
  <2>4. on.phase = "tip" /\ on.pos = b /\ on.tip = b /\ on.out = p.out
    BY <1>1, <1>2 DEF Progress
  <2>5. progress' = [progress EXCEPT ![r] = on]
    BY <1>5, <1>8
  <2> HIDE DEF on, here
  <2>6. ASSUME request'[r] = q, progress'[r] = on PROVE Reading(r)' /\ Undisturbed(r)'
    <3>1. Reading(r)'
      BY <1>3, <1>b, <1>r, <2>4, <2>6 DEF Reading
    <3>2. Undisturbed(r)'
      BY <1>2, <1>b, <2>2, <2>4, <2>6 DEF Undisturbed
    <3> QED
      BY <3>1, <3>2
  <2> QED
    BY <1>1, <1>5, <1>6, <2>3, <2>5, <2>6, ReaderAlone
<1> QED
  BY <1>7, <1>8

\* The siblings of a position are read at once.
LEMMA SiblingsServe ==
    ASSUME ServingInv, NEW r \in Reader, ReadSiblings(r)
    PROVE  ServingInv'
<1> DEFINE q == request[r]
           p == progress[r]
           s == Ascending(at(r))
           over == [p EXCEPT !.phase = "reply", !.out = s]
<1>1. q \in Request /\ p \in Progress /\ request \in [Reader -> Request] /\ blocks \in SUBSET Digest
  BY DEF ServingInv, ServingTypeOK, TypeOK, MemTypeOK
<1>2. Reading(r) /\ Undisturbed(r) /\ p.phase = "at"
  BY DEF ServingInv, ReadSiblings
<1>3. q.op = "siblings" /\ q.pub \in Author /\ p.pos = q.at /\ q.began \subseteq blocks
  BY <1>2 DEF Reading
<1>4. at(r) = At(blocks, q.pub, q.at)
  BY <1>3, AtShown
<1>5. s \in Seq(Digest) /\ Range(s) = At(blocks, q.pub, q.at)
  <2>1. at(r) \in SUBSET Digest
    BY <1>1, <1>4 DEF At
  <2>2. Ascending(at(r)) \in Seq(at(r)) /\ Range(Ascending(at(r))) = at(r)
    BY <2>1, AscendingType
  <2> QED
    BY <1>4, <2>1, <2>2
<1>6. /\ UNCHANGED vars /\ request' = request /\ progress' = [progress EXCEPT ![r] = over]
  BY DEF ReadSiblings, Goto
<1>7. request' = [request EXCEPT ![r] = q] /\ blocks' = blocks
  BY <1>1, <1>6 DEF vars, memVars
<1> HIDE DEF s
<1>8. over \in Progress /\ over.phase = "reply" /\ over.out = s
  BY <1>1, <1>5 DEF Progress
<1>9. At(q.began, q.pub, q.at) \subseteq Range(s)
  BY <1>3, <1>5 DEF At
<1> HIDE DEF over
<1>10. ASSUME request'[r] = q, progress'[r] = over PROVE Reading(r)' /\ Undisturbed(r)'
  BY <1>3, <1>7, <1>8, <1>9, <1>10 DEF Reading, Undisturbed
<1> QED
  BY <1>1, <1>6, <1>7, <1>8, <1>10, ReaderAlone

\* The next of the digests asked for is looked up.
LEMMA FetchServes ==
    ASSUME ServingInv, NEW r \in Reader, FetchNext(r)
    PROVE  ServingInv'
<1> DEFINE q == request[r]
           p == progress[r]
           d == Head(p.todo)
           over == [p EXCEPT !.phase = "reply"]
           found == [p EXCEPT !.todo = Tail(p.todo), !.out = Append(p.out, d)]
           not == [p EXCEPT !.todo = Tail(p.todo)]
<1>1. q \in Request /\ p \in Progress /\ request \in [Reader -> Request] /\ blocks \in SUBSET Digest
  BY DEF ServingInv, ServingTypeOK, TypeOK, MemTypeOK
<1>2. Reading(r) /\ Undisturbed(r) /\ p.phase = "fetch"
  BY DEF ServingInv, FetchNext
<1>3. /\ q.op = "blocks" /\ q.began \subseteq blocks
      /\ Range(q.wanted) \cap q.began \subseteq Range(p.out) \cup Range(p.todo)
  BY <1>2 DEF Reading
<1>t. p.out \in Seq(Digest) /\ p.todo \in Seq(Digest)
  BY <1>1 DEF Progress
<1>4. UNCHANGED vars /\ request' = request
  BY DEF FetchNext
<1>5. request' = [request EXCEPT ![r] = q] /\ blocks' = blocks
  BY <1>1, <1>4 DEF vars, memVars
<1>6. CASE p.todo = <<>>
  <2>1. progress' = [progress EXCEPT ![r] = over]
    BY <1>6 DEF FetchNext, Goto
  <2>2. over \in Progress /\ over.phase = "reply" /\ over.out = p.out
    BY <1>1 DEF Progress
  <2>3. Range(q.wanted) \cap q.began \subseteq Range(p.out)
    BY <1>3, <1>6 DEF Range
  <2> HIDE DEF over
  <2>4. ASSUME request'[r] = q, progress'[r] = over PROVE Reading(r)' /\ Undisturbed(r)'
    BY <1>3, <1>5, <2>2, <2>3, <2>4 DEF Reading, Undisturbed
  <2> QED
    BY <1>1, <1>4, <1>5, <2>1, <2>2, <2>4, ReaderAlone
<1>7. CASE p.todo # <<>>
  <2>1. /\ d \in Digest /\ Tail(p.todo) \in Seq(Digest)
        /\ Range(p.todo) = {d} \cup Range(Tail(p.todo))
    BY <1>7, <1>t, RangeHeadTail
  <2> HIDE DEF d
  <2>2. CASE d \in blocks
    <3>1. progress' = [progress EXCEPT ![r] = found]
      BY <1>7, <2>2 DEF FetchNext, Goto, d
    <3>2. Append(p.out, d) \in Seq(Digest) /\ Range(Append(p.out, d)) = Range(p.out) \cup {d}
      BY <1>t, <2>1, RangeAppend
    <3>3. /\ found \in Progress /\ found.phase = "fetch"
          /\ found.out = Append(p.out, d) /\ found.todo = Tail(p.todo)
      BY <1>1, <1>2, <2>1, <3>2 DEF Progress
    <3>4. Range(q.wanted) \cap q.began \subseteq Range(found.out) \cup Range(found.todo)
      BY <1>3, <2>1, <3>2, <3>3
    <3> HIDE DEF found
    <3>5. ASSUME request'[r] = q, progress'[r] = found PROVE Reading(r)' /\ Undisturbed(r)'
      BY <1>3, <1>5, <3>3, <3>4, <3>5 DEF Reading, Undisturbed
    <3> QED
      BY <1>1, <1>4, <1>5, <3>1, <3>3, <3>5, ReaderAlone
  <2>3. CASE d \notin blocks
    <3>1. progress' = [progress EXCEPT ![r] = not]
      BY <1>7, <2>3 DEF FetchNext, Goto, d
    <3>2. /\ not \in Progress /\ not.phase = "fetch"
          /\ not.out = p.out /\ not.todo = Tail(p.todo)
      BY <1>1, <1>2, <2>1 DEF Progress
    <3>3. Range(q.wanted) \cap q.began \subseteq Range(not.out) \cup Range(not.todo)
      BY <1>3, <2>1, <2>3, <3>2
    <3> HIDE DEF not
    <3>4. ASSUME request'[r] = q, progress'[r] = not PROVE Reading(r)' /\ Undisturbed(r)'
      BY <1>3, <1>5, <3>2, <3>3, <3>4 DEF Reading, Undisturbed
    <3> QED
      BY <1>1, <1>4, <1>5, <3>1, <3>2, <3>4, ReaderAlone
  <2> QED
    BY <2>2, <2>3
<1> QED
  BY <1>6, <1>7

\* An answer is written.
LEMMA ReplyServes ==
    ASSUME ServingInv, NEW r \in Reader, Reply(r)
    PROVE  ServingInv'
<1>1. NoRequest \in Request /\ NoProgress \in Progress
  BY DEF NoRequest, Request, NoProgress, Progress, Position
<1>2. /\ UNCHANGED vars /\ request' = [request EXCEPT ![r] = NoRequest]
      /\ progress' = [progress EXCEPT ![r] = NoProgress]
  BY DEF Reply, Goto
<1>3. ASSUME request'[r] = NoRequest, progress'[r] = NoProgress
      PROVE  Reading(r)' /\ Undisturbed(r)'
  BY <1>3 DEF Reading, Undisturbed, NoRequest, NoProgress
<1> QED
  BY <1>1, <1>2, <1>3, ReaderAlone

\* ServingInv is inductive.
LEMMA ServingStep == ServingInv /\ [ServingNext]_<<vars, servingVars>> => ServingInv'
<1> SUFFICES ASSUME ServingInv, [ServingNext]_<<vars, servingVars>> PROVE ServingInv'
  OBVIOUS
<1>1. CASE UNCHANGED <<vars, servingVars>>
  BY <1>1, StoreServes
<1>2. CASE Next /\ UNCHANGED servingVars
  BY <1>2, StoreServes
<1>3. ASSUME NEW r \in Reader, Arrive(r) \/ Handle(r) PROVE ServingInv'
  BY <1>3, ArriveServes, WalkServes, TipServes, SiblingsServe, FetchServes, ReplyServes DEF Handle
<1> QED
  BY <1>1, <1>2, <1>3 DEF ServingNext

\* It holds in every state.
LEMMA ServingInvariant == ServingSpec => []ServingInv
  BY InitServing, ServingStep, PTL DEF ServingSpec

\* A server serves well-typed requests over a well-typed store.
THEOREM ServingTypeCorrect == ServingSpec => []ServingTypeOK
<1>1. ServingInv => ServingTypeOK
  BY DEF ServingInv
<1> QED
  BY <1>1, ServingInvariant, PTL

\* Whatever is added while a server walks its store, no answer hides a block
\* that was held when the request arrived (handleRange, handleTip,
\* handleSiblings, handleFetch).
THEOREM AnswersNeverHide == ServingSpec => []AnswersHideNothing
<1>1. ASSUME ServingInv PROVE AnswersHideNothing
  <2> SUFFICES ASSUME NEW r \in Replying
               PROVE  LET q == request[r]
                          p == progress[r]
                          follows(d) == At(q.began, q.pub, d)
                      IN  CASE q.op = "range" ->
                                   /\ CheckRange(p.out, q.pub, q.at)
                                   /\ \A i \in DOMAIN p.out :
                                         \A d \in follows(IF i = 1 THEN q.at ELSE p.out[i - 1]) :
                                             rank[p.out[i]] <= rank[d]
                                   /\ Len(p.out) < q.limit =>
                                         follows(IF p.out = <<>> THEN q.at ELSE p.out[Len(p.out)]) = {}
                            [] q.op = "tip" -> follows(p.tip) = {}
                            [] q.op = "siblings" -> follows(q.at) \subseteq Range(p.out)
                            [] q.op = "blocks" -> Range(q.wanted) \cap q.began \subseteq Range(p.out)
    BY DEF AnswersHideNothing
  <2>1. r \in Reader /\ progress[r].phase = "reply"
    BY DEF Replying
  <2>2. Reading(r) /\ request[r] \in Request
    BY <1>1, <2>1 DEF ServingInv, ServingTypeOK
  <2>3. request[r].op \in {"tip", "range", "siblings", "blocks"}
    BY <2>1, <2>2 DEF Reading, Request
  <2> QED
    BY <2>1, <2>2, <2>3 DEF Reading, Ranged, RangeEnded, Before, End
<1> QED
  BY <1>1, ServingInvariant, PTL

\* A tip and a range answered while the store stood still follow the branch
\* that Branch computes in one step.
THEOREM QuietAnswersAlwaysAgree == ServingSpec => []QuietAnswersAgree
<1>1. ASSUME ServingInv PROVE QuietAnswersAgree
  <2> SUFFICES ASSUME NEW r \in Replying,
                      request[r].began = blocks, request[r].op \in {"range", "tip"}
               PROVE  /\ progress[r].tip = TipOf(blocks, request[r].pub)
                      /\ request[r].op = "range" =>
                            progress[r].out = Walk(blocks, request[r].pub, request[r].at,
                                                   request[r].limit)
    BY DEF QuietAnswersAgree
  <2> DEFINE q == request[r]
             p == progress[r]
  <2>1. r \in Reader /\ p.phase = "reply"
    BY DEF Replying
  <2>2. /\ Reading(r) /\ Undisturbed(r) /\ q \in Request /\ p \in Progress
        /\ blocks \in SUBSET Digest
    BY <1>1, <2>1 DEF ServingInv, ServingTypeOK, TypeOK, MemTypeOK
  <2>3. PICK s \in Paths(blocks, q.pub, NoDigest) : p.tip = End(s, NoDigest)
    BY <2>1, <2>2 DEF Undisturbed
  <2>4. At(blocks, q.pub, p.tip) = {}
    BY <2>1, <2>2 DEF Reading
  <2>5. p.tip = TipOf(blocks, q.pub)
    BY <2>2, <2>3, <2>4, TipIsTheEnd
  <2>6. ASSUME q.op = "range" PROVE p.out = Walk(blocks, q.pub, q.at, q.limit)
    <3>1. p.out \in Paths(blocks, q.pub, q.at)
      BY <2>1, <2>2, <2>6 DEF Undisturbed
    <3>2. Len(p.out) <= q.limit /\ RangeEnded(q, p.out)
      BY <2>1, <2>2, <2>6 DEF Reading
    <3>3. q.limit \in Nat
      BY <2>2 DEF Request
    <3> QED
      BY <2>2, <3>1, <3>2, <3>3, OnlyWalk DEF RangeEnded
  <2> QED
    BY <2>5, <2>6
<1> QED
  BY <1>1, ServingInvariant, PTL
=============================================================================
