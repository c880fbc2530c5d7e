--------------------------- MODULE MemStoreProofs ---------------------------
(***************************************************************************)
(* Lemmas the other proofs rest on: about the blocks, the sequences that   *)
(* indexes are made of, MemStore.Add, what it keeps and what it changes,   *)
(* what a recursive function computes, and the walk along a branch.        *)
(***************************************************************************)
EXTENDS MemStore, Branch, SequenceTheorems, FiniteSetTheorems, WellFoundedInduction, TLAPS

\* The fields of a block's content have their types (Content in block.go).
LEMMA ContentType ==
    ASSUME NEW d \in Digest
    PROVE  /\ content[d] \in Content
           /\ content[d].type \in BlockType
           /\ content[d].pub \in Author
           /\ content[d].prev \in Digest \cup {NoDigest}
           /\ content[d].refs \in Seq(Digest)
           /\ content[d].ops \in Seq(Operation)
  BY ContentAssumption DEF Content

\* The plaintext refs of a block are blocks.
LEMMA RefsType ==
    ASSUME NEW d \in Digest
    PROVE  Refs(d) \in Seq(Digest) /\ Range(Refs(d)) \subseteq Digest
  BY ContentType DEF Refs, Range

\* A block's operations define entities.
LEMMA DefinitionsType ==
    ASSUME NEW d \in Digest
    PROVE  Definitions(d) \in SUBSET Entity
<1>1. content[d].ops \in Seq(Operation)
  BY ContentType
<1>2. \A i \in DOMAIN content[d].ops : content[d].ops[i] \in Operation
  BY <1>1, ElementOfSeq
<1>3. \A i \in DOMAIN content[d].ops : content[d].ops[i].creates \in Entity \cup {NoEntity}
  BY <1>2 DEF Operation
<1> QED
  BY <1>3 DEF Definitions

\* Appending adds one element to the range of a sequence.
LEMMA RangeAppend ==
    ASSUME NEW S, NEW s \in Seq(S), NEW e \in S
    PROVE  Range(Append(s, e)) = Range(s) \cup {e}
<1> DEFINE t == Append(s, e)
<1>1. /\ DOMAIN t = 1..(Len(s) + 1) /\ DOMAIN s = 1..Len(s) /\ Len(s) \in Nat
      /\ \A i \in 1..Len(s) : t[i] = s[i]
      /\ t[Len(s) + 1] = e
  BY AppendProperties
<1> HIDE DEF t
<1>2. Range(t) \subseteq Range(s) \cup {e}
  BY <1>1 DEF Range
<1>3. Range(s) \subseteq Range(t)
  BY <1>1 DEF Range
<1>4. e \in Range(t)
  BY <1>1 DEF Range
<1> QED
  BY <1>2, <1>3, <1>4 DEF t

\* The members of a sequence are its head and the members of its tail.
LEMMA RangeHeadTail ==
    ASSUME NEW S, NEW s \in Seq(S), s # <<>>
    PROVE  /\ Head(s) \in S /\ Tail(s) \in Seq(S)
           /\ Range(s) = {Head(s)} \cup Range(Tail(s))
<1> DEFINE t == Tail(s)
<1>1. /\ Head(s) \in S /\ t \in Seq(S) /\ Len(t) = Len(s) - 1 /\ Len(s) \in Nat \ {0}
      /\ Head(s) = s[1]
      /\ \A i \in 1..Len(t) : t[i] = s[i + 1]
      /\ DOMAIN s = 1..Len(s) /\ DOMAIN t = 1..Len(t)
  BY HeadTailProperties
<1> HIDE DEF t
<1>2. ASSUME NEW i \in 1..Len(s) PROVE s[i] \in {Head(s)} \cup Range(t)
  <2>1. CASE i = 1
    BY <1>1, <2>1
  <2>2. CASE i # 1
    <3>1. i - 1 \in 1..Len(t) /\ t[i - 1] = s[i]
      BY <1>1, <2>2
    <3> QED
      BY <1>1, <3>1 DEF Range
  <2> QED
    BY <2>1, <2>2
<1>3. ASSUME NEW i \in 1..Len(t) PROVE t[i] \in Range(s)
  <2>1. i + 1 \in 1..Len(s) /\ t[i] = s[i + 1]
    BY <1>1
  <2> QED
    BY <1>1, <2>1 DEF Range
<1>4. Head(s) \in Range(s)
  <2>1. 1 \in DOMAIN s
    BY <1>1
  <2> QED
    BY <1>1, <2>1 DEF Range
<1>5. Range(s) \subseteq {Head(s)} \cup Range(t)
  BY <1>1, <1>2 DEF Range
<1>6. Range(t) \subseteq Range(s)
  BY <1>1, <1>3 DEF Range
<1> QED
  BY <1>1, <1>4, <1>5, <1>6 DEF t

\* Appending what a sequence has not keeps its elements distinct.
LEMMA UniqueAppend ==
    ASSUME NEW S, NEW s \in Seq(S), NEW e \in S, Unique(s), e \notin Range(s)
    PROVE  Unique(Append(s, e))
<1> DEFINE t == Append(s, e)
<1>1. /\ DOMAIN t = 1..(Len(s) + 1) /\ DOMAIN s = 1..Len(s) /\ Len(s) \in Nat
      /\ \A i \in 1..Len(s) : t[i] = s[i]
      /\ t[Len(s) + 1] = e
  BY AppendProperties
<1> HIDE DEF t
<1>2. \A i \in 1..Len(s) : t[i] # e
  BY <1>1 DEF Range
<1>3. \A i, j \in 1..Len(s) : t[i] = t[j] => i = j
  BY <1>1 DEF Unique
<1>4. \A i, j \in 1..(Len(s) + 1) : t[i] = t[j] => i = j
  BY <1>1, <1>2, <1>3
<1> QED
  BY <1>1, <1>4 DEF Unique, t
-----------------------------------------------------------------------------
\* Adding a block keeps the types of the MemStore.
LEMMA AddType ==
    ASSUME MemTypeOK, NEW d \in Digest, Add(d)
    PROVE  MemTypeOK' /\ blocks' = blocks \cup {d}
<1>1. CASE d \in blocks
  BY <1>1 DEF Add, memVars, MemTypeOK
<1>2. CASE d \notin blocks
  <2>1. blocks' = blocks \cup {d} /\ blocks' \in SUBSET Digest
    BY <1>2 DEF Add, MemTypeOK
  <2>2. SlotOf(d) \in Slot
    BY ContentType DEF SlotOf, Slot
  <2>3. position' \in [Slot -> Seq(Digest)]
    <3>1. Append(position[SlotOf(d)], d) \in Seq(Digest)
      BY <2>2 DEF MemTypeOK
    <3>2. position' = [position EXCEPT ![SlotOf(d)] = Append(position[SlotOf(d)], d)]
      BY <1>2 DEF Add
    <3> QED
      BY <2>2, <3>1, <3>2 DEF MemTypeOK
  <2>4. referrers' \in [Digest -> Seq(Digest)]
    <3>1. \A x \in Digest : /\ referrers[x] \in Seq(Digest)
                           /\ Append(referrers[x], d) \in Seq(Digest)
      BY DEF MemTypeOK
    <3>2. referrers' = [x \in Digest |-> IF x \in Range(Refs(d))
                                        THEN Append(referrers[x], d) ELSE referrers[x]]
      BY <1>2 DEF Add
    <3> QED
      BY <3>1, <3>2
  <2> QED
    BY <2>1, <2>3, <2>4 DEF MemTypeOK
<1> QED
  BY <1>1, <1>2

\* A new block is appended to its slot and to the digests it lists, and to
\* nothing else.
LEMMA AddedToIndexes ==
    ASSUME MemTypeOK, NEW d \in Digest \ blocks, Add(d)
    PROVE  /\ \A s \in Slot : position'[s] = IF s = SlotOf(d) THEN Append(position[s], d)
                                                             ELSE position[s]
           /\ \A x \in Digest : referrers'[x] = IF x \in Range(Refs(d))
                                                THEN Append(referrers[x], d) ELSE referrers[x]
<1>1. SlotOf(d) \in Slot
  BY ContentType DEF SlotOf, Slot
<1> QED
  BY <1>1 DEF Add, MemTypeOK

\* Add keeps the indexes what a scan of the blocks would say.
LEMMA AddKeepsIndexes ==
    ASSUME MemTypeOK, IndexesAgree, NEW d \in Digest \ blocks, Add(d)
    PROVE  IndexesAgree'
<1>1. blocks' = blocks \cup {d}
  BY AddType
<1>2. ASSUME NEW s \in Slot
      PROVE  /\ Range(position'[s]) = {e \in blocks' : SlotOf(e) = s}
             /\ Unique(position'[s])
  <2>1. /\ position[s] \in Seq(Digest)
        /\ Range(position[s]) = {e \in blocks : SlotOf(e) = s}
        /\ Unique(position[s])
    BY DEF MemTypeOK, IndexesAgree
  <2>2. position'[s] = IF s = SlotOf(d) THEN Append(position[s], d) ELSE position[s]
    BY AddedToIndexes
  <2>3. /\ Range(Append(position[s], d)) = Range(position[s]) \cup {d}
        /\ Unique(Append(position[s], d))
    BY <2>1, RangeAppend, UniqueAppend
  <2> QED
    BY <1>1, <2>1, <2>2, <2>3
<1>3. ASSUME NEW x \in Digest
      PROVE  /\ Range(referrers'[x]) = {e \in blocks' : x \in Range(Refs(e))}
             /\ Unique(referrers'[x])
  <2>1. /\ referrers[x] \in Seq(Digest)
        /\ Range(referrers[x]) = {e \in blocks : x \in Range(Refs(e))}
        /\ Unique(referrers[x])
    BY DEF MemTypeOK, IndexesAgree
  <2>2. referrers'[x] = IF x \in Range(Refs(d)) THEN Append(referrers[x], d) ELSE referrers[x]
    BY AddedToIndexes
  <2>3. /\ Range(Append(referrers[x], d)) = Range(referrers[x]) \cup {d}
        /\ Unique(Append(referrers[x], d))
    BY <2>1, RangeAppend, UniqueAppend
  <2> QED
    BY <1>1, <2>1, <2>2, <2>3
<1> QED
  BY <1>2, <1>3 DEF IndexesAgree, SlotOf, Refs
-----------------------------------------------------------------------------
\* A nonempty set of naturals has a least member.
LEMMA LeastNumber ==
    ASSUME NEW S \in SUBSET Nat, S # {}
    PROVE  \E n \in S : \A m \in S : n <= m
<1>1. PICK n \in S : \A m \in S : <<m, n>> \notin OpToRel(<, Nat)
  BY WFMin, NatLessThanWellFounded, Zenon
<1>2. ASSUME NEW m \in S, m < n PROVE FALSE
  <2>1. <<m, n>> \in Nat \X Nat
    OBVIOUS
  <2>2. <<m, n>> \in OpToRel(<, Nat)
    BY <1>2, <2>1, Zenon DEF OpToRel
  <2> QED
    BY <1>1, <2>2, Zenon
<1> QED
  BY <1>2

\* Induction over the naturals, as a statement about sets of naturals: the
\* library's own takes an operator, which the provers cannot instantiate.
LEMMA Induction ==
    ASSUME NEW S \in SUBSET Nat, 0 \in S, \A n \in S : n + 1 \in S
    PROVE  S = Nat
<1> SUFFICES ASSUME Nat \ S # {} PROVE FALSE
  OBVIOUS
<1>1. PICK n \in Nat \ S : \A m \in Nat \ S : n <= m
  BY LeastNumber
<1>2. n # 0 /\ n - 1 \in Nat /\ n - 1 \in S
  BY <1>1
<1> QED
  BY <1>1, <1>2

\* A function defined by primitive recursion over the naturals exists.
LEMMA RecursionExists ==
    ASSUME NEW T, NEW first \in T, NEW step \in [T -> T]
    PROVE  \E f \in [Nat -> T] : /\ f[0] = first
                                 /\ \A n \in Nat : f[n + 1] = step[f[n]]
<1> DEFINE Begins(g, n) == /\ g \in [0..n -> T]
                           /\ g[0] = first
                           /\ \A i \in 0..(n - 1) : g[i + 1] = step[g[i]]
           S == {n \in Nat : \E g : Begins(g, n)}
<1>1. S = Nat
  <2>1. 0 \in S
    <3>1. Begins([i \in 0..0 |-> first], 0)
      OBVIOUS
    <3> QED
      BY <3>1
  <2>2. ASSUME NEW n \in S PROVE n + 1 \in S
    <3>1. PICK g : Begins(g, n)
      OBVIOUS
    <3> DEFINE h == [i \in 0..(n + 1) |-> IF i = n + 1 THEN step[g[n]] ELSE g[i]]
    <3>2. \A i \in 0..n : h[i] = g[i] /\ g[i] \in T
      BY <3>1
    <3>3. h[n + 1] = step[g[n]] /\ h[n + 1] \in T
      BY SMTT(30), <3>2
    <3>4. h \in [0..(n + 1) -> T]
      <4>1. \A i \in 0..(n + 1) : h[i] \in T
        <5>1. \A i \in 0..(n + 1) : i \in 0..n \/ i = n + 1
          OBVIOUS
        <5> HIDE DEF h
        <5> QED
          BY <3>2, <3>3, <5>1
      <4> QED
        BY <4>1
    <3>5. ASSUME NEW i \in 0..n PROVE h[i + 1] = step[h[i]]
      <4>1. CASE i = n
        BY <3>2, <3>3, <4>1
      <4>2. CASE i # n
        <5>1. i \in 0..(n - 1) /\ i + 1 \in 0..n
          BY <4>2
        <5> QED
          BY <3>1, <3>2, <5>1
      <4> QED
        BY <4>1, <4>2
    <3> HIDE DEF h
    <3>6. Begins(h, n + 1)
      BY <3>1, <3>2, <3>4, <3>5
    <3> QED
      BY <3>6
  <2> HIDE DEF S
  <2> QED
    BY <2>1, <2>2, Induction DEF S
<1>2. ASSUME NEW n \in Nat, NEW m \in 0..n, NEW g, NEW h, Begins(g, n), Begins(h, m)
      PROVE  g[m] = h[m]
  <2> DEFINE R == {i \in Nat : i <= m => g[i] = h[i]}
  <2>1. 0 \in R
    BY <1>2
  <2>2. ASSUME NEW i \in R PROVE i + 1 \in R
    <3> SUFFICES ASSUME i + 1 <= m PROVE g[i + 1] = h[i + 1]
      OBVIOUS
    <3>1. i \in 0..(n - 1) /\ i \in 0..(m - 1) /\ g[i] = h[i]
      BY <2>2
    <3> QED
      BY <1>2, <3>1
  <2> HIDE DEF R
  <2>3. R = Nat
    BY <2>1, <2>2, Induction DEF R
  <2> QED
    BY <2>3 DEF R
<1> DEFINE G(n) == CHOOSE g : Begins(g, n)
           f == [n \in Nat |-> G(n)[n]]
<1>3. \A n \in Nat : Begins(G(n), n)
  BY <1>1
<1> HIDE DEF G, S
<1>4. \A n \in Nat : f[n] = G(n)[n] /\ f[n] \in T
  BY <1>3
<1>5. f[0] = first
  BY <1>3, <1>4
<1>6. ASSUME NEW n \in Nat PROVE f[n + 1] = step[f[n]]
  <2>1. Begins(G(n), n) /\ Begins(G(n + 1), n + 1)
    BY <1>3
  <2>2. G(n + 1)[n] = G(n)[n]
    <3>1. n \in 0..(n + 1) /\ n + 1 \in Nat
      OBVIOUS
    <3> HIDE DEF Begins
    <3> QED
      BY <1>2, <2>1, <3>1
  <2>3. G(n + 1)[n + 1] = step[G(n + 1)[n]]
    <3>1. n \in 0..((n + 1) - 1)
      OBVIOUS
    <3> QED
      BY <2>1, <3>1
  <2> QED
    BY <1>4, <2>2, <2>3
<1>7. f \in [Nat -> T]
  BY <1>4
<1> HIDE DEF f
<1> QED
  BY <1>5, <1>6, <1>7

\* Of a set that grows by one step at a time, and to which only members of a
\* finite set D come, as many steps as D has elements reach the end, and
\* nothing enters that a set closed under the step does not have.
LEMMA SaturationFrom ==
    ASSUME NEW D, IsFiniteSet(D), NEW k \in Nat, Cardinality(D) <= k,
           NEW T, NEW first \in T, \A X \in T : X \subseteq first \cup D,
           NEW step \in [T -> T],
           \A X \in T : X \subseteq step[X],
           NEW f \in [Nat -> T], f[0] = first, \A n \in Nat : f[n + 1] = step[f[n]]
    PROVE  /\ f[k] \in T
           /\ first \subseteq f[k]
           /\ step[f[k]] = f[k]
           /\ \A S \in T :
                 first \subseteq S /\ (\A X \in T : X \subseteq S => step[X] \subseteq S)
                     => f[k] \subseteq S
<1> DEFINE new(n) == f[n] \ first
           Rises == {n \in Nat : step[f[n]] = f[n] \/ Cardinality(new(n)) >= n}
<1>0. \A n \in Nat : /\ new(n) \in SUBSET D
                      /\ IsFiniteSet(new(n))
                      /\ Cardinality(new(n)) \in Nat
  BY FS_CardinalityType, FS_Subset
<1>3. ASSUME NEW n \in Nat PROVE first \subseteq f[n]
  <2> DEFINE R == {m \in Nat : first \subseteq f[m]}
  <2>1. 0 \in R
    OBVIOUS
  <2>2. ASSUME NEW m \in R PROVE m + 1 \in R
    <3>1. m \in Nat /\ m + 1 \in Nat
      BY <2>2
    <3>2. f[m] \in T /\ f[m + 1] = step[f[m]]
      BY <3>1
    <3>3. f[m] \subseteq f[m + 1]
      BY <3>2
    <3> QED
      BY <2>2, <3>1, <3>3
  <2> HIDE DEF R
  <2>3. R = Nat
    BY <2>1, <2>2, Induction DEF R
  <2> QED
    BY <2>3 DEF R
<1>1. Rises = Nat
  <2>1. 0 \in Rises
    <3>1. Cardinality(new(0)) >= 0
      <4> HIDE DEF new
      <4> QED
        BY <1>0
    <3> QED
      BY <3>1
  <2>2. ASSUME NEW n \in Rises PROVE n + 1 \in Rises
    <3>0. n \in Nat /\ n + 1 \in Nat /\ f[n + 1] = step[f[n]]
      BY <2>2
    <3>1. CASE step[f[n]] = f[n]
      <4>1. step[f[n + 1]] = f[n + 1]
        BY <3>0, <3>1
      <4> QED
        BY <3>0, <4>1
    <3>2. CASE step[f[n]] # f[n]
      <4>1. f[n] \subseteq f[n + 1] /\ f[n] # f[n + 1] /\ Cardinality(new(n)) >= n
        BY <3>0, <3>2, <2>2
      <4>2. PICK x \in f[n + 1] : x \notin f[n]
        BY <4>1
      <4>x. x \in new(n + 1) /\ x \notin new(n) /\ new(n) \subseteq new(n + 1)
        BY <1>3, <3>0, <4>1, <4>2
      <4>3. /\ IsFiniteSet(new(n) \cup {x})
            /\ Cardinality(new(n) \cup {x}) = Cardinality(new(n)) + 1
        BY <1>0, <3>0, <4>x, FS_AddElement
      <4>4. Cardinality(new(n) \cup {x}) <= Cardinality(new(n + 1))
        <5>1. IsFiniteSet(new(n + 1)) /\ new(n) \cup {x} \in SUBSET new(n + 1)
          BY <1>0, <3>0, <4>x
        <5> HIDE DEF new
        <5> QED
          BY <5>1, FS_Subset
      <4>5. Cardinality(new(n + 1)) \in Nat /\ Cardinality(new(n)) \in Nat
        BY <1>0, <3>0
      <4> HIDE DEF new
      <4>6. Cardinality(new(n + 1)) >= n + 1
        BY <3>0, <4>1, <4>3, <4>4, <4>5
      <4> QED
        BY <3>0, <4>6
    <3> QED
      BY <3>1, <3>2
  <2> HIDE DEF Rises
  <2> QED
    BY <2>1, <2>2, Induction DEF Rises
<1>2. step[f[k]] = f[k]
  <2>1. CASE Cardinality(new(k)) >= k
    <3> DEFINE N == new(k)
    <3>1. /\ N \in SUBSET D /\ Cardinality(N) \in Nat
          /\ Cardinality(N) <= Cardinality(D) /\ (Cardinality(D) = Cardinality(N) => D = N)
          /\ Cardinality(D) \in Nat
      <4>1. N \in SUBSET D /\ Cardinality(N) \in Nat
        BY <1>0
      <4> HIDE DEF N
      <4> QED
        BY <4>1, FS_Subset, FS_CardinalityType
    <3>2. N = D
      <4>1. Cardinality(N) >= k
        BY <2>1
      <4> HIDE DEF N
      <4> QED
        BY <3>1, <4>1
    <3>3. f[k] = first \cup D
      <4>1. f[k] \in T /\ f[k] \subseteq first \cup D /\ first \subseteq f[k]
        BY <1>3
      <4> QED
        BY <3>2, <4>1
    <3>4. step[f[k]] \in T /\ f[k] \subseteq step[f[k]]
      OBVIOUS
    <3> QED
      BY <3>3, <3>4
  <2>2. k \in Rises
    <3> HIDE DEF Rises
    <3> QED
      BY <1>1
  <2> QED
    BY <2>1, <2>2
<1>4. ASSUME NEW S \in T, first \subseteq S, \A X \in T : X \subseteq S => step[X] \subseteq S
      PROVE  f[k] \subseteq S
  <2> DEFINE R == {n \in Nat : f[n] \subseteq S}
  <2>1. 0 \in R
    BY <1>4
  <2>2. ASSUME NEW n \in R PROVE n + 1 \in R
    BY <1>4
  <2> HIDE DEF R
  <2>3. R = Nat
    BY <2>1, <2>2, Induction DEF R
  <2> QED
    BY <2>3 DEF R
<1> QED
  BY <1>2, <1>3, <1>4

\* The same within a finite set D.
LEMMA Saturation ==
    ASSUME NEW D, IsFiniteSet(D), NEW T, D \in T, \A X \in T : X \subseteq D,
           NEW first \in T, NEW step \in [T -> T],
           \A X \in T : X \subseteq step[X],
           NEW f \in [Nat -> T], f[0] = first, \A n \in Nat : f[n + 1] = step[f[n]]
    PROVE  /\ f[Cardinality(D)] \in T
           /\ first \subseteq f[Cardinality(D)]
           /\ step[f[Cardinality(D)]] = f[Cardinality(D)]
           /\ \A S \in T :
                 first \subseteq S /\ (\A X \in T : X \subseteq S => step[X] \subseteq S)
                     => f[Cardinality(D)] \subseteq S
<1> DEFINE k == Cardinality(D)
<1>1. k \in Nat /\ Cardinality(D) <= k
  BY FS_CardinalityType
<1>2. \A X \in T : X \subseteq first \cup D
  OBVIOUS
<1>3. k = Cardinality(D)
  OBVIOUS
<1> HIDE DEF k
<1>4. /\ f[k] \in T
      /\ first \subseteq f[k]
      /\ step[f[k]] = f[k]
      /\ \A S \in T :
            first \subseteq S /\ (\A X \in T : X \subseteq S => step[X] \subseteq S)
                => f[k] \subseteq S
  BY SMTT(30), <1>1, <1>2, SaturationFrom
<1> QED
  BY <1>3, <1>4
-----------------------------------------------------------------------------
\* What each of k turns makes of a member of T.
Turns(k, T) == [1..k -> [T -> T]]

\* A function defined by recursion up to k exists, its step depending on how
\* far it has come.
LEMMA RecursionTo ==
    ASSUME NEW T, NEW first \in T, NEW k \in Nat, NEW step \in Turns(k, T)
    PROVE  \E f \in [0..k -> T] : /\ f[0] = first
                                  /\ \A n \in 1..k : f[n] = step[n][f[n - 1]]
<1> DEFINE Reaches(m) == \E f \in [0..m -> T] : /\ f[0] = first
                                               /\ \A n \in 1..m : f[n] = step[n][f[n - 1]]
           S == {m \in Nat : m <= k => Reaches(m)}
<1>1. 0 \in S
  <2> DEFINE f == [i \in 0..0 |-> first]
  <2>1. f \in [0..0 -> T] /\ f[0] = first /\ 1..0 = {}
    OBVIOUS
  <2> HIDE DEF f
  <2>2. Reaches(0)
    BY <2>1
  <2> QED
    BY <2>2
<1>2. ASSUME NEW m \in S PROVE m + 1 \in S
  <2> SUFFICES ASSUME m + 1 <= k PROVE Reaches(m + 1)
    OBVIOUS
  <2>0. m \in Nat /\ m + 1 \in 1..k /\ m \in 0..m
    OBVIOUS
  <2>1. PICK f \in [0..m -> T] : f[0] = first /\ \A n \in 1..m : f[n] = step[n][f[n - 1]]
    OBVIOUS
  <2> DEFINE g == [i \in 0..(m + 1) |-> IF i = m + 1 THEN step[m + 1][f[m]] ELSE f[i]]
  <2>2. step[m + 1][f[m]] \in T
    <3>1. step[m + 1] \in [T -> T] /\ f[m] \in T
      BY <2>0 DEF Turns
    <3> QED
      BY <3>1
  <2>3. \A i \in 0..(m + 1) : i = m + 1 \/ (i \in 0..m /\ i # m + 1)
    BY <2>0
  <2>4. g \in [0..(m + 1) -> T]
    BY <2>2, <2>3
  <2>5. \A i \in 0..m : g[i] = f[i]
    BY <2>0
  <2>6. g[m + 1] = step[m + 1][f[m]]
    BY <2>0
  <2> HIDE DEF g
  <2>7. g[0] = first
    BY <2>0, <2>1, <2>5
  <2>8. ASSUME NEW n \in 1..(m + 1) PROVE g[n] = step[n][g[n - 1]]
    <3>1. CASE n = m + 1
      <4>1. n - 1 = m
        BY <2>0, <3>1
      <4> QED
        BY <2>0, <2>5, <2>6, <3>1, <4>1
    <3>2. CASE n # m + 1
      <4>1. n \in 1..m /\ n \in 0..m /\ n - 1 \in 0..m
        BY <2>0, <3>2
      <4> QED
        BY <2>1, <2>5, <4>1
    <3> QED
      BY <3>1, <3>2
  <2> QED
    BY <2>4, <2>7, <2>8
<1> HIDE DEF S
<1>3. S = Nat
  BY <1>1, <1>2, Induction DEF S
<1> QED
  BY <1>3 DEF S

\* A statement about the numbers up to k, by induction.
LEMMA InductionTo ==
    ASSUME NEW k \in Nat, NEW S, 0 \in S, \A n \in 1..k : n - 1 \in S => n \in S
    PROVE  0..k \subseteq S
<1> DEFINE R == {n \in Nat : n <= k => n \in S}
<1>1. 0 \in R
  OBVIOUS
<1>2. ASSUME NEW n \in R PROVE n + 1 \in R
  <2> SUFFICES ASSUME n + 1 <= k PROVE n + 1 \in S
    OBVIOUS
  <2>1. n + 1 \in 1..k /\ (n + 1) - 1 = n /\ n \in S
    OBVIOUS
  <2> QED
    BY <2>1
<1> HIDE DEF R
<1>3. R = Nat
  BY <1>1, <1>2, Induction DEF R
<1> QED
  BY <1>3 DEF R
-----------------------------------------------------------------------------
\* Only keeps a sequence of the members of both.
LEMMA OnlyType ==
    ASSUME NEW T, NEW s \in Seq(T), NEW S
    PROVE  Only(s, S) \in Seq(T \cap S)
<1> DEFINE k == Len(s)
           U == Seq(T \cap S)
           Shape(f) == [n \in 0..k |-> IF n = 0 THEN <<>>
                                       ELSE IF s[n] \in S THEN Append(f[n - 1], s[n]) ELSE f[n - 1]]
           kept == CHOOSE f : f = Shape(f)
           none == <<>>
           step == [n \in 1..k |-> [t \in U |-> IF s[n] \in S THEN Append(t, s[n]) ELSE t]]
<1>1. k \in Nat /\ \A n \in 1..k : s[n] \in T
  OBVIOUS
<1>2. step \in Turns(k, U)
  <2>1. ASSUME NEW n \in 1..k, NEW t \in U
        PROVE  (IF s[n] \in S THEN Append(t, s[n]) ELSE t) \in U
    BY <1>1
  <2> HIDE DEF U, k
  <2> QED
    BY <2>1 DEF Turns
<1>3. none \in U
  OBVIOUS
<1>4. PICK f \in [0..k -> U] : f[0] = none /\ \A n \in 1..k : f[n] = step[n][f[n - 1]]
  <2> HIDE DEF U, step, k, none
  <2> QED
    BY SMTT(30), <1>1, <1>2, <1>3, RecursionTo
<1>5. \A n \in 1..k : f[n] = IF s[n] \in S THEN Append(f[n - 1], s[n]) ELSE f[n - 1]
  <2>1. \A n \in 1..k : n - 1 \in 0..k
    OBVIOUS
  <2>2. \A n \in 1..k, t \in U : step[n][t] = IF s[n] \in S THEN Append(t, s[n]) ELSE t
    OBVIOUS
  <2> HIDE DEF U, k, step
  <2> QED
    BY <1>4, <2>1, <2>2
<1>6. f = Shape(f)
  <2>1. \A n \in 0..k : n = 0 \/ n \in 1..k
    OBVIOUS
  <2> HIDE DEF U, k, step
  <2>2. \A n \in 0..k : f[n] = IF n = 0 THEN <<>>
                              ELSE IF s[n] \in S THEN Append(f[n - 1], s[n]) ELSE f[n - 1]
    BY ONLY <1>4, <1>5, <2>1, Zenon
  <2>3. f = [n \in 0..k |-> f[n]]
    BY ONLY <1>4
  <2> QED
    BY ONLY <2>2, <2>3
<1>7. kept = Shape(kept)
  BY <1>6, Zenon
<1>8. Only(s, S) = kept[k]
  BY DEF Only
<1> HIDE DEF kept
<1>9. \A n \in 0..k : kept[n] = IF n = 0 THEN <<>>
                                ELSE IF s[n] \in S THEN Append(kept[n - 1], s[n]) ELSE kept[n - 1]
  BY <1>7
<1> DEFINE R == {n \in 0..k : kept[n] \in U}
<1>10. 0 \in R
  <2>1. 0 \in 0..k
    BY <1>1
  <2>2. kept[0] = <<>>
    BY <1>9, <2>1
  <2> QED
    BY <1>3, <2>1, <2>2
<1>11. ASSUME NEW n \in 1..k, n - 1 \in R PROVE n \in R
  <2>1. n \in 0..k /\ n # 0
    BY <1>1
  <2>2. kept[n - 1] \in U /\ s[n] \in T
    BY <1>1, <1>11
  <2>3. kept[n] = IF s[n] \in S THEN Append(kept[n - 1], s[n]) ELSE kept[n - 1]
    BY <1>9, <2>1
  <2>4. s[n] \in S => Append(kept[n - 1], s[n]) \in U
    BY <2>2
  <2> QED
    BY <2>1, <2>2, <2>3, <2>4
<1> HIDE DEF R, k
<1>12. 0..k \subseteq R
  BY <1>1, <1>10, <1>11, InductionTo
<1> QED
  BY <1>1, <1>8, <1>12 DEF R

\* The lowest of some digests is one of them.
LEMMA BranchLowest ==
    ASSUME NEW S \in SUBSET Digest, S # {}
    PROVE  branch(S) \in S /\ \A e \in S : rank[branch(S)] <= rank[e]
<1> DEFINE ranks == {rank[d] : d \in S}
<1>1. ranks \in SUBSET Nat /\ ranks # {}
  BY RankAssumption
<1>2. \A n \in ranks : \E d \in S : n = rank[d]
  OBVIOUS
<1>3. \A d \in S : rank[d] \in ranks
  OBVIOUS
<1>4. PICK n \in ranks : \A m \in ranks : n <= m
  <2> HIDE DEF ranks
  <2> QED
    BY <1>1, LeastNumber
<1> HIDE DEF ranks
<1>5. \E d \in S : \A e \in S : rank[d] <= rank[e]
  BY <1>2, <1>3, <1>4
<1> QED
  BY <1>5 DEF branch

\* Digests are listed in order of rank.
InRank(s) == \A i, j \in DOMAIN s : i < j => rank[s[i]] < rank[s[j]]

\* A set of digests is finite, and so is what it lists.
LEMMA SetsOfDigests ==
    ASSUME NEW S \in SUBSET Digest
    PROVE  IsFiniteSet(S) /\ Cardinality(S) \in Nat
<1>1. IsFiniteSet(S)
  BY DigestsAreFinite, FS_Subset
<1> QED
  BY <1>1, FS_CardinalityType

\* There are n numbers up to n.
LEMMA CountTo ==
    ASSUME NEW n \in Nat
    PROVE  IsFiniteSet(1..n) /\ Cardinality(1..n) = n
<1>1. 1 \in Int /\ n \in Int
  OBVIOUS
<1>2. IsFiniteSet(1..n) /\ Cardinality(1..n) = IF 1 > n THEN 0 ELSE n - 1 + 1
  BY <1>1, FS_Interval, Zenon
<1> QED
  BY <1>2

\* Some listing of R is in order of rank.
InRankOrder(R) == \E s \in [1..Cardinality(R) -> R] : InRank(s)

\* The lowest digest, then the others in order.
LEMMA ListedOneMore ==
    ASSUME NEW n \in Nat, NEW R \in SUBSET Digest, Cardinality(R) = n + 1,
           \A T \in SUBSET Digest : Cardinality(T) = n => InRankOrder(T)
    PROVE  InRankOrder(R)
<1> DEFINE low == branch(R)
           rest == R \ {low}
<1>0. IsFiniteSet(R)
  BY SetsOfDigests
<1>1. R # {}
  <2>1. n + 1 # 0
    OBVIOUS
  <2> QED
    BY <1>0, <2>1, FS_EmptySet
<1>2. low \in R /\ \A e \in R : rank[low] <= rank[e]
  BY <1>1, BranchLowest
<1> HIDE DEF low
<1>3. Cardinality(rest) = n
  <2>1. Cardinality(rest) = Cardinality(R) - 1
    BY <1>0, <1>2, FS_RemoveElement
  <2> QED
    BY <2>1
<1>4. PICK t \in [1..n -> rest] : InRank(t)
  <2>1. InRankOrder(rest)
    BY <1>3
  <2> HIDE DEF rest
  <2> QED
    BY <1>3, <2>1 DEF InRankOrder
<1> DEFINE s == [i \in 1..(n + 1) |-> IF i = 1 THEN low ELSE t[i - 1]]
<1>5. \A i \in 1..(n + 1) : i = 1 \/ (i # 1 /\ i - 1 \in 1..n)
  OBVIOUS
<1>6. s \in [1..(n + 1) -> R]
  BY <1>2, <1>5
<1>7. \A e \in rest : rank[low] < rank[e]
  <2> TAKE e \in rest
  <2>1. e \in Digest /\ low \in Digest /\ e # low /\ rank[low] <= rank[e]
    BY <1>2
  <2>2. rank[e] \in Nat /\ rank[low] \in Nat /\ rank[e] # rank[low]
    BY <2>1, RankAssumption
  <2> QED
    BY <2>1, <2>2
<1>8. ASSUME NEW i \in 1..(n + 1), NEW j \in 1..(n + 1), i < j
      PROVE  rank[s[i]] < rank[s[j]]
  <2>1. j # 1 /\ j - 1 \in 1..n /\ s[j] = t[j - 1] /\ t[j - 1] \in rest
    BY <1>5, <1>8
  <2>2. CASE i = 1
    BY <1>7, <2>1, <2>2
  <2>3. CASE i # 1
    <3>1. i - 1 \in 1..n /\ s[i] = t[i - 1] /\ i - 1 < j - 1
      BY <1>5, <1>8, <2>3
    <3> QED
      BY <1>4, <2>1, <3>1 DEF InRank
  <2> QED
    BY <2>2, <2>3
<1> HIDE DEF s
<1>9. InRank(s)
  BY <1>6, <1>8 DEF InRank
<1>10. s \in [1..Cardinality(R) -> R]
  BY <1>6
<1> QED
  BY <1>9, <1>10 DEF InRankOrder

\* Every set of digests can be listed in order of rank.
LEMMA AscendingExists ==
    ASSUME NEW S \in SUBSET Digest
    PROVE  InRankOrder(S)
<1> DEFINE N == {n \in Nat : \A R \in SUBSET Digest : Cardinality(R) = n => InRankOrder(R)}
<1>1. 0 \in N
  <2> SUFFICES ASSUME NEW R \in SUBSET Digest, Cardinality(R) = 0 PROVE InRankOrder(R)
    OBVIOUS
  <2> DEFINE none == [i \in 1..0 |-> CHOOSE d : d \in R]
  <2>1. none \in [1..0 -> R] /\ InRank(none)
    BY DEF InRank
  <2> QED
    BY <2>1 DEF InRankOrder
<1>2. ASSUME NEW n \in N PROVE n + 1 \in N
  BY ListedOneMore
<1>3. N \in SUBSET Nat
  OBVIOUS
<1> HIDE DEF N
<1>4. N = Nat
  BY <1>1, <1>2, <1>3, Induction
<1>5. Cardinality(S) \in N
  BY <1>4, SetsOfDigests
<1> QED
  BY <1>5 DEF N

\* Ascending lists every digest of a set.
LEMMA AscendingType ==
    ASSUME NEW S \in SUBSET Digest
    PROVE  /\ Ascending(S) \in Seq(S)
           /\ Range(Ascending(S)) = S
           /\ InRank(Ascending(S))
           /\ Len(Ascending(S)) = Cardinality(S)
<1> DEFINE s == Ascending(S)
           n == Cardinality(S)
<1>1. s \in [1..n -> S] /\ InRank(s)
  BY AscendingExists DEF Ascending, InRank, InRankOrder
<1>2. n \in Nat /\ IsFiniteSet(S)
  BY SetsOfDigests
<1>n. n = Cardinality(S)
  OBVIOUS
<1>s. s = Ascending(S)
  OBVIOUS
<1> HIDE DEF s, n
<1>3. \A i, j \in 1..n : i # j => s[i] # s[j]
  <2> SUFFICES ASSUME NEW i \in 1..n, NEW j \in 1..n, i < j PROVE s[i] # s[j]
    BY <1>2
  <2>1. rank[s[i]] < rank[s[j]] /\ rank[s[i]] \in Nat
    BY <1>1, RankAssumption DEF InRank
  <2> QED
    BY <2>1
<1>4. Range(s) \in SUBSET S
  BY <1>1 DEF Range
<1>5. s \in Bijection(1..n, Range(s))
  <2>1. s \in [1..n -> Range(s)]
    BY <1>1 DEF Range
  <2>2. s \in Surjection(1..n, Range(s))
    BY <1>1, <2>1 DEF Surjection, Range
  <2>3. s \in Injection(1..n, Range(s))
    BY <1>1, <1>3, <2>1 DEF Injection, IsInjective
  <2> QED
    BY <2>2, <2>3 DEF Bijection
<1>6. Cardinality(Range(s)) = n
  <2>1. ExistsBijection(1..n, Range(s))
    BY <1>5 DEF ExistsBijection
  <2> QED
    BY <1>2, <2>1, FS_CountingElements
<1>7. Range(s) = S
  BY <1>2, <1>4, <1>6, <1>n, FS_Subset
<1>8. Len(s) = n
  BY <1>1, <1>2
<1> QED
  BY <1>1, <1>2, <1>7, <1>8, <1>n, <1>s

\* A set of positions is finite, like one of digests.
LEMMA SetsOfPositions ==
    ASSUME NEW S \in SUBSET (Digest \cup {NoDigest})
    PROVE  IsFiniteSet(S)
<1>1. IsFiniteSet(Digest \cup {NoDigest})
  BY DigestsAreFinite, FS_AddElement
<1> QED
  BY <1>1, FS_Subset

\* A finite set has a listing, and its listings are sequences over it.
LEMMA ListingType ==
    ASSUME NEW S, IsFiniteSet(S)
    PROVE  Listings(S) # {} /\ \A s \in Listings(S) : s \in Seq(S) /\ Range(s) = S
<1>1. Cardinality(S) \in Nat
  BY FS_CardinalityType
<1>2. PICK n \in Nat : ExistsBijection(1..n, S)
  BY FS_NatBijection
<1>3. n = Cardinality(S)
  BY <1>2, FS_CountingElements
<1>4. PICK s \in Bijection(1..n, S) : TRUE
  BY <1>2 DEF ExistsBijection
<1>5. s \in [1..n -> S] /\ Range(s) = S
  BY <1>4 DEF Bijection, Surjection, Range
<1> QED
  BY <1>1, <1>3, <1>5 DEF Listings
-----------------------------------------------------------------------------
\* The position a walk comes from at its i-th block, and where it stands.
Before(s, i, after) == IF i = 1 THEN after ELSE s[i - 1]
End(s, after) == IF s = <<>> THEN after ELSE s[Len(s)]

\* The walks from a position, ended or not.
Paths(held, pub, after) ==
    {s \in Seq(held) :
        \A i \in 1..Len(s) :
            LET here == At(held, pub, Before(s, i, after)) IN
            here # {} /\ s[i] = branch(here)}

\* A walk goes on with the lowest block of the next position.
LEMMA PathGoesOn ==
    ASSUME NEW held \in SUBSET Digest, NEW pub, NEW after,
           NEW s \in Paths(held, pub, after), At(held, pub, End(s, after)) # {}
    PROVE  LET b == branch(At(held, pub, End(s, after)))
               t == Append(s, b)
           IN  b \in held /\ t \in Paths(held, pub, after) /\ Len(t) = Len(s) + 1
                   /\ End(t, after) = b
<1> DEFINE here == At(held, pub, End(s, after))
           b == branch(here)
           t == Append(s, b)
           n == Len(s)
<1>1. s \in Seq(held) /\ n \in Nat
  BY DEF Paths
<1>2. b \in held /\ b \in here
  <2>1. here \in SUBSET Digest /\ here \subseteq held /\ here # {}
    BY DEF At
  <2> HIDE DEF here
  <2> QED
    BY <2>1, BranchLowest
<1>h. here = At(held, pub, End(s, after)) /\ b = branch(here) /\ n = Len(s) /\ here # {}
  OBVIOUS
<1> HIDE DEF b, here
<1>3. t \in Seq(held) /\ Len(t) = n + 1 /\ t[n + 1] = b /\ \A i \in 1..n : t[i] = s[i]
  BY <1>1, <1>2
<1>e. End(s, after) = Before(t, n + 1, after)
  <2>1. CASE s = <<>>
    BY <2>1 DEF End, Before
  <2>2. CASE s # <<>>
    <3>1. n # 0 /\ n \in 1..n
      BY <1>1, <2>2
    <3> QED
      BY <1>1, <1>3, <2>2, <3>1 DEF End, Before
  <2> QED
    BY <2>1, <2>2
<1> HIDE DEF n, t
<1>4. ASSUME NEW i \in 1..(n + 1)
      PROVE  LET h == At(held, pub, Before(t, i, after)) IN h # {} /\ t[i] = branch(h)
  <2>1. CASE i = n + 1
    BY <1>3, <1>e, <1>h, <2>1
  <2>2. CASE i # n + 1
    <3>1. i \in 1..n /\ (i = 1 \/ i - 1 \in 1..n)
      BY <1>1, <2>2
    <3>2. Before(t, i, after) = Before(s, i, after)
      BY <1>3, <3>1 DEF Before
    <3>3. t[i] = s[i]
      BY <1>3, <3>1
    <3> QED
      BY <1>h, <3>1, <3>2, <3>3 DEF Paths
  <2> QED
    BY <2>1, <2>2
<1>5. t \in Paths(held, pub, after)
  BY <1>3, <1>4 DEF Paths
<1>6. End(t, after) = b
  <2>1. t # <<>>
    BY <1>1, <1>3
  <2> QED
    BY <1>3, <2>1 DEF End
<1> QED
  BY <1>2, <1>3, <1>5, <1>6, <1>h DEF t

\* What Walk computes: a walk that ends at its limit or where nothing follows.
LEMMA WalkIsPath ==
    ASSUME NEW held \in SUBSET Digest, NEW pub, NEW after, NEW limit \in Nat
    PROVE  LET s == Walk(held, pub, after, limit) IN
           /\ s \in Paths(held, pub, after)
           /\ Len(s) <= limit
           /\ Len(s) < limit => At(held, pub, End(s, after)) = {}
<1> DEFINE P == Paths(held, pub, after)
           here(t) == At(held, pub, IF t = <<>> THEN after ELSE t[Len(t)])
           Turn(n, t) == IF Len(t) < n - 1 \/ here(t) = {} THEN t ELSE Append(t, branch(here(t)))
           Shape(f) == [n \in 0..limit |-> IF n = 0 THEN <<>> ELSE Turn(n, f[n - 1])]
           Walked == CHOOSE f : f = Shape(f)
           none == <<>>
           step == [n \in 1..limit |-> [t \in P |-> Turn(n, t)]]
<1>1. none \in P
  BY DEF Paths
<1>h. \A t : here(t) = At(held, pub, End(t, after))
  BY DEF End
<1>2. ASSUME NEW t \in P, here(t) # {}
      PROVE  Append(t, branch(here(t))) \in P /\ Len(Append(t, branch(here(t)))) = Len(t) + 1
  BY <1>2, <1>h, PathGoesOn
<1>l. \A t \in P : Len(t) \in Nat
  BY DEF Paths
<1> HIDE DEF here, P
<1>3. step \in Turns(limit, P)
  <2>1. \A n \in 1..limit, t \in P : Turn(n, t) \in P
    BY <1>2
  <2> HIDE DEF Turn
  <2> QED
    BY <2>1 DEF Turns
<1>4. PICK f \in [0..limit -> P] : f[0] = none /\ \A n \in 1..limit : f[n] = step[n][f[n - 1]]
  <2> HIDE DEF step, none
  <2> QED
    BY <1>1, <1>3, RecursionTo
<1>5. f = Shape(f)
  <2>1. \A n \in 0..limit : n = 0 \/ (n \in 1..limit /\ n # 0 /\ n - 1 \in 0..limit)
    OBVIOUS
  <2>2. \A n \in 1..limit, t \in P : step[n][t] = Turn(n, t)
    OBVIOUS
  <2> HIDE DEF step, Turn
  <2> QED
    BY <1>4, <2>1, <2>2
<1>6. Walked = Shape(Walked)
  <2> HIDE DEF Shape
  <2> QED
    BY <1>5
<1>7. Walk(held, pub, after, limit) = Walked[limit]
  BY DEF Walk, here
<1> HIDE DEF Walked
<1>8. \A n \in 0..limit : Walked[n] = IF n = 0 THEN <<>> ELSE Turn(n, Walked[n - 1])
  <2> HIDE DEF Turn
  <2> QED
    BY <1>6
<1> DEFINE R == {n \in 0..limit : /\ Walked[n] \in P
                                 /\ Len(Walked[n]) <= n
                                 /\ Len(Walked[n]) < n => here(Walked[n]) = {}}
<1>9. 0 \in R
  <2>1. 0 \in 0..limit
    OBVIOUS
  <2>2. Walked[0] = <<>>
    BY <1>8, <2>1
  <2> QED
    BY <1>1, <2>1, <2>2
<1>r. \A n \in R : /\ Walked[n] \in P
                   /\ Len(Walked[n]) <= n
                   /\ Len(Walked[n]) < n => here(Walked[n]) = {}
  OBVIOUS
<1>R. \A n \in 0..limit : (/\ Walked[n] \in P
                             /\ Len(Walked[n]) <= n
                             /\ Len(Walked[n]) < n => here(Walked[n]) = {}) => n \in R
  OBVIOUS
<1> HIDE DEF R
<1>10. ASSUME NEW n \in 1..limit, n - 1 \in R PROVE n \in R
  <2> DEFINE t == Walked[n - 1]
             u == Walked[n]
  <2>1. n \in 0..limit /\ n # 0
    OBVIOUS
  <2>2. t \in P /\ Len(t) <= n - 1 /\ (Len(t) < n - 1 => here(t) = {}) /\ Len(t) \in Nat
    BY <1>10, <1>l, <1>r
  <2>3. u = Turn(n, t)
    BY <1>8, <2>1
  <2>u. u = Walked[n]
    OBVIOUS
  <2> HIDE DEF t, u
  <2>4. u \in P /\ Len(u) <= n /\ (Len(u) < n => here(u) = {})
    <3>1. CASE here(t) = {}
      BY <2>2, <2>3, <3>1
    <3>2. CASE here(t) # {}
      <4>1. Len(t) = n - 1
        BY <2>2, <3>2
      <4>2. u = Append(t, branch(here(t)))
        BY <2>3, <3>2, <4>1
      <4> QED
        BY <1>2, <2>2, <3>2, <4>1, <4>2
    <3> QED
      BY <3>1, <3>2
  <2> QED
    BY <1>R, <2>1, <2>4, <2>u
<1>11. 0..limit \subseteq R
  BY <1>9, <1>10, InductionTo
<1>12. limit \in R
  BY <1>11
<1> QED
  BY <1>7, <1>12, <1>r, <1>h DEF P

\* Two walks from one position agree as far as both go.
LEMMA PathsAgree ==
    ASSUME NEW held, NEW pub, NEW after,
           NEW s \in Paths(held, pub, after), NEW t \in Paths(held, pub, after),
           Len(s) <= Len(t)
    PROVE  \A i \in 1..Len(s) : s[i] = t[i]
<1> DEFINE k == Len(s)
           S == {n \in 0..k : n = 0 \/ s[n] = t[n]}
<1>0. k \in Nat /\ Len(t) \in Nat
  BY DEF Paths
<1>1. 0 \in S
  BY <1>0
<1>2. ASSUME NEW n \in 1..k, n - 1 \in S PROVE n \in S
  <2>1. n \in 0..k /\ n \in 1..Len(s) /\ n \in 1..Len(t) /\ n # 0
    BY <1>0
  <2>2. n = 1 \/ s[n - 1] = t[n - 1]
    BY <1>0, <1>2
  <2>3. Before(s, n, after) = Before(t, n, after)
    BY <2>2 DEF Before
  <2>4. s[n] = t[n]
    BY <2>1, <2>3 DEF Paths
  <2> QED
    BY <2>1, <2>4
<1>s. \A n \in S : n = 0 \/ s[n] = t[n]
  OBVIOUS
<1> HIDE DEF S, k
<1>3. 0..k \subseteq S
  BY <1>0, <1>1, <1>2, InductionTo
<1>4. \A i \in 1..k : i \in S /\ i # 0
  BY <1>0, <1>3
<1> QED
  BY <1>4, <1>s DEF k

\* A walk that stands where nothing follows is the longest.
LEMMA EndedIsLongest ==
    ASSUME NEW held, NEW pub, NEW after,
           NEW s \in Paths(held, pub, after), NEW t \in Paths(held, pub, after),
           At(held, pub, End(s, after)) = {}
    PROVE  Len(t) <= Len(s)
<1> DEFINE n == Len(s)
<1>0. n \in Nat /\ Len(t) \in Nat /\ s \in Seq(held)
  BY DEF Paths
<1> SUFFICES ASSUME n < Len(t) PROVE FALSE
  BY <1>0
<1>1. n + 1 \in 1..Len(t) /\ n <= Len(t)
  BY <1>0
<1>2. At(held, pub, Before(t, n + 1, after)) # {}
  BY <1>1 DEF Paths
<1>3. Before(t, n + 1, after) = End(s, after)
  <2>1. CASE s = <<>>
    BY <2>1 DEF Before, End
  <2>2. CASE s # <<>>
    <3>1. n # 0 /\ n \in 1..n
      BY <1>0, <2>2
    <3>2. s[n] = t[n]
      BY <1>1, <3>1, PathsAgree
    <3> QED
      BY <1>0, <2>2, <3>1, <3>2 DEF Before, End
  <2> QED
    BY <2>1, <2>2
<1> QED
  BY <1>2, <1>3

\* Walks of one length from one position are the same.
LEMMA PathsOfALength ==
    ASSUME NEW held, NEW pub, NEW after,
           NEW s \in Paths(held, pub, after), NEW t \in Paths(held, pub, after),
           Len(s) = Len(t)
    PROVE  s = t
<1>1. s \in Seq(held) /\ t \in Seq(held) /\ Len(s) \in Nat
  BY DEF Paths
<1>2. \A i \in 1..Len(s) : s[i] = t[i]
  BY <1>1, PathsAgree
<1> QED
  BY <1>1, <1>2

\* Walk is the only walk that ends at its limit or where nothing follows.
LEMMA OnlyWalk ==
    ASSUME NEW held \in SUBSET Digest, NEW pub, NEW after, NEW limit \in Nat,
           NEW s \in Paths(held, pub, after), Len(s) <= limit,
           Len(s) < limit => At(held, pub, End(s, after)) = {}
    PROVE  s = Walk(held, pub, after, limit)
<1> DEFINE w == Walk(held, pub, after, limit)
<1>1. /\ w \in Paths(held, pub, after)
      /\ Len(w) <= limit
      /\ Len(w) < limit => At(held, pub, End(w, after)) = {}
  BY WalkIsPath
<1> HIDE DEF w
<1>2. Len(w) \in Nat /\ Len(s) \in Nat
  BY <1>1 DEF Paths
<1>3. Len(s) < limit => Len(w) <= Len(s)
  BY <1>1, EndedIsLongest
<1>4. Len(w) < limit => Len(s) <= Len(w)
  BY <1>1, EndedIsLongest
<1>5. Len(s) = Len(w)
  BY <1>1, <1>2, <1>3, <1>4
<1>6. s = w
  BY <1>1, <1>5, PathsOfALength
<1> QED
  BY <1>6 DEF w

\* No block comes twice in a walk: digests are acyclic.
LEMMA PathIsSimple ==
    ASSUME NEW held \in SUBSET Digest, NEW pub, NEW after, NEW s \in Paths(held, pub, after)
    PROVE  \A i, j \in 1..Len(s) : s[i] = s[j] => i = j
<1>0. s \in Seq(held) /\ Len(s) \in Nat
  BY DEF Paths
<1>1. ASSUME NEW i \in 1..Len(s) PROVE content[s[i]].prev = Before(s, i, after)
  <2> DEFINE here == At(held, pub, Before(s, i, after))
  <2>1. here # {} /\ s[i] = branch(here) /\ here \in SUBSET Digest
    BY DEF Paths, At
  <2> HIDE DEF here
  <2>2. s[i] \in here
    BY <2>1, BranchLowest
  <2> QED
    BY <2>2 DEF here, At, Claims
<1>2. ASSUME NEW i \in 1..Len(s), NEW j \in 1..Len(s), s[i] = s[j], i < j
      PROVE  FALSE
  <2> DEFINE S == {s[k] : k \in (i + 1)..j}
  <2>1. i + 1 \in (i + 1)..j /\ \A k \in (i + 1)..j : k \in 1..Len(s)
    BY <1>0, <1>2
  <2>2. S \in SUBSET Digest /\ S # {}
    BY <1>0, <2>1
  <2>3. ASSUME NEW k \in (i + 1)..j PROVE content[s[k]].prev \in S
    <3>1. k \in 1..Len(s) /\ k # 1
      BY <1>0, <2>1
    <3>2. content[s[k]].prev = s[k - 1]
      BY <1>1, <3>1 DEF Before
    <3>3. CASE k = i + 1
      <4>1. s[k - 1] = s[j] /\ j \in (i + 1)..j
        BY <1>0, <1>2, <3>3
      <4> QED
        BY <3>2, <4>1
    <3>4. CASE k # i + 1
      <4>1. k - 1 \in (i + 1)..j
        BY <1>0, <3>4
      <4> QED
        BY <3>2, <4>1
    <3> QED
      BY <3>3, <3>4
  <2>4. \A x \in S : content[x].prev \in S
    BY <2>3
  <2> HIDE DEF S
  <2> QED
    BY <2>2, <2>4, HashesAreAcyclic
<1> QED
  BY <1>0, <1>2

\* A walk is no longer than there are blocks.
LEMMA PathIsShort ==
    ASSUME NEW held \in SUBSET Digest, NEW pub, NEW after, NEW s \in Paths(held, pub, after)
    PROVE  Len(s) <= Cardinality(held)
<1>0. s \in [1..Len(s) -> held] /\ Len(s) \in Nat
  BY DEF Paths
<1>1. IsFiniteSet(held)
  BY SetsOfDigests
<1>2. s \in Injection(1..Len(s), held)
  BY <1>0, PathIsSimple DEF Injection, IsInjective
<1>3. Cardinality(1..Len(s)) <= Cardinality(held)
  BY <1>1, <1>2, FS_Injection DEF ExistsInjection
<1>4. Cardinality(1..Len(s)) = Len(s)
  BY <1>0, CountTo
<1> QED
  BY <1>3, <1>4

\* TipOf is where the whole walk from the genesis position ends.
LEMMA TipIsTheEnd ==
    ASSUME NEW held \in SUBSET Digest, NEW pub, NEW s \in Paths(held, pub, NoDigest),
           At(held, pub, End(s, NoDigest)) = {}
    PROVE  TipOf(held, pub) = End(s, NoDigest)
<1> DEFINE n == Cardinality(held)
<1>1. n \in Nat /\ Len(s) <= n
  BY SetsOfDigests, PathIsShort
<1> HIDE DEF n
<1>2. s = Walk(held, pub, NoDigest, n)
  BY <1>1, OnlyWalk
<1> QED
  BY <1>2 DEF TipOf, End, n

\* The blocks up to the tip are held, and are the author's.
LEMMA TipIsHeld ==
    ASSUME NEW held \in SUBSET Digest, NEW pub, TipOf(held, pub) # NoDigest
    PROVE  \E S \in SUBSET held : /\ TipOf(held, pub) \in S
                                  /\ \A x \in S : content[x].prev \in S \cup {NoDigest}
                                  /\ \A x \in S : content[x].pub = pub
<1> DEFINE s == Walk(held, pub, NoDigest, Cardinality(held))
           S == Range(s)
<1>1. s \in Paths(held, pub, NoDigest)
  BY SetsOfDigests, WalkIsPath
<1>2. s # <<>> /\ TipOf(held, pub) = s[Len(s)]
  BY DEF TipOf
<1> HIDE DEF s
<1>3. s \in Seq(held) /\ Len(s) \in Nat /\ Len(s) \in 1..Len(s)
  BY <1>1, <1>2 DEF Paths
<1>4. S = {s[i] : i \in 1..Len(s)}
  BY <1>3 DEF Range
<1>5. ASSUME NEW i \in 1..Len(s)
      PROVE  content[s[i]].prev \in S \cup {NoDigest} /\ content[s[i]].pub = pub
  <2> DEFINE here == At(held, pub, Before(s, i, NoDigest))
  <2>1. here # {} /\ s[i] = branch(here) /\ here \in SUBSET Digest
    BY <1>1 DEF Paths, At
  <2> HIDE DEF here
  <2>2. s[i] \in here
    BY <2>1, BranchLowest
  <2>3. content[s[i]].prev = Before(s, i, NoDigest) /\ content[s[i]].pub = pub
    BY <2>2 DEF here, At, Claims
  <2>4. i = 1 \/ i - 1 \in 1..Len(s)
    BY <1>3
  <2> QED
    BY <1>4, <2>3, <2>4 DEF Before
<1> QED
  <2> HIDE DEF S
  <2>1. S \in SUBSET held /\ TipOf(held, pub) \in S
    BY <1>2, <1>3, <1>4
  <2>2. \A x \in S : content[x].prev \in S \cup {NoDigest} /\ content[x].pub = pub
    BY <1>4, <1>5
  <2> QED
    BY <2>1, <2>2
=============================================================================
