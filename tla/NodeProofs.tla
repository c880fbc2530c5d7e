----------------------------- MODULE NodeProofs -----------------------------
(***************************************************************************)
(* Theorems of Node: a directory is loaded exactly when it is good, and    *)
(* loads what it lists; an answer of the server is attributed to the       *)
(* authors its client is told it rests on; and what the calls that replace *)
(* the subscriptions tell adds up.                                         *)
(*                                                                         *)
(* LoadInv follows Load phase by phase: the chains validated so far are    *)
(* good, what is held and what is still to do make the directory, and the  *)
(* node fails only where some chain cannot be good.  That a chain is good  *)
(* is stated of the walk back from its tip, and LoadIsExact of the blocks  *)
(* of the index alone: MayLoadIfGood shows them to be the same.            *)
(*                                                                         *)
(* ServerInv is what makes a snapshot safe: the subscriptions and the view *)
(* are of the same authors whenever they can be read, and in a snapshot.   *)
(*                                                                         *)
(* ReportInv is what makes reports add up while handlers overlap: the sum  *)
(* of what was told, and of what each handler that has replaced the view   *)
(* has yet to tell, is the difference between the first view and the last. *)
(***************************************************************************)
EXTENDS Node, ViewProofs

\* A sequence of blocks, each published on the one before.
Chained(s) ==
    /\ s \in Seq(Digest)
    /\ s # <<>>
    /\ \A i \in 2..Len(s) : content[s[i]].prev = s[i - 1]

\* No block comes twice in it.
LEMMA ChainIsSimple ==
    ASSUME NEW s, Chained(s)
    PROVE  \A i, j \in 1..Len(s) : s[i] = s[j] => i = j
<1>0. s \in [1..Len(s) -> Digest] /\ Len(s) \in Nat \ {0}
  BY EmptySeq DEF Chained
<1>1. ASSUME NEW i \in 1..Len(s), NEW j \in 1..Len(s), s[i] = s[j], i < j
      PROVE  FALSE
  <2> DEFINE S == {s[k] : k \in (i + 1)..j}
  <2>1. i + 1 \in (i + 1)..j /\ \A k \in (i + 1)..j : k \in 2..Len(s)
    BY <1>0, <1>1
  <2>2. S \in SUBSET Digest /\ S # {}
    BY <1>0, <2>1
  <2>3. ASSUME NEW k \in (i + 1)..j PROVE content[s[k]].prev \in S
    <3>1. content[s[k]].prev = s[k - 1]
      BY <1>0, <2>1 DEF Chained
    <3>2. CASE k = i + 1
      <4>1. s[k - 1] = s[j] /\ j \in (i + 1)..j
        BY <1>0, <1>1, <3>2
      <4> QED
        BY <3>1, <4>1
    <3>3. CASE k # i + 1
      <4>1. k - 1 \in (i + 1)..j
        BY <1>0, <3>3
      <4> QED
        BY <3>1, <4>1
    <3> QED
      BY <3>2, <3>3
  <2>4. \A x \in S : content[x].prev \in S
    BY <2>3
  <2> HIDE DEF S
  <2> QED
    BY <2>2, <2>4, HashesAreAcyclic
<1> QED
  BY <1>0, <1>1

\* If the blocks of a chain are held, it is no longer than the store.
LEMMA ChainIsShort ==
    ASSUME NEW s, Chained(s), NEW H \in SUBSET Digest, Range(s) \subseteq H
    PROVE  Len(s) <= Cardinality(H)
<1>0. s \in [1..Len(s) -> H] /\ Len(s) \in Nat
  <2>1. s \in [1..Len(s) -> Digest] /\ Len(s) \in Nat /\ DOMAIN s = 1..Len(s)
    BY DEF Chained
  <2> QED
    BY <2>1 DEF Range
<1>1. IsFiniteSet(H)
  BY SetsOfDigests
<1>2. s \in Injection(1..Len(s), H)
  BY <1>0, ChainIsSimple DEF Injection, IsInjective
<1>3. Cardinality(1..Len(s)) <= Cardinality(H)
  BY <1>1, <1>2, FS_Injection DEF ExistsInjection
<1>4. Cardinality(1..Len(s)) = Len(s)
  BY <1>0, CountTo
<1> QED
  BY <1>3, <1>4

\* One turn of walk.
Onward(s) == IF Head(s) \notin blocks \/ IsGenesis(Head(s))
             THEN s
             ELSE <<content[Head(s)].prev>> \o s

\* What a turn makes of a chain.
LEMMA OnwardChain ==
    ASSUME blocks \subseteq Digest, NEW s, Chained(s)
    PROVE  /\ Chained(Onward(s))
           /\ Onward(s)[Len(Onward(s))] = s[Len(s)]
           /\ Head(s) \in blocks /\ ~IsGenesis(Head(s)) =>
                 /\ Len(Onward(s)) = Len(s) + 1
                 /\ content[s[1]].prev \in Digest
                 /\ Onward(s) = <<content[s[1]].prev>> \o s
           /\ Head(s) \notin blocks \/ IsGenesis(Head(s)) => Onward(s) = s
<1>0. s \in Seq(Digest) /\ Len(s) \in Nat \ {0} /\ Head(s) = s[1]
  BY EmptySeq, HeadTailProperties DEF Chained
<1>1. CASE Head(s) \notin blocks \/ IsGenesis(Head(s))
  BY <1>1 DEF Onward
<1>2. CASE Head(s) \in blocks /\ ~IsGenesis(Head(s))
  <2> DEFINE p == content[s[1]].prev
             h == <<p>>
             t == h \o s
             n == Len(s)
  <2>1. p \in Digest
    BY <1>0, <1>2, ContentType DEF IsGenesis
  <2>2. h \in Seq(Digest) /\ Len(h) = 1 /\ h[1] = p
    BY <2>1
  <2>3. Onward(s) = t
    BY <1>0, <1>2 DEF Onward
  <2>h. n \in Nat \ {0}
    BY <1>0
  <2> HIDE DEF p, h, n
  <2>4. /\ t \in Seq(Digest) /\ Len(t) = n + 1 /\ t[1] = p
        /\ \A i \in 2..(n + 1) : t[i] = s[i - 1]
    <3>1. t \in Seq(Digest) /\ Len(t) = Len(h) + Len(s)
          /\ \A i \in 1..(Len(h) + Len(s)) : t[i] = IF i <= Len(h) THEN h[i] ELSE s[i - Len(h)]
      BY <1>0, <2>2, ConcatProperties
    <3>2. Len(s) = n
      BY DEF n
    <3>3. Len(t) = n + 1 /\ \A i \in 1..(n + 1) : t[i] = IF i <= 1 THEN h[i] ELSE s[i - 1]
      BY <2>2, <2>h, <3>1, <3>2
    <3> HIDE DEF t
    <3> QED
      BY <2>2, <2>h, <3>1, <3>3
  <2> HIDE DEF t
  <2>5. ASSUME NEW i \in 2..Len(t) PROVE content[t[i]].prev = t[i - 1]
    <3>1. CASE i = 2
      BY <2>4, <2>h, <3>1 DEF p
    <3>2. CASE i # 2
      <4>1. i - 1 \in 2..n /\ i - 1 \in 2..(n + 1) /\ i \in 2..(n + 1) /\ (i - 1) - 1 = i - 2
        BY <2>4, <2>h, <3>2
      <4>2. content[s[i - 1]].prev = s[(i - 1) - 1]
        BY <4>1 DEF Chained, n
      <4>3. t[i] = s[i - 1] /\ t[i - 1] = s[(i - 1) - 1]
        BY <2>4, <4>1
      <4> QED
        BY <4>2, <4>3
    <3> QED
      BY <3>1, <3>2
  <2>6. Chained(t)
    <3>1. t # <<>>
      BY <2>4, <2>h
    <3> QED
      BY <2>4, <2>5, <3>1 DEF Chained
  <2>7. t[Len(t)] = s[n]
    BY <2>4, <2>h
  <2>8. Len(t) = n + 1
    BY <2>4
  <2> QED
    BY <1>2, <2>1, <2>3, <2>6, <2>7, <2>8 DEF t, h, p, n
<1> QED
  BY <1>1, <1>2

\* walk takes as many turns as there are blocks.
LEMMA WalkTurns ==
    ASSUME blocks \subseteq Digest, NEW tip \in Digest
    PROVE  \E B : /\ B[0] = <<tip>>
                  /\ \A n \in Nat : Chained(B[n]) /\ B[n + 1] = Onward(B[n])
                  /\ walk(tip) = B[Cardinality(blocks)]
<1> DEFINE T == {s \in Seq(Digest) : Chained(s)}
           one == <<tip>>
           Shape(f) == [n \in Nat |-> IF n = 0 THEN one ELSE Onward(f[n - 1])]
           Back == CHOOSE f : f = Shape(f)
           step == [s \in T |-> Onward(s)]
<1>1. one \in T
  BY DEF Chained
<1>2. ASSUME NEW s \in T PROVE Onward(s) \in T
  <2>1. Chained(Onward(s))
    BY OnwardChain
  <2> QED
    BY <2>1 DEF Chained
<1>3. step \in [T -> T]
  BY <1>2
<1>4. PICK f \in [Nat -> T] : f[0] = one /\ \A n \in Nat : f[n + 1] = step[f[n]]
  <2> HIDE DEF T, step, one
  <2>1. \E f \in [Nat -> T] : f[0] = one /\ \A n \in Nat : f[n + 1] = step[f[n]]
    BY <1>1, <1>3, RecursionExists
  <2> QED
    BY <2>1
<1>5. f = Shape(f)
  <2>1. f = [n \in Nat |-> f[n]]
    OBVIOUS
  <2>2. ASSUME NEW n \in Nat PROVE f[n] = IF n = 0 THEN one ELSE Onward(f[n - 1])
    <3>1. CASE n = 0
      BY <1>4, <3>1
    <3>2. CASE n # 0
      <4>1. n - 1 \in Nat /\ (n - 1) + 1 = n
        BY <3>2
      <4>2. f[(n - 1) + 1] = step[f[n - 1]] /\ f[n - 1] \in T
        BY <1>4, <4>1
      <4> HIDE DEF T
      <4> QED
        BY <3>2, <4>1, <4>2
    <3> QED
      BY <3>1, <3>2
  <2>3. Shape(f) = [n \in Nat |-> f[n]]
    BY <2>2
  <2> QED
    BY <2>1, <2>3
<1>6. Back = Shape(Back)
  <2> HIDE DEF Shape
  <2> QED
    BY <1>5
<1>7. walk(tip) = Back[Cardinality(blocks)]
  BY DEF walk, Onward
<1> HIDE DEF Back, T, one, step
<1>8. \A n \in Nat : Back[n] = IF n = 0 THEN one ELSE Onward(Back[n - 1])
  BY <1>6
<1> DEFINE R == {n \in Nat : Back[n] = f[n]}
<1>9. R = Nat
  <2>1. 0 \in R
    BY <1>4, <1>8
  <2>2. ASSUME NEW n \in R PROVE n + 1 \in R
    <3>1. n \in Nat /\ n + 1 \in Nat /\ n + 1 # 0 /\ (n + 1) - 1 = n
      OBVIOUS
    <3>2. Back[n + 1] = Onward(Back[n])
      BY <1>8, <3>1
    <3>3. f[n + 1] = Onward(f[n])
      BY <1>4, <3>1 DEF step
    <3> QED
      BY <3>1, <3>2, <3>3
  <2> HIDE DEF R
  <2>3. R \in SUBSET Nat
    BY DEF R
  <2> QED
    BY <2>1, <2>2, <2>3, Induction
<1>10. \A n \in Nat : Chained(f[n]) /\ f[n + 1] = Onward(f[n])
  <2>1. \A n \in Nat : f[n] \in T
    BY <1>4
  <2> QED
    BY <1>4, <2>1 DEF T, step
<1>11. walk(tip) = f[Cardinality(blocks)]
  <2>1. Cardinality(blocks) \in Nat
    BY SetsOfDigests
  <2> QED
    BY <1>7, <1>9, <2>1
<1> QED
  BY <1>4, <1>10, <1>11 DEF one

\* A chain that goes back to a genesis block.
Whole(s) == Chained(s) /\ IsGenesis(s[1])

\* A walk that finds all it looks for is whole.
LEMMA WalkIsWhole ==
    ASSUME blocks \subseteq Digest, NEW tip \in Digest, Range(walk(tip)) \subseteq blocks
    PROVE  Whole(walk(tip)) /\ walk(tip)[Len(walk(tip))] = tip
<1> DEFINE k == Cardinality(blocks)
           w == walk(tip)
<1>1. PICK B : /\ B[0] = <<tip>>
               /\ \A n \in Nat : Chained(B[n]) /\ B[n + 1] = Onward(B[n])
               /\ w = B[k]
  BY WalkTurns
<1>2. k \in Nat
  BY SetsOfDigests
<1> HIDE DEF k, w
<1> DEFINE Stopped(s) == Head(s) \notin blocks \/ IsGenesis(Head(s))
           S == {n \in Nat : /\ B[n][Len(B[n])] = tip
                             /\ Stopped(B[n]) \/ Len(B[n]) = n + 1}
<1>3. 0 \in S
  <2>1. Len(<<tip>>) = 0 + 1 /\ <<tip>>[1] = tip
    OBVIOUS
  <2> QED
    BY <1>1, <2>1
<1>4. ASSUME NEW n \in S PROVE n + 1 \in S
  <2>1. n \in Nat /\ n + 1 \in Nat /\ Chained(B[n]) /\ B[n + 1] = Onward(B[n])
    BY <1>1
  <2>2. B[n][Len(B[n])] = tip /\ (Stopped(B[n]) \/ Len(B[n]) = n + 1)
    OBVIOUS
  <2>3. B[n + 1][Len(B[n + 1])] = tip
    BY <2>1, <2>2, OnwardChain
  <2>4. CASE Stopped(B[n])
    <3>1. B[n + 1] = B[n]
      BY <2>1, <2>4, OnwardChain
    <3> QED
      BY <2>1, <2>3, <2>4, <3>1
  <2>5. CASE ~Stopped(B[n])
    <3>1. Len(B[n + 1]) = Len(B[n]) + 1
      BY <2>1, <2>5, OnwardChain
    <3> QED
      BY <2>1, <2>2, <2>3, <2>5, <3>1
  <2> QED
    BY <2>4, <2>5
<1> HIDE DEF S
<1>5. S = Nat
  <2>1. S \in SUBSET Nat
    BY DEF S
  <2> QED
    BY <1>3, <1>4, <2>1, Induction
<1>6. Chained(w) /\ w[Len(w)] = tip /\ (Stopped(w) \/ Len(w) = k + 1)
  BY <1>1, <1>2, <1>5 DEF S
<1>7. Len(w) <= k
  BY <1>6, ChainIsShort DEF w, k
<1>8. Head(w) = w[1] /\ w[1] \in blocks
  <2>1. w \in Seq(Digest) /\ w # <<>>
    BY <1>6 DEF Chained
  <2>2. 1 \in DOMAIN w /\ Head(w) = w[1]
    BY <2>1, EmptySeq
  <2> QED
    BY <2>2 DEF w, Range
<1>9. Len(w) \in Nat
  BY <1>6 DEF Chained
<1> QED
  BY <1>2, <1>6, <1>7, <1>8, <1>9 DEF Whole, w

\* Of a whole chain that is held, walk finds all.
LEMMA WholeIsWalked ==
    ASSUME blocks \subseteq Digest, NEW s, Whole(s), Range(s) \subseteq blocks
    PROVE  walk(s[Len(s)]) = s
<1> DEFINE k == Cardinality(blocks)
           L == Len(s)
           tip == s[L]
           From(n) == IF n < L THEN L - n ELSE 1
<1>0. s \in Seq(Digest) /\ L \in Nat \ {0} /\ DOMAIN s = 1..L
  BY EmptySeq DEF Whole, Chained
<1>1. tip \in Digest /\ \A i \in 1..L : s[i] \in blocks
  BY <1>0 DEF Range
<1>2. PICK B : /\ B[0] = <<tip>>
               /\ \A n \in Nat : Chained(B[n]) /\ B[n + 1] = Onward(B[n])
               /\ walk(tip) = B[k]
  BY <1>1, WalkTurns
<1>3. k \in Nat /\ L <= k
  BY SetsOfDigests, ChainIsShort DEF Whole
<1>4. \A i \in 2..L : content[s[i]].prev = s[i - 1]
  BY DEF Whole, Chained
<1>g. IsGenesis(s[1])
  BY DEF Whole
<1> HIDE DEF k, L
<1> DEFINE S == {n \in Nat : B[n] = SubSeq(s, From(n), L)}
<1>5. 0 \in S
  <2>1. SubSeq(s, L, L) = <<s[L]>>
    <3> DEFINE t == SubSeq(s, L, L)
    <3>1. t \in Seq(Digest) /\ Len(t) = 1 /\ t[1] = s[L]
      BY <1>0
    <3> HIDE DEF t
    <3>2. t = <<s[L]>>
      BY <1>1, <3>1
    <3> QED
      BY <3>2 DEF t
  <2>2. From(0) = L
    BY <1>0
  <2>3. B[0] = SubSeq(s, From(0), L)
    BY <1>2, <2>1, <2>2
  <2> HIDE DEF From
  <2> QED
    BY <2>3
<1>6. ASSUME NEW n \in S PROVE n + 1 \in S
  <2>0. n \in Nat /\ n + 1 \in Nat /\ From(n) \in 1..L
    BY <1>0
  <2> DEFINE m == From(n)
  <2>1. Chained(B[n]) /\ B[n + 1] = Onward(B[n]) /\ B[n] = SubSeq(s, m, L)
    BY <1>2
  <2>2. Head(B[n]) = s[m] /\ B[n][1] = s[m] /\ s[m] \in blocks
    <3>1. SubSeq(s, m, L)[1] = s[m]
      BY <1>0, <2>0
    <3>2. Head(B[n]) = B[n][1]
      BY <2>1, HeadTailProperties DEF Chained
    <3> QED
      BY <1>1, <2>0, <2>1, <3>1, <3>2
  <2>3. CASE m = 1
    <3>1. B[n + 1] = B[n]
      BY <1>g, <2>1, <2>2, <2>3, OnwardChain
    <3>2. From(n + 1) = m
      BY <1>0, <2>0, <2>3
    <3> QED
      BY <2>0, <2>1, <3>1, <3>2
  <2>4. CASE m # 1
    <3>1. m \in 2..L /\ From(n + 1) = m - 1
      BY <1>0, <2>0, <2>4
    <3>2. content[s[m]].prev = s[m - 1]
      BY <1>4, <3>1
    <3>3. s[m - 1] \in Digest /\ ~IsGenesis(s[m])
      BY <1>0, <1>1, <3>1, <3>2, NullsAssumption DEF IsGenesis
    <3>4. B[n + 1] = <<s[m - 1]>> \o SubSeq(s, m, L)
      BY <2>1, <2>2, <3>2, <3>3, OnwardChain
    <3>5. SubSeq(s, m - 1, L) = <<s[m - 1]>> \o SubSeq(s, m, L)
      <4> DEFINE q == m - 1
      <4>1. q \in 1..Len(s) /\ L \in q..Len(s)
        BY <1>0, <3>1 DEF L
      <4>2. q + 1 = m
        BY <3>1
      <4> HIDE DEF m, q
      <4>3. SubSeq(s, q, L) = <<s[q]>> \o SubSeq(s, q + 1, L)
        BY <1>0, <4>1, SubSeqRecursiveFirst
      <4> QED
        BY <4>2, <4>3 DEF q
    <3> QED
      BY <2>0, <3>1, <3>4, <3>5
  <2> QED
    BY <2>3, <2>4
<1> HIDE DEF S
<1>7. S = Nat
  <2>1. S \in SUBSET Nat
    BY DEF S
  <2> QED
    BY <1>5, <1>6, <2>1, Induction
<1>8. B[k] = SubSeq(s, 1, L)
  <2>1. From(k) = 1
    BY <1>0, <1>3
  <2> QED
    BY <1>3, <1>7, <2>1 DEF S
<1>9. SubSeq(s, 1, L) = s
  BY <1>0, SubSeqFull DEF L
<1> QED
  BY <1>2, <1>8, <1>9 DEF L
-----------------------------------------------------------------------------
\* The members of sequences put together are those of each.
LEMMA FlattenedRange ==
    ASSUME NEW T, NEW seqs \in Seq(Seq(T))
    PROVE  /\ Sequence!FlattenSeq(seqs) \in Seq(T)
           /\ Range(Sequence!FlattenSeq(seqs)) = UNION {Range(seqs[i]) : i \in DOMAIN seqs}
<1> DEFINE n == Len(seqs)
<1>0. n \in Nat /\ DOMAIN seqs = 1..n /\ \A i \in 1..n : seqs[i] \in Seq(T)
  OBVIOUS
<1>1. CASE n = 0
  <2>1. Sequence!FlattenSeq(seqs) = seqs
    BY <1>1 DEF Sequence!FlattenSeq
  <2>2. seqs = <<>> /\ DOMAIN seqs = {} /\ Range(<<>>) = {}
    BY <1>0, <1>1, EmptySeq DEF Range
  <2> QED
    BY <2>1, <2>2, EmptySeq
<1>2. CASE n # 0
  <2> DEFINE Shape(h) == [i \in 1..n |-> IF i = 1 THEN seqs[i] ELSE h[i - 1] \o seqs[i]]
             flatten == CHOOSE h : h = Shape(h)
             k == n - 1
             step == [j \in 1..k |-> [t \in Seq(T) |-> t \o seqs[j + 1]]]
             first == seqs[1]
  <2>1. Sequence!FlattenSeq(seqs) = flatten[n]
    BY <1>2 DEF Sequence!FlattenSeq
  <2>2. k \in Nat /\ first \in Seq(T) /\ \A j \in 1..k : j + 1 \in 1..n
    BY <1>0, <1>2
  <2>3. step \in Turns(k, Seq(T))
    <3>1. \A j \in 1..k : [t \in Seq(T) |-> t \o seqs[j + 1]] \in [Seq(T) -> Seq(T)]
      <4> SUFFICES ASSUME NEW j \in 1..k, NEW t \in Seq(T) PROVE t \o seqs[j + 1] \in Seq(T)
        OBVIOUS
      <4>1. seqs[j + 1] \in Seq(T)
        BY <1>0, <2>2
      <4> QED
        BY <4>1, ConcatProperties
    <3> QED
      BY <3>1 DEF Turns
  <2> HIDE DEF n
  <2>4. PICK f \in [0..k -> Seq(T)] : f[0] = first /\ \A j \in 1..k : f[j] = step[j][f[j - 1]]
    <3> DEFINE U == Seq(T)
    <3>1. k \in Nat /\ first \in U /\ step \in Turns(k, U)
      BY <2>2, <2>3
    <3> HIDE DEF step, first, k, U
    <3>2. \E f \in [0..k -> U] : f[0] = first /\ \A j \in 1..k : f[j] = step[j][f[j - 1]]
      BY <3>1, RecursionTo
    <3> QED
      BY <3>2 DEF U
  <2> DEFINE h == [i \in 1..n |-> f[i - 1]]
  <2>5. h = Shape(h)
    <3>1. ASSUME NEW i \in 1..n
          PROVE  f[i - 1] = IF i = 1 THEN seqs[i] ELSE h[i - 1] \o seqs[i]
      <4>1. CASE i = 1
        BY <2>4, <4>1
      <4>2. CASE i # 1
        <5>1. i - 1 \in 1..k /\ i - 1 \in 1..n /\ (i - 1) + 1 = i /\ (i - 1) - 1 \in 0..k
          BY <1>0, <4>2
        <5>2. f[i - 1] = f[(i - 1) - 1] \o seqs[(i - 1) + 1]
          BY <2>4, <5>1
        <5>3. h[i - 1] = f[(i - 1) - 1]
          BY <5>1
        <5> QED
          BY <4>2, <5>1, <5>2, <5>3
      <4> QED
        BY <4>1, <4>2
    <3> HIDE DEF h
    <3>2. Shape(h) = [i \in 1..n |-> f[i - 1]]
      BY <3>1
    <3> QED
      BY <3>2 DEF h
  <2>6. flatten = Shape(flatten)
    <3> HIDE DEF Shape, h
    <3> QED
      BY <2>5
  <2> HIDE DEF flatten
  <2>7. \A i \in 1..n : flatten[i] = IF i = 1 THEN seqs[i] ELSE flatten[i - 1] \o seqs[i]
    BY <2>6
  <2> DEFINE Upto(i) == UNION {Range(seqs[j]) : j \in 1..i}
             Good(i) == flatten[i] \in Seq(T) /\ Range(flatten[i]) = Upto(i)
             S == {m \in 0..k : Good(m + 1)}
  <2>8. 0 \in S
    <3>1. flatten[1] = seqs[1] /\ 1 \in 1..n
      BY <1>0, <1>2, <2>7
    <3>2. Upto(1) = Range(seqs[1])
      OBVIOUS
    <3>3. 0 \in 0..k /\ 0 + 1 = 1 /\ seqs[1] \in Seq(T)
      BY <2>2
    <3> QED
      BY <3>1, <3>2, <3>3
  <2>9. ASSUME NEW m \in 1..k, m - 1 \in S PROVE m \in S
    <3>1. (m - 1) + 1 = m /\ m \in 0..k /\ m + 1 \in 1..n /\ (m + 1) - 1 = m /\ m + 1 # 1
      BY <1>0, <2>2
    <3>2. Good(m)
      BY <2>9, <3>1
    <3>3. flatten[m + 1] = flatten[m] \o seqs[m + 1]
      BY <2>7, <3>1
    <3>4. flatten[m] \in Seq(T) /\ Range(flatten[m]) = Upto(m)
      BY <3>2
    <3>5. seqs[m + 1] \in Seq(T)
      BY <1>0, <3>1
    <3>6. Range(flatten[m + 1]) = Range(flatten[m]) \cup Range(seqs[m + 1])
      BY <3>3, <3>4, <3>5, RangeConcatenation
    <3>7. flatten[m + 1] \in Seq(T)
      BY <3>3, <3>4, <3>5, ConcatProperties
    <3>8. Upto(m + 1) = Upto(m) \cup Range(seqs[m + 1])
      <4>1. 1..(m + 1) = (1..m) \cup {m + 1}
        BY <3>1
      <4> QED
        BY <4>1
    <3> QED
      BY <3>1, <3>4, <3>6, <3>7, <3>8
  <2>10. k \in S
    <3> HIDE DEF S, k
    <3>1. 0..k \subseteq S
      BY <2>2, <2>8, <2>9, InductionTo
    <3> QED
      BY <2>2, <3>1
  <2>11. Good(n)
    <3>1. k + 1 = n
      BY <1>0
    <3> QED
      BY <2>10, <3>1
  <2> QED
    BY <1>0, <2>1, <2>11
<1> QED
  BY <1>1, <1>2
-----------------------------------------------------------------------------
\* The blocks of the directory, and those of its i-th chain.
Held == {b.digest : b \in Listed(dir)}
ChainOf(i) == Digests(dir.index[i])

\* A block that a node of the directory may hold, with every key at hand that
\* its store has.
GoodBlock(d) ==
    /\ content[d].type # "private" /\ InTime(d)
    /\ Range(Refs(d)) \subseteq Held
    /\ PrevSound(d) /\ RefsSound(d, Held) /\ OperationsSound(d, Held, Keyed)
    /\ \A x \in Held : ~IsFork(d, x)

GoodChain(i) == Whole(ChainOf(i)) /\ \A d \in Range(ChainOf(i)) : GoodBlock(d)
GoodDirectory == Reads(dir) /\ \A i \in DOMAIN dir.index : GoodChain(i)

\* What Load asks of a chain once every block is stored.
Passes(i) ==
    LET s == ChainOf(i) IN
    /\ s # <<>>
    /\ ValidateChain(s[Len(s)], Validated)
    /\ checkChain(dir.index[i], walk(s[Len(s)]))

\* The blocks of a chain that was read are blocks of the directory.
LEMMA ChainParts ==
    ASSUME dir \in Directories, Reads(dir)
    PROVE  /\ Len(dir.index) \in Nat /\ DOMAIN dir.index = 1..Len(dir.index)
           /\ \A i \in DOMAIN dir.index :
                 /\ dir.index[i].pub \in Author
                 /\ ChainOf(i) \in Seq(Digest)
                 /\ DOMAIN ChainOf(i) = DOMAIN dir.index[i].blocks
                 /\ \A j \in DOMAIN ChainOf(i) :
                       /\ dir.index[i].blocks[j] \in Range(dir.index[i].blocks)
                       /\ ChainOf(i)[j] = dir.index[i].blocks[j].digest
           /\ Held = UNION {Range(ChainOf(i)) : i \in DOMAIN dir.index}
           /\ Held \in SUBSET Digest
<1>1. /\ dir.index \in Seq(Range(dir.index))
      /\ \A chain \in Range(dir.index) : chain.blocks \in Seq(BlockEntry)
  BY NodeAssumption
<1>2. Len(dir.index) \in Nat /\ DOMAIN dir.index = 1..Len(dir.index)
  BY <1>1
<1>3. ASSUME NEW i \in DOMAIN dir.index
      PROVE  /\ dir.index[i].pub \in Author
             /\ ChainOf(i) \in Seq(Digest)
             /\ DOMAIN ChainOf(i) = DOMAIN dir.index[i].blocks
             /\ \A j \in DOMAIN ChainOf(i) :
                   /\ dir.index[i].blocks[j] \in Range(dir.index[i].blocks)
                   /\ ChainOf(i)[j] = dir.index[i].blocks[j].digest
             /\ Range(ChainOf(i)) = {b.digest : b \in Range(dir.index[i].blocks)}
  <2> DEFINE c == dir.index[i]
             s == [j \in DOMAIN c.blocks |-> c.blocks[j].digest]
  <2>1. c \in Range(dir.index)
    BY DEF Range
  <2>2. c.pub \in Author /\ c.blocks \in Seq(BlockEntry)
        /\ \A b \in Range(c.blocks) : b.digest \in Digest
    <3>1. ReadsChain(dir, c)
      BY DEF Reads
    <3>2. c.pub \in Author /\ \A j \in DOMAIN c.blocks : c.blocks[j].digest \in Digest
      BY <3>1 DEF ReadsChain, EntryAgrees
    <3> QED
      BY <1>1, <2>1, <3>2 DEF Range
  <2>3. ChainOf(i) = s
    BY DEF ChainOf, Digests
  <2> HIDE DEF c
  <2>4. Len(c.blocks) \in Nat /\ DOMAIN c.blocks = 1..Len(c.blocks)
        /\ \A j \in DOMAIN c.blocks : c.blocks[j] \in Range(c.blocks)
    BY <2>2 DEF Range
  <2>5. DOMAIN s = DOMAIN c.blocks /\ \A j \in DOMAIN s : s[j] = c.blocks[j].digest
    OBVIOUS
  <2>6. s \in [1..Len(c.blocks) -> Digest]
    BY <2>2, <2>4
  <2>7. s \in Seq(Digest)
    BY <2>4, <2>6
  <2>8. Range(s) = {b.digest : b \in Range(c.blocks)}
    BY <2>5 DEF Range
  <2> HIDE DEF s
  <2> QED
    BY <2>2, <2>3, <2>4, <2>5, <2>7, <2>8 DEF c
<1>4. Held = UNION {Range(ChainOf(i)) : i \in DOMAIN dir.index}
  <2>1. Held = UNION {{b.digest : b \in Range(dir.index[i].blocks)} : i \in DOMAIN dir.index}
    BY DEF Held, Listed
  <2> QED
    BY <1>3, <2>1
<1>5. Held \in SUBSET Digest
  <2>1. \A i \in DOMAIN dir.index : Range(ChainOf(i)) \in SUBSET Digest
    BY <1>3, RangeOfSeq
  <2> QED
    BY <1>4, <2>1
<1> QED
  BY <1>2, <1>3, <1>4, <1>5

\* With every block stored, a chain passes exactly when it is good.
LEMMA PassesIfGood ==
    ASSUME MemTypeOK, IndexesAgree, dir \in Directories, Reads(dir), blocks = Held,
           NEW i \in DOMAIN dir.index
    PROVE  /\ Passes(i) <=> GoodChain(i)
           /\ Passes(i) => walk(ChainOf(i)[Len(ChainOf(i))]) = ChainOf(i)
<1> DEFINE s == ChainOf(i)
           tip == s[Len(s)]
<1>0. s \in Seq(Digest) /\ Range(s) \subseteq blocks /\ blocks \in SUBSET Digest
      /\ DOMAIN s = 1..Len(s) /\ Len(s) \in Nat
  <2>1. s \in Seq(Digest) /\ Range(s) \subseteq Held
    BY ChainParts
  <2> QED
    BY <2>1 DEF MemTypeOK
<1>1. \A d \in Range(s) : content[d].pub = dir.index[i].pub
  <2>1. ReadsChain(dir, dir.index[i])
    BY DEF Reads
  <2>2. \A b \in Range(dir.index[i].blocks) : content[b.digest].pub = dir.index[i].pub
    BY <2>1 DEF ReadsChain, EntryAgrees, Range
  <2>3. \A j \in DOMAIN s : \E b \in Range(dir.index[i].blocks) : s[j] = b.digest
    BY ChainParts
  <2> QED
    BY <2>2, <2>3 DEF Range
<1> HIDE DEF s
<1>2. ASSUME NEW d \in Range(s)
      PROVE  Len(BlocksWithPrev(content[d].pub, content[d].prev)) = 1
                <=> \A x \in Held : ~IsFork(d, x)
  <2> DEFINE p == position[SlotOf(d)]
  <2>1. d \in Digest /\ d \in blocks
    BY <1>0
  <2>2. SlotOf(d) \in Slot
    BY <2>1, ContentType DEF SlotOf, Slot
  <2>3. p \in Seq(Digest) /\ Range(p) = {x \in blocks : SlotOf(x) = SlotOf(d)} /\ Unique(p)
    BY <2>2 DEF MemTypeOK, IndexesAgree
  <2>4. p = BlocksWithPrev(content[d].pub, content[d].prev)
    BY DEF BlocksWithPrev, SlotOf
  <2> HIDE DEF p
  <2>5. \A x \in Held : x \in Range(p) /\ x # d <=> IsFork(d, x)
    BY <2>3 DEF SlotOf, IsFork, SameAuthor
  <2>6. d \in Range(p)
    BY <2>1, <2>3
  <2>7. Len(p) \in Nat /\ DOMAIN p = 1..Len(p)
    BY <2>3
  <2>8. Len(p) = 1 <=> \A x \in Range(p) : x = d
    <3>1. ASSUME Len(p) = 1, NEW x \in Range(p) PROVE x = d
      <4>1. \A y \in Range(p) : y = p[1]
        BY <2>7, <3>1 DEF Range
      <4> QED
        BY <2>6, <4>1
    <3>2. ASSUME \A x \in Range(p) : x = d PROVE Len(p) = 1
      <4>1. \A j \in 1..Len(p) : p[j] = d
        BY <2>7, <3>2 DEF Range
      <4>2. 1 \in 1..Len(p)
        BY <2>6, <2>7 DEF Range
      <4>3. \A j \in 1..Len(p) : j = 1
        BY <2>3, <2>7, <4>1, <4>2 DEF Unique
      <4> QED
        BY <2>7, <4>2, <4>3
    <3> QED
      BY <3>1, <3>2
  <2>9. Range(p) \subseteq Held
    BY <2>3
  <2> QED
    BY <2>4, <2>5, <2>8, <2>9
<1>3. ASSUME NEW d \in Range(s), content[d].prev \in blocks \cup {NoDigest}
      PROVE  GoodBlock(d) <=> d \in Validated /\ Clean(d)
  <2>1. d \in blocks
    BY <1>0
  <2>2. GoodBlock(d) <=>
          /\ content[d].type # "private" /\ InTime(d) /\ Range(Refs(d)) \subseteq blocks
          /\ PrevSound(d) /\ RefsSound(d, blocks) /\ OperationsSound(d, blocks, Keyed)
          /\ \A x \in Held : ~IsFork(d, x)
    BY DEF GoodBlock
  <2>3. d \in Validated <=>
          /\ PrevSound(d)
          /\ content[d].type # "private" =>
                RefsSound(d, blocks) /\ OperationsSound(d, blocks, Keyed)
    BY <1>3, <2>1 DEF Validated, Validates
  <2>4. Clean(d) <=>
          /\ content[d].type # "private" /\ InTime(d) /\ Range(Refs(d)) \subseteq blocks
          /\ \A x \in Held : ~IsFork(d, x)
    BY <1>2 DEF Clean
  <2> QED
    BY <2>2, <2>3, <2>4, Zenon
<1>4. Passes(i) <=> s # <<>> /\ ValidateChain(tip, Validated) /\ checkChain(dir.index[i], walk(tip))
  BY DEF Passes, s
<1>5. ASSUME Passes(i) PROVE GoodChain(i) /\ walk(tip) = s
  <2>1. s # <<>> /\ Range(walk(tip)) \subseteq blocks \cap Validated
        /\ checkChain(dir.index[i], walk(tip))
    BY <1>4, <1>5 DEF ValidateChain
  <2>2. walk(tip) = s /\ \A d \in Range(s) : Clean(d)
    BY <2>1 DEF checkChain, s, ChainOf
  <2>3. tip \in Digest
    BY <1>0, <2>1, EmptySeq
  <2>4. Whole(s)
    BY <1>0, <2>1, <2>2, <2>3, WalkIsWhole
  <2>5. \A d \in Range(s) : GoodBlock(d)
    <3>1. \A d \in Range(s) : d \in Validated /\ content[d].prev \in blocks \cup {NoDigest}
      BY <2>1, <2>2 DEF Validated, Validates
    <3> QED
      BY <1>3, <2>2, <3>1
  <2> QED
    BY <2>2, <2>4, <2>5 DEF GoodChain, s
<1>6. ASSUME GoodChain(i) PROVE Passes(i)
  <2>1. Whole(s) /\ \A d \in Range(s) : GoodBlock(d)
    BY <1>6 DEF GoodChain, s
  <2>2. walk(tip) = s
    BY <1>0, <2>1, WholeIsWalked
  <2>3. s # <<>> /\ Len(s) # 0
    BY <1>0, <2>1, EmptySeq DEF Whole, Chained
  <2>4. ASSUME NEW d \in Range(s) PROVE content[d].prev \in blocks \cup {NoDigest}
    <3>1. PICK j \in 1..Len(s) : d = s[j]
      BY <1>0 DEF Range
    <3>2. CASE j = 1
      BY <2>1, <3>1, <3>2 DEF Whole, IsGenesis
    <3>3. CASE j # 1
      <4>1. j \in 2..Len(s) /\ j - 1 \in 1..Len(s)
        BY <1>0, <3>3
      <4>2. content[d].prev = s[j - 1]
        BY <2>1, <3>1, <4>1 DEF Whole, Chained
      <4> QED
        BY <1>0, <4>1, <4>2 DEF Range
    <3> QED
      BY <3>2, <3>3
  <2>5. \A d \in Range(s) : d \in Validated /\ Clean(d)
    BY <1>3, <2>1, <2>4
  <2>6. Head(s) \in Range(s)
    BY <1>0, <2>3, RangeHeadTail
  <2>7. checkChain(dir.index[i], s)
    BY <1>1, <2>5, <2>6 DEF checkChain, s, ChainOf
  <2>8. ValidateChain(tip, Validated)
    BY <1>0, <2>2, <2>5 DEF ValidateChain
  <2> QED
    BY <1>4, <2>2, <2>3, <2>7, <2>8
<1> QED
  BY <1>5, <1>6 DEF s

\* Where no block is private, no key makes a difference.
LEMMA KeysMatterNot ==
    ASSUME NEW H, \A x \in H : content[x].type # "private", NEW d
    PROVE  OperationsSound(d, H, Keyed) <=> OperationsSound(d, H, {})
<1> DEFINE plain == [S \in SUBSET Digest |-> S \cup UNION {Range(content[y].refs) : y \in S \cap H}]
           step(open) == [S \in SUBSET Digest |->
                             S \cup UNION {Range(content[y].refs) :
                                             y \in {x \in S \cap H : Legible(x, open)}}]
<1>1. \A open : \A x \in H : Legible(x, open)
  BY DEF Legible
<1>2. ASSUME NEW open PROVE step(open) = plain
  <2>1. \A S : {x \in S \cap H : Legible(x, open)} = S \cap H
    BY <1>1
  <2> QED
    BY <2>1
<1>3. ASSUME NEW open PROVE Foreign(d, H, open) = Closure(Range(Refs(d)), plain)
  BY <1>2, Zenon DEF Foreign
<1> HIDE DEF plain
<1>4. ASSUME NEW open
      PROVE  Sources(d, H, open) = H \cap (Ancestors(d, H) \cup Closure(Range(Refs(d)), plain))
  BY <1>1, <1>3 DEF Sources
<1>5. Sources(d, H, Keyed) = Sources(d, H, {})
  BY <1>4
<1> QED
  BY <1>5, Zenon DEF OperationsSound

\* What LoadIsExact says of a directory.
MayLoad ==
    /\ Described(dir)
    /\ \A i \in DOMAIN dir.index :
          /\ ChainOf(i) # <<>>
          /\ \A j \in DOMAIN ChainOf(i) :
                content[ChainOf(i)[j]].prev = IF j = 1 THEN NoDigest ELSE ChainOf(i)[j - 1]
    /\ \A a, b \in Held : ~IsFork(a, b)
    /\ \A d \in Held : /\ content[d].type # "private" /\ InTime(d)
                       /\ Range(Refs(d)) \subseteq Held
                       /\ PrevSound(d) /\ RefsSound(d, Held)
                       /\ OperationsSound(d, Held, {})

\* An index is read exactly when Build writes its entries and it names keys, as
\* it does where no chain is empty.
LEMMA DescribedIsRead ==
    ASSUME dir \in Directories
    PROVE  /\ Reads(dir) => Described(dir)
           /\ Described(dir) /\ (\A i \in DOMAIN dir.index : ChainOf(i) # <<>>) => Reads(dir)
<1> DEFINE c(i) == dir.index[i]
<1>1. ASSUME NEW i \in DOMAIN dir.index
      PROVE  c(i).blocks \in Seq(BlockEntry) /\ c(i).pub \in Author \cup {NoAuthor}
  BY NodeAssumption DEF Range
<1>2. \A f \in DOMAIN dir.files : dir.files[f] \in Digest \cup {NoDigest}
  BY NodeAssumption
<1>3. ASSUME NEW i \in DOMAIN dir.index, NEW j \in DOMAIN c(i).blocks
      PROVE  /\ c(i).blocks[j] \in BlockEntry
             /\ (c(i).blocks[j].index = j - 1 /\ EntryAgrees(dir, c(i).pub, c(i).blocks[j]))
                  <=> \E f \in DOMAIN dir.files :
                         /\ dir.files[f] # NoDigest /\ content[dir.files[f]].pub = c(i).pub
                         /\ c(i).blocks[j] = BuildEntry(dir.files[f], j, f)
  <2> DEFINE b == c(i).blocks[j]
  <2>1. b \in BlockEntry
    BY <1>1
  <2> HIDE DEF b, c
  <2>2. ASSUME b.index = j - 1, EntryAgrees(dir, c(i).pub, b)
        PROVE  \E f \in DOMAIN dir.files :
                  /\ dir.files[f] # NoDigest /\ content[dir.files[f]].pub = c(i).pub
                  /\ b = BuildEntry(dir.files[f], j, f)
    <3>1. /\ b.digest \in Digest /\ b.file \in DOMAIN dir.files /\ dir.files[b.file] = b.digest
          /\ b.size = size[b.digest] /\ content[b.digest].pub = c(i).pub
          /\ b.ops = PlainOps(b.digest)
      BY <2>2 DEF EntryAgrees
    <3>2. b = BuildEntry(b.digest, j, b.file)
      BY <2>1, <2>2, <3>1 DEF BuildEntry, BlockEntry
    <3>3. b.digest # NoDigest
      BY <3>1, NullsAssumption
    <3> QED
      BY <3>1, <3>2, <3>3
  <2>3. ASSUME NEW f \in DOMAIN dir.files, dir.files[f] # NoDigest,
               content[dir.files[f]].pub = c(i).pub, b = BuildEntry(dir.files[f], j, f)
        PROVE  b.index = j - 1 /\ EntryAgrees(dir, c(i).pub, b)
    <3>1. /\ b.digest = dir.files[f] /\ b.file = f /\ b.size = size[dir.files[f]]
          /\ b.ops = PlainOps(dir.files[f]) /\ b.index = j - 1
      BY <2>3 DEF BuildEntry
    <3>2. b.digest \in Digest
      BY <1>2, <2>3, <3>1
    <3> QED
      BY <2>3, <3>1, <3>2 DEF EntryAgrees
  <2> QED
    BY <2>1, <2>2, <2>3 DEF b
<1>4. Complete(dir) <=> \A f \in DOMAIN dir.files : \E b \in Listed(dir) : b.file = f
  BY DEF Complete
<1>5. Reads(dir) <=> Described(dir) /\ \A i \in DOMAIN dir.index : c(i).pub \in Author
  BY <1>3, <1>4 DEF Reads, ReadsChain, Described
<1>6. ASSUME Described(dir), NEW i \in DOMAIN dir.index, ChainOf(i) # <<>>
      PROVE  c(i).pub \in Author
  <2>1. c(i).blocks # <<>>
    BY <1>6 DEF ChainOf, Digests
  <2>2. 1 \in DOMAIN c(i).blocks
    <3> DEFINE s == c(i).blocks
    <3>1. s \in Seq(BlockEntry) /\ s # <<>>
      BY <1>1, <2>1
    <3> HIDE DEF s
    <3>2. Len(s) # 0
      BY <3>1, EmptySeq
    <3>3. 1 \in DOMAIN s
      BY <3>1, <3>2
    <3> QED
      BY <3>3 DEF s
  <2>3. PICK f \in DOMAIN dir.files : dir.files[f] # NoDigest /\ content[dir.files[f]].pub = c(i).pub
    BY <1>6, <2>2 DEF Described
  <2>4. dir.files[f] \in Digest
    BY <1>2, <2>3
  <2> QED
    BY <2>3, <2>4, ContentType
<1> QED
  BY <1>5, <1>6

\* It is to be a directory of good chains.
LEMMA MayLoadIfGood ==
    ASSUME dir \in Directories
    PROVE  MayLoad <=> GoodDirectory
<1> SUFFICES ASSUME Reads(dir) PROVE MayLoad <=> GoodDirectory
  BY DescribedIsRead DEF MayLoad, GoodDirectory
<1>0. Described(dir)
  BY DescribedIsRead DEF Reads, ReadsChain
<1>1. Held = UNION {Range(ChainOf(i)) : i \in DOMAIN dir.index} /\ Held \in SUBSET Digest
  BY ChainParts
<1>2. ASSUME NEW i \in DOMAIN dir.index
      PROVE  Whole(ChainOf(i)) <=>
                /\ ChainOf(i) # <<>>
                /\ \A j \in DOMAIN ChainOf(i) :
                      content[ChainOf(i)[j]].prev = IF j = 1 THEN NoDigest ELSE ChainOf(i)[j - 1]
  <2> DEFINE s == ChainOf(i)
  <2>1. s \in Seq(Digest)
    BY ChainParts
  <2> HIDE DEF s
  <2>2. Len(s) \in Nat /\ DOMAIN s = 1..Len(s) /\ (s # <<>> => Len(s) # 0)
    BY <2>1, EmptySeq
  <2>3. s # <<>> => 1 \in DOMAIN s /\ \A j \in DOMAIN s : j = 1 \/ j \in 2..Len(s)
    BY <2>2
  <2>4. \A j \in 2..Len(s) : j # 1 /\ j \in DOMAIN s
    BY <2>2
  <2>5. Whole(s) <=> s # <<>> /\ \A j \in DOMAIN s :
                         content[s[j]].prev = IF j = 1 THEN NoDigest ELSE s[j - 1]
    BY <2>1, <2>3, <2>4 DEF Whole, Chained, IsGenesis
  <2> QED
    BY <2>5 DEF s
<1>3. (\A d \in Held : content[d].type # "private") =>
         \A d : OperationsSound(d, Held, Keyed) <=> OperationsSound(d, Held, {})
  BY KeysMatterNot
<1>4. (\A d \in Held : GoodBlock(d)) <=>
         /\ \A a, b \in Held : ~IsFork(a, b)
         /\ \A d \in Held : /\ content[d].type # "private" /\ InTime(d)
                            /\ Range(Refs(d)) \subseteq Held
                            /\ PrevSound(d) /\ RefsSound(d, Held)
                            /\ OperationsSound(d, Held, {})
  BY <1>3 DEF GoodBlock
<1>5. (\A d \in Held : GoodBlock(d)) <=>
         \A i \in DOMAIN dir.index : \A d \in Range(ChainOf(i)) : GoodBlock(d)
  BY <1>1
<1> QED
  BY <1>0, <1>2, <1>4, <1>5 DEF MayLoad, GoodDirectory, GoodChain

-----------------------------------------------------------------------------
\* What Load has established at each phase.
LoadInv ==
    /\ MemTypeOK /\ IndexesAgree /\ GraphInv
    /\ dir \in Directories /\ load \in Load
    /\ \A d \in DOMAIN payloads : payloads[d] = NoPayload
    /\ load.phase = "read" => blocks = {} /\ DOMAIN payloads = {}
    /\ load.phase \notin {"read", "failed"} => Reads(dir)
    /\ load.phase = "store" => blocks \cup Range(load.todo) = Held /\ DOMAIN payloads = {}
    /\ load.phase \in {"validate", "ingest", "serving"} => blocks = Held
    /\ load.phase = "validate" =>
          /\ load.chain \in 1..(Len(dir.index) + 1)
          /\ \A i \in 1..(load.chain - 1) : GoodChain(i)
          /\ DOMAIN payloads = UNION {Range(ChainOf(i)) : i \in 1..(load.chain - 1)}
    /\ load.phase = "ingest" =>
          /\ load.chain \in 1..Len(dir.index)
          /\ \A i \in 1..load.chain : GoodChain(i)
          /\ DOMAIN payloads \cup Range(load.todo) = UNION {Range(ChainOf(i)) : i \in 1..load.chain}
    /\ load.phase = "serving" => GoodDirectory /\ DOMAIN payloads = Held
    /\ load.phase = "failed" => ~GoodDirectory

\* Nothing is read yet.
LEMMA InitLoad == NodeInit => LoadInv
<1> SUFFICES ASSUME NodeInit PROVE LoadInv
  OBVIOUS
<1>1. GraphInv
  BY InitGraph DEF NodeInit
<1>2. MemTypeOK /\ IndexesAgree /\ blocks = {}
  <2>1. MemTypeOK /\ blocks = {}
    BY DEF NodeInit, MemInit, MemTypeOK
  <2>2. /\ \A s \in Slot : position[s] = <<>>
        /\ \A d \in Digest : referrers[d] = <<>>
    BY DEF NodeInit, MemInit
  <2>3. Range(<<>>) = {} /\ Unique(<<>>)
    BY DEF Range, Unique
  <2> QED
    BY <2>1, <2>2, <2>3 DEF IndexesAgree
<1>3. load \in Load /\ load.phase = "read" /\ dir \in Directories
  BY DEF NodeInit, Load, Phase
<1>4. DOMAIN payloads = {}
  BY DEF NodeInit, GraphInit
<1> QED
  BY <1>1, <1>2, <1>3, <1>4 DEF LoadInv

\* What is said of a directory stays so.
LEMMA DirectoryStays ==
    ASSUME dir' = dir
    PROVE  /\ Held' = Held
           /\ \A i : ChainOf(i)' = ChainOf(i)
           /\ \A i : GoodChain(i)' <=> GoodChain(i)
           /\ GoodDirectory' <=> GoodDirectory
<1>1. Held' = Held
  BY DEF Held, Listed
<1>2. ASSUME NEW i PROVE ChainOf(i)' = ChainOf(i)
  BY DEF ChainOf
<1>3. ASSUME NEW d PROVE GoodBlock(d)' <=> GoodBlock(d)
  BY <1>1 DEF GoodBlock
<1>4. ASSUME NEW i PROVE GoodChain(i)' <=> GoodChain(i)
  BY <1>2, <1>3 DEF GoodChain
<1>5. GoodDirectory' <=> GoodDirectory
  BY <1>4 DEF GoodDirectory
<1> QED
  BY <1>1, <1>2, <1>4, <1>5

\* While no block is stored or ingested, it is left to say how far Load is.
LEMMA StoresStay ==
    ASSUME LoadInv, UNCHANGED <<memVars, graphVars, dir>>
    PROVE  /\ MemTypeOK' /\ IndexesAgree' /\ GraphInv' /\ dir' \in Directories
           /\ \A d \in DOMAIN payloads' : payloads'[d] = NoPayload
           /\ blocks' = blocks /\ payloads' = payloads
<1>1. MemTypeOK' /\ IndexesAgree'
  BY DEF LoadInv, memVars, MemTypeOK, IndexesAgree, Refs, SlotOf
<1>2. GraphInv'
  BY GraphStep DEF LoadInv
<1> QED
  BY <1>1, <1>2 DEF LoadInv, memVars, graphVars

\* Load goes on to another phase, chain and rest.
LEMMA Went ==
    ASSUME NEW phase \in Phase, NEW n \in Nat, NEW todo \in Seq(Digest), Goto(phase, n, todo)
    PROVE  load' \in Load /\ load'.phase = phase /\ load'.chain = n /\ load'.todo = todo
  BY DEF Goto, Load

\* Load fails.
LEMMA WentWrong ==
    ASSUME NEW n \in Nat, Goto("failed", n, <<>>)
    PROVE  load' \in Load /\ load'.phase = "failed"
<1>1. "failed" \in Phase /\ <<>> \in Seq(Digest)
  BY EmptySeq DEF Phase
<1> QED
  BY <1>1, Went

\* Every file is read and found in the index, or Load has failed.
LEMMA ReadFilesStep ==
    ASSUME LoadInv, ReadFiles
    PROVE  LoadInv'
<1> DEFINE all == Sequence!FlattenSeq([i \in DOMAIN dir.index |-> Digests(dir.index[i])])
<1>1. load.phase = "read" /\ UNCHANGED <<memVars, graphVars, dir>>
  BY DEF ReadFiles
<1>2. /\ MemTypeOK' /\ IndexesAgree' /\ GraphInv' /\ dir' \in Directories
      /\ \A d \in DOMAIN payloads' : payloads'[d] = NoPayload
      /\ blocks' = blocks /\ payloads' = payloads /\ dir' = dir
  BY <1>1, StoresStay
<1>3. Held' = Held /\ (GoodDirectory' <=> GoodDirectory)
  BY <1>2, DirectoryStays
<1>4. CASE Reads(dir)
  <2> DEFINE seqs == [i \in DOMAIN dir.index |-> Digests(dir.index[i])]
  <2>1. /\ Len(dir.index) \in Nat /\ DOMAIN dir.index = 1..Len(dir.index)
        /\ \A i \in DOMAIN dir.index : ChainOf(i) \in Seq(Digest)
        /\ Held = UNION {Range(ChainOf(i)) : i \in DOMAIN dir.index}
    BY <1>4, ChainParts DEF LoadInv
  <2>2. DOMAIN seqs = DOMAIN dir.index /\ \A i \in DOMAIN seqs : seqs[i] = ChainOf(i)
    BY DEF ChainOf
  <2>3. seqs \in Seq(Seq(Digest))
    <3>1. seqs \in [1..Len(dir.index) -> Seq(Digest)]
      BY <2>1, <2>2
    <3> HIDE DEF seqs
    <3> QED
      BY <2>1, <3>1
  <2>4. Goto("store", 1, all)
    BY <1>4 DEF ReadFiles
  <2>5. all = Sequence!FlattenSeq(seqs)
    OBVIOUS
  <2> HIDE DEF seqs, all
  <2>6. all \in Seq(Digest) /\ Range(all) = Held
    <3>1. all \in Seq(Digest) /\ Range(all) = UNION {Range(seqs[i]) : i \in DOMAIN seqs}
      BY <2>3, <2>5, FlattenedRange
    <3>2. UNION {Range(seqs[i]) : i \in DOMAIN seqs}
            = UNION {Range(ChainOf(i)) : i \in DOMAIN dir.index}
      BY <2>2
    <3> QED
      BY <2>1, <3>1, <3>2
  <2>7. load' \in Load /\ load'.phase = "store" /\ load'.todo = all
    BY <2>4, <2>6, Went DEF Phase
  <2> QED
    BY <1>1, <1>2, <1>3, <1>4, <2>6, <2>7 DEF LoadInv
<1>5. CASE ~Reads(dir)
  <2>1. load' \in Load /\ load'.phase = "failed"
    <3>1. Goto("failed", 1, <<>>)
      BY <1>5 DEF ReadFiles
    <3> QED
      BY <3>1, WentWrong
  <2>2. ~GoodDirectory
    BY <1>5 DEF GoodDirectory
  <2> QED
    BY <1>2, <1>3, <2>1, <2>2 DEF LoadInv
<1> QED
  BY <1>4, <1>5

\* A block is stored, or found to fork with one that is.
LEMMA StoreNextStep ==
    ASSUME LoadInv, StoreNext
    PROVE  LoadInv'
<1> DEFINE d == Head(load.todo)
           rest == Tail(load.todo)
<1>1. /\ load.phase = "store" /\ load.todo # <<>> /\ Add(d) /\ UNCHANGED <<graphVars, dir>>
      /\ Goto("failed", 1, <<>>) \/ (~ForkError(d) /\ Goto("store", 1, rest))
      /\ ForkError(d) => Goto("failed", 1, <<>>)
      /\ ~ForkError(d) => Goto("store", 1, rest)
  BY DEF StoreNext
<1>2. load.todo \in Seq(Digest)
  BY DEF LoadInv, Load
<1>3. d \in Digest /\ rest \in Seq(Digest) /\ Range(load.todo) = {d} \cup Range(rest)
  BY <1>1, <1>2, RangeHeadTail
<1> HIDE DEF d, rest
<1>4. MemTypeOK' /\ blocks' = blocks \cup {d}
  BY <1>1, <1>3, AddType DEF LoadInv
<1>5. IndexesAgree'
  <2>1. CASE d \in blocks
    <3>1. UNCHANGED memVars
      BY <1>1, <2>1 DEF Add
    <3> QED
      BY <3>1 DEF LoadInv, memVars, IndexesAgree, Refs, SlotOf
  <2>2. CASE d \notin blocks
    BY <1>1, <1>3, <2>2, AddKeepsIndexes DEF LoadInv
  <2> QED
    BY <2>1, <2>2
<1>6. GraphInv' /\ dir' = dir /\ payloads' = payloads
  BY <1>1, GraphStep DEF LoadInv, graphVars
<1>7. Held' = Held /\ (GoodDirectory' <=> GoodDirectory)
  BY <1>6, DirectoryStays
<1>8. CASE ForkError(d)
  <2>1. load' \in Load /\ load'.phase = "failed"
    BY <1>1, <1>8, WentWrong
  <2>2. SlotOf(d) \in Slot
    BY <1>3, ContentType DEF SlotOf, Slot
  <2>3. position[SlotOf(d)] \in Seq(Digest) /\ position[SlotOf(d)] # <<>> /\ d \notin blocks
    BY <1>8, <2>2 DEF ForkError, LoadInv, MemTypeOK
  <2>4. PICK x \in blocks : SlotOf(x) = SlotOf(d)
    <3>1. Head(position[SlotOf(d)]) \in Range(position[SlotOf(d)])
      BY <2>3, RangeHeadTail
    <3> QED
      BY <2>2, <3>1 DEF LoadInv, IndexesAgree
  <2>5. IsFork(d, x) /\ d \in Held /\ x \in Held
    BY <1>1, <1>3, <2>3, <2>4 DEF IsFork, SameAuthor, SlotOf, LoadInv
  <2>6. ~GoodDirectory
    <3>1. Held = UNION {Range(ChainOf(i)) : i \in DOMAIN dir.index}
      <4>1. dir \in Directories /\ Reads(dir)
        BY <1>1 DEF LoadInv
      <4> QED
        BY <4>1, ChainParts
    <3>2. PICK i \in DOMAIN dir.index : d \in Range(ChainOf(i))
      BY <2>5, <3>1
    <3> QED
      BY <2>5, <3>2 DEF GoodDirectory, GoodChain, GoodBlock
  <2> QED
    BY <1>4, <1>5, <1>6, <1>7, <2>1, <2>6 DEF LoadInv
<1>9. CASE ~ForkError(d)
  <2>1. load' \in Load /\ load'.phase = "store" /\ load'.todo = rest
    BY <1>1, <1>3, <1>9, Went DEF Phase
  <2>2. blocks' \cup Range(rest) = Held
    BY <1>1, <1>3, <1>4 DEF LoadInv
  <2> QED
    BY <1>1, <1>4, <1>5, <1>6, <1>7, <2>1, <2>2 DEF LoadInv
<1> QED
  BY <1>8, <1>9

\* Every block is stored.
LEMMA StoreDoneStep ==
    ASSUME LoadInv, StoreDone
    PROVE  LoadInv'
<1>1. /\ load.phase = "store" /\ load.todo = <<>> /\ Goto("validate", 1, <<>>)
      /\ UNCHANGED <<memVars, graphVars, dir>>
  BY DEF StoreDone
<1>2. /\ MemTypeOK' /\ IndexesAgree' /\ GraphInv' /\ dir' \in Directories
      /\ \A d \in DOMAIN payloads' : payloads'[d] = NoPayload
      /\ blocks' = blocks /\ payloads' = payloads /\ dir' = dir
  BY <1>1, StoresStay
<1>3. Held' = Held
  BY <1>2, DirectoryStays
<1>4. load' \in Load /\ load'.phase = "validate" /\ load'.chain = 1
  <2>1. "validate" \in Phase /\ <<>> \in Seq(Digest)
    BY EmptySeq DEF Phase
  <2> QED
    BY <1>1, <2>1, Went
<1>5. blocks = Held /\ DOMAIN payloads = {} /\ Reads(dir)
  <2>1. Range(<<>>) = {}
    BY DEF Range
  <2> QED
    BY <1>1, <2>1 DEF LoadInv
<1>6. 1 \in 1..(Len(dir.index) + 1) /\ 1..(1 - 1) = {}
  BY <1>5, ChainParts DEF LoadInv
<1>7. DOMAIN payloads' = UNION {Range(ChainOf(i))' : i \in 1..(load.chain' - 1)}
  BY <1>2, <1>4, <1>5, <1>6
<1> QED
  BY <1>2, <1>3, <1>4, <1>5, <1>6, <1>7 DEF LoadInv

\* A chain is found to be good, or Load has failed.
LEMMA ValidateNextStep ==
    ASSUME LoadInv, ValidateNext
    PROVE  LoadInv'
<1> DEFINE k == load.chain
           s == ChainOf(k)
           tip == s[Len(s)]
<1>1. /\ load.phase = "validate" /\ k <= Len(dir.index)
      /\ UNCHANGED <<memVars, graphVars, dir>>
  BY DEF ValidateNext
<1>2. /\ MemTypeOK' /\ IndexesAgree' /\ GraphInv' /\ dir' \in Directories
      /\ \A d \in DOMAIN payloads' : payloads'[d] = NoPayload
      /\ blocks' = blocks /\ payloads' = payloads /\ dir' = dir
  BY <1>1, StoresStay
<1>3. /\ Held' = Held /\ (GoodDirectory' <=> GoodDirectory)
      /\ \A i : ChainOf(i)' = ChainOf(i)
      /\ \A i : GoodChain(i)' <=> GoodChain(i)
  BY <1>2, DirectoryStays
<1>4. /\ Len(dir.index) \in Nat /\ DOMAIN dir.index = 1..Len(dir.index)
      /\ k \in DOMAIN dir.index /\ k \in Nat
      /\ s \in Seq(Digest) /\ DOMAIN s = DOMAIN dir.index[k].blocks
  <2>1. k \in 1..(Len(dir.index) + 1) /\ dir \in Directories /\ Reads(dir)
    BY <1>1 DEF LoadInv
  <2>2. /\ Len(dir.index) \in Nat /\ DOMAIN dir.index = 1..Len(dir.index)
        /\ \A i \in DOMAIN dir.index : /\ ChainOf(i) \in Seq(Digest)
                                       /\ DOMAIN ChainOf(i) = DOMAIN dir.index[i].blocks
    BY <2>1, ChainParts
  <2> QED
    BY <1>1, <2>1, <2>2
<1>5. /\ Passes(k) <=> GoodChain(k)
      /\ Passes(k) => walk(tip) = s
  BY <1>1, <1>4, PassesIfGood DEF LoadInv
<1>6. dir.index[k].blocks # <<>> <=> s # <<>>
  <2>1. \A i \in DOMAIN dir.index : dir.index[i] \in Range(dir.index)
    BY DEF Range
  <2>2. dir.index[k].blocks \in Seq(BlockEntry)
    BY <1>4, <2>1, NodeAssumption DEF LoadInv
  <2> QED
    BY <1>4, <2>2, EmptySeq
<1>7. IF Passes(k) THEN Goto("ingest", k, walk(tip)) ELSE Goto("failed", k, <<>>)
  <2>1. Sequence!Last(Digests(dir.index[k])) = tip
    BY DEF Sequence!Last, ChainOf
  <2>2. ChainOf(k) = Digests(dir.index[k])
    BY DEF ChainOf
  <2>3. IF /\ dir.index[k].blocks # <<>>
           /\ ValidateChain(tip, Validated)
           /\ checkChain(dir.index[k], walk(tip))
        THEN Goto("ingest", k, walk(tip)) ELSE Goto("failed", k, <<>>)
    BY <2>1 DEF ValidateNext
  <2> QED
    BY <1>6, <2>3 DEF Passes
<1>8. CASE Passes(k)
  <2>1. load' \in Load /\ load'.phase = "ingest" /\ load'.chain = k /\ load'.todo = s
    BY <1>4, <1>5, <1>7, <1>8, Went DEF Phase
  <2>2. \A i \in 1..k : i \in 1..(k - 1) \/ i = k
    BY <1>4
  <2>3. \A i \in 1..(k - 1) : i \in 1..k
    BY <1>4
  <2>4. (\A i \in 1..k : GoodChain(i)) /\ k \in 1..Len(dir.index)
    BY <1>1, <1>4, <1>5, <1>8, <2>2 DEF LoadInv
  <2>5. DOMAIN payloads \cup Range(s) = UNION {Range(ChainOf(i)) : i \in 1..k}
    <3>1. DOMAIN payloads = UNION {Range(ChainOf(i)) : i \in 1..(k - 1)}
      BY <1>1 DEF LoadInv
    <3>2. k \in 1..k
      BY <1>4
    <3> HIDE DEF k
    <3> QED
      BY <2>2, <2>3, <3>1, <3>2
  <2>6. /\ load'.chain \in 1..Len(dir'.index)
        /\ \A i \in 1..(load'.chain) : GoodChain(i)'
        /\ DOMAIN payloads' \cup Range(load'.todo)
              = UNION {Range(ChainOf(i)') : i \in 1..(load'.chain)}
    BY <1>2, <1>3, <2>1, <2>4, <2>5
  <2>7. Reads(dir') /\ blocks' = Held'
    BY <1>1, <1>2, <1>3 DEF LoadInv
  <2> QED
    BY <1>2, <2>1, <2>6, <2>7 DEF LoadInv
<1>9. CASE ~Passes(k)
  <2>1. load' \in Load /\ load'.phase = "failed"
    BY <1>4, <1>7, <1>9, WentWrong
  <2>2. ~GoodDirectory
    BY <1>4, <1>5, <1>9 DEF GoodDirectory
  <2> QED
    BY <1>2, <1>3, <2>1, <2>2 DEF LoadInv
<1> QED
  BY <1>8, <1>9

\* The next block of a good chain is ingested.
LEMMA IngestNextStep ==
    ASSUME LoadInv, IngestNext
    PROVE  LoadInv'
<1> DEFINE d == Head(load.todo)
           rest == Tail(load.todo)
           all == UNION {Range(ChainOf(i)) : i \in 1..load.chain}
<1>1. /\ load.phase = "ingest" /\ load.todo # <<>> /\ Ingest(d) /\ UNCHANGED <<memVars, dir>>
      /\ Goto("ingest", load.chain, rest)
  BY DEF IngestNext
<1>2. /\ load.todo \in Seq(Digest) /\ load.chain \in Nat /\ load.chain \in 1..Len(dir.index)
      /\ DOMAIN payloads \cup Range(load.todo) = all
  BY <1>1 DEF LoadInv, Load
<1>3. d \in Digest /\ rest \in Seq(Digest) /\ Range(load.todo) = {d} \cup Range(rest)
  BY <1>1, <1>2, RangeHeadTail
<1> HIDE DEF d, rest, all
<1>4. MemTypeOK' /\ IndexesAgree' /\ dir' = dir /\ blocks' = blocks
  BY <1>1 DEF LoadInv, memVars, MemTypeOK, IndexesAgree, Refs, SlotOf
<1>5. Held' = Held /\ \A i : ChainOf(i)' = ChainOf(i) /\ (GoodChain(i)' <=> GoodChain(i))
  BY <1>4, DirectoryStays
<1>6. GraphInv'
  <2>1. GraphNext
    BY <1>1, <1>3 DEF GraphNext
  <2> QED
    BY <2>1, GraphStep DEF LoadInv
<1>7. /\ DOMAIN payloads' = DOMAIN payloads \cup {d}
      /\ \A x \in DOMAIN payloads' : payloads'[x] = NoPayload
  <2>1. CASE d \in DOMAIN payloads
    <3>1. payloads' = payloads
      BY <1>1, <2>1 DEF Ingest, ingest, graphVars
    <3> QED
      BY <2>1, <3>1 DEF LoadInv
  <2>2. CASE d \notin DOMAIN payloads
    <3>1. payloads' = [x \in DOMAIN payloads \cup {d} |-> IF x = d THEN NoPayload ELSE payloads[x]]
      BY <1>1, <2>2 DEF Ingest, ingest, Accumulate
    <3> QED
      BY <3>1 DEF LoadInv
  <2> QED
    BY <2>1, <2>2
<1>8. /\ load' \in Load /\ load'.phase = "ingest" /\ load'.chain = load.chain /\ load'.todo = rest
  <2>1. "ingest" \in Phase
    BY DEF Phase
  <2> QED
    BY <1>1, <1>2, <1>3, <2>1, Went
<1>9. /\ load'.chain \in 1..Len(dir'.index)
      /\ \A i \in 1..(load'.chain) : GoodChain(i)'
      /\ DOMAIN payloads' \cup Range(load'.todo)
            = UNION {Range(ChainOf(i)') : i \in 1..(load'.chain)}
  <2>1. \A i \in 1..load.chain : GoodChain(i)
    BY <1>1 DEF LoadInv
  <2>2. all = UNION {Range(ChainOf(i)') : i \in 1..(load'.chain)}
    BY <1>5, <1>8 DEF all
  <2> QED
    BY <1>2, <1>3, <1>4, <1>5, <1>7, <1>8, <2>1, <2>2
<1>10. Reads(dir') /\ blocks' = Held' /\ dir' \in Directories
  BY <1>1, <1>4, <1>5 DEF LoadInv
<1> QED
  BY <1>4, <1>6, <1>7, <1>8, <1>9, <1>10 DEF LoadInv

\* A chain is ingested, and the next one's turn.
LEMMA IngestDoneStep ==
    ASSUME LoadInv, IngestDone
    PROVE  LoadInv'
<1> DEFINE k == load.chain
<1>1. /\ load.phase = "ingest" /\ load.todo = <<>> /\ Goto("validate", k + 1, <<>>)
      /\ UNCHANGED <<memVars, graphVars, dir>>
  BY DEF IngestDone
<1>2. /\ MemTypeOK' /\ IndexesAgree' /\ GraphInv' /\ dir' \in Directories
      /\ \A d \in DOMAIN payloads' : payloads'[d] = NoPayload
      /\ blocks' = blocks /\ payloads' = payloads /\ dir' = dir
  BY <1>1, StoresStay
<1>3. Held' = Held /\ \A i : ChainOf(i)' = ChainOf(i) /\ (GoodChain(i)' <=> GoodChain(i))
  BY <1>2, DirectoryStays
<1>4. k \in Nat /\ k \in 1..Len(dir.index) /\ Len(dir.index) \in Nat
  <2>1. k \in Nat /\ k \in 1..Len(dir.index) /\ dir \in Directories /\ Reads(dir)
    BY <1>1 DEF LoadInv, Load
  <2> QED
    BY <2>1, ChainParts
<1>5. load' \in Load /\ load'.phase = "validate" /\ load'.chain = k + 1
  <2>1. "validate" \in Phase /\ <<>> \in Seq(Digest) /\ k + 1 \in Nat
    BY <1>4, EmptySeq DEF Phase
  <2> QED
    BY <1>1, <2>1, Went
<1>6. /\ \A i \in 1..k : GoodChain(i)
      /\ DOMAIN payloads = UNION {Range(ChainOf(i)) : i \in 1..k}
  <2>1. Range(<<>>) = {}
    BY DEF Range
  <2> QED
    BY <1>1, <2>1 DEF LoadInv
<1>7. /\ load'.chain \in 1..(Len(dir'.index) + 1)
      /\ \A i \in 1..(load'.chain - 1) : GoodChain(i)'
      /\ DOMAIN payloads' = UNION {Range(ChainOf(i)') : i \in 1..(load'.chain - 1)}
  <2>1. load'.chain - 1 = k /\ load'.chain \in 1..(Len(dir'.index) + 1)
    BY <1>2, <1>4, <1>5
  <2> QED
    BY <1>2, <1>3, <1>6, <2>1
<1>8. Reads(dir') /\ blocks' = Held'
  BY <1>1, <1>2, <1>3 DEF LoadInv
<1> QED
  BY <1>2, <1>5, <1>7, <1>8 DEF LoadInv

\* Every chain has passed.
LEMMA NewServerStep ==
    ASSUME LoadInv, NewServer
    PROVE  LoadInv'
<1> DEFINE k == load.chain
<1>1. /\ load.phase = "validate" /\ k > Len(dir.index) /\ Goto("serving", k, <<>>)
      /\ UNCHANGED <<memVars, graphVars, dir>>
  BY DEF NewServer
<1>2. /\ MemTypeOK' /\ IndexesAgree' /\ GraphInv' /\ dir' \in Directories
      /\ \A d \in DOMAIN payloads' : payloads'[d] = NoPayload
      /\ blocks' = blocks /\ payloads' = payloads /\ dir' = dir
  BY <1>1, StoresStay
<1>3. Held' = Held /\ (GoodDirectory' <=> GoodDirectory)
  BY <1>2, DirectoryStays
<1>4. /\ Len(dir.index) \in Nat /\ DOMAIN dir.index = 1..Len(dir.index)
      /\ Held = UNION {Range(ChainOf(i)) : i \in DOMAIN dir.index}
  <2>1. dir \in Directories /\ Reads(dir)
    BY <1>1 DEF LoadInv
  <2> QED
    BY <2>1, ChainParts
<1>5. k \in Nat /\ k - 1 = Len(dir.index)
  BY <1>1, <1>4 DEF LoadInv, Load
<1>6. /\ \A i \in 1..(k - 1) : GoodChain(i)
      /\ DOMAIN payloads = UNION {Range(ChainOf(i)) : i \in 1..(k - 1)}
      /\ Reads(dir) /\ blocks = Held
  BY <1>1 DEF LoadInv
<1>7. GoodDirectory /\ DOMAIN payloads = Held
  BY <1>4, <1>5, <1>6 DEF GoodDirectory
<1>8. load' \in Load /\ load'.phase = "serving"
  <2>1. "serving" \in Phase /\ <<>> \in Seq(Digest)
    BY EmptySeq DEF Phase
  <2> QED
    BY <1>1, <1>5, <2>1, Went
<1> QED
  BY <1>2, <1>3, <1>6, <1>7, <1>8 DEF LoadInv

\* A server changes neither what was loaded nor how far.
LEMMA NodeStays ==
    ASSUME LoadInv, UNCHANGED nodeVars
    PROVE  LoadInv'
<1>1. UNCHANGED <<memVars, graphVars, dir, load>>
  BY DEF nodeVars
<1>2. /\ MemTypeOK' /\ IndexesAgree' /\ GraphInv' /\ dir' \in Directories
      /\ \A d \in DOMAIN payloads' : payloads'[d] = NoPayload
      /\ blocks' = blocks /\ payloads' = payloads /\ dir' = dir /\ load' = load
  BY <1>1, StoresStay
<1>3. /\ Held' = Held /\ (GoodDirectory' <=> GoodDirectory)
      /\ \A i : ChainOf(i)' = ChainOf(i)
      /\ \A i : GoodChain(i)' <=> GoodChain(i)
  BY <1>2, DirectoryStays
<1>4. load.phase = "validate" =>
         /\ load'.chain \in 1..(Len(dir'.index) + 1)
         /\ \A i \in 1..(load'.chain - 1) : GoodChain(i)'
         /\ DOMAIN payloads' = UNION {Range(ChainOf(i)') : i \in 1..(load'.chain - 1)}
  BY <1>2, <1>3 DEF LoadInv
<1>5. load.phase = "ingest" =>
         /\ load'.chain \in 1..Len(dir'.index)
         /\ \A i \in 1..(load'.chain) : GoodChain(i)'
         /\ DOMAIN payloads' \cup Range(load'.todo)
               = UNION {Range(ChainOf(i)') : i \in 1..(load'.chain)}
  BY <1>2, <1>3 DEF LoadInv
<1>6. /\ load' \in Load
      /\ load.phase = "read" => blocks' = {} /\ DOMAIN payloads' = {}
      /\ load.phase \notin {"read", "failed"} => Reads(dir')
      /\ load.phase = "store" => blocks' \cup Range(load'.todo) = Held' /\ DOMAIN payloads' = {}
      /\ load.phase \in {"validate", "ingest", "serving"} => blocks' = Held'
      /\ load.phase = "serving" => GoodDirectory' /\ DOMAIN payloads' = Held'
      /\ load.phase = "failed" => ~GoodDirectory'
  BY <1>2, <1>3 DEF LoadInv
<1> QED
  BY <1>2, <1>4, <1>5, <1>6 DEF LoadInv

\* Every step of loading keeps what is known of it; serving changes nothing of it.
LEMMA LoadStep == LoadInv /\ [NodeNext]_<<nodeVars, serverVars>> => LoadInv'
<1> SUFFICES ASSUME LoadInv, [NodeNext]_<<nodeVars, serverVars>> PROVE LoadInv'
  OBVIOUS
<1>1. CASE ReadFiles
  BY <1>1, ReadFilesStep
<1>2. CASE StoreNext
  BY <1>2, StoreNextStep
<1>3. CASE StoreDone
  BY <1>3, StoreDoneStep
<1>4. CASE ValidateNext
  BY <1>4, ValidateNextStep
<1>5. CASE IngestNext
  BY <1>5, IngestNextStep
<1>6. CASE IngestDone
  BY <1>6, IngestDoneStep
<1>7. CASE NewServer
  BY <1>7, NewServerStep
<1>8. ASSUME NEW c \in Client,
             \/ Snapshot(c) \/ Answer(c) \/ BuildView(c) \/ Swap(c) \/ Report(c)
             \/ \E S \in Requests : SetSubscriptions(c, S)
      PROVE  LoadInv'
  <2>1. UNCHANGED nodeVars
    BY <1>8 DEF Snapshot, Answer, BuildView, Swap, Report, SetSubscriptions
  <2> QED
    BY <2>1, NodeStays
<1>9. CASE UNCHANGED <<nodeVars, serverVars>>
  BY <1>9, NodeStays
<1> QED
  BY <1>1, <1>2, <1>3, <1>4, <1>5, <1>6, <1>7, <1>8, <1>9 DEF NodeNext

\* LoadInv holds throughout.
LEMMA LoadInvariant == NodeSpec => []LoadInv
<1> QED
  BY InitLoad, LoadStep, PTL DEF NodeSpec

\* A node is returned exactly for the directories whose index is what Build writes
\* for their files and whose chains are good, in whatever order they are listed,
\* and then holds and has ingested the blocks they list.
THEOREM LoadIsAlwaysExact == NodeSpec => []LoadIsExact
<1>1. ASSUME LoadInv PROVE LoadIsExact
  <2>1. MayLoad <=> GoodDirectory
    BY <1>1, MayLoadIfGood DEF LoadInv
  <2>2. CASE load.phase = "serving"
    <3>1. MayLoad /\ blocks = Held /\ DOMAIN payloads = Held
      BY <1>1, <2>1, <2>2 DEF LoadInv
    <3>2. ASSUME NEW d \in DOMAIN payloads PROVE creations(IngestedOps(d)) = Definitions(d)
      BY <1>1 DEF LoadInv, IngestedOps, creations, Definitions
    <3>3. DOMAIN entities = UNION {creations(IngestedOps(d)) : d \in DOMAIN payloads}
      BY <1>1 DEF LoadInv, GraphInv, GraphIsItsBlocks
    <3>4. DOMAIN entities = UNION {Definitions(d) : d \in Held}
      BY <3>1, <3>2, <3>3
    <3> QED
      BY <2>2, <3>1, <3>4 DEF LoadIsExact, MayLoad, Held, ChainOf
  <2>3. CASE load.phase = "failed"
    <3>1. ~MayLoad
      BY <1>1, <2>1, <2>3 DEF LoadInv
    <3> QED
      BY <2>3, <3>1 DEF LoadIsExact, MayLoad, Held, ChainOf
  <2> QED
    BY <2>2, <2>3 DEF LoadIsExact
<1> QED
  BY <1>1, LoadInvariant, PTL
-----------------------------------------------------------------------------
\* Every block of a whole chain has its predecessor in the chain.
LEMMA WholeGoesBack ==
    ASSUME NEW s, Whole(s), NEW d \in Range(s)
    PROVE  content[d].prev \in Range(s) \cup {NoDigest}
<1>1. s \in Seq(Digest) /\ Len(s) \in Nat /\ DOMAIN s = 1..Len(s)
  BY DEF Whole, Chained
<1>2. PICK j \in 1..Len(s) : d = s[j]
  BY <1>1 DEF Range
<1>3. CASE j = 1
  BY <1>2, <1>3 DEF Whole, IsGenesis
<1>4. CASE j # 1
  <2>1. j \in 2..Len(s) /\ j - 1 \in 1..Len(s)
    BY <1>1, <1>4
  <2>2. content[d].prev = s[j - 1]
    BY <1>2, <2>1 DEF Whole, Chained
  <2> QED
    BY <1>1, <2>1, <2>2 DEF Range
<1> QED
  BY <1>3, <1>4

\* What a node serves from is whole.
LEMMA LoadedIsWhole ==
    ASSUME LoadInv, load.phase = "serving"
    PROVE  AcceptInv
<1>1. /\ MemTypeOK /\ IndexesAgree /\ GraphInv /\ dir \in Directories /\ GoodDirectory
      /\ blocks = Held /\ DOMAIN payloads = Held
  BY DEF LoadInv
<1>2. ASSUME NEW d \in blocks
      PROVE  {content[d].prev} \cup Range(Refs(d)) \subseteq blocks \cup {NoDigest}
  <2>1. Held = UNION {Range(ChainOf(i)) : i \in DOMAIN dir.index}
    BY <1>1, ChainParts DEF GoodDirectory
  <2>2. PICK i \in DOMAIN dir.index : d \in Range(ChainOf(i))
    BY <1>1, <2>1
  <2>3. Whole(ChainOf(i)) /\ GoodBlock(d)
    BY <1>1, <2>2 DEF GoodDirectory, GoodChain
  <2>4. content[d].prev \in Held \cup {NoDigest}
    BY <2>1, <2>2, <2>3, WholeGoesBack
  <2> QED
    BY <1>1, <2>3, <2>4 DEF GoodBlock
<1>3. \A x \in Digest : Range(referrers[x]) = {d \in blocks : x \in Range(Refs(d))}
  BY <1>1 DEF IndexesAgree
<1>4. StoreWhole
  BY <1>1, <1>2, <1>3 DEF StoreWhole
<1> QED
  BY <1>1, <1>4 DEF AcceptInv
-----------------------------------------------------------------------------
\* What a handler knows: before Load is done there is none, the subscriptions
\* and the view agree whenever they can be read, and so do those of a snapshot.
ServerInv ==
    /\ subs = view /\ subs \in SUBSET Author
    /\ call \in [Client -> Call]
    /\ load.phase # "serving" => \A c \in Client : call[c].phase = "idle"
    /\ \A c \in Client : call[c].phase = "answering" => call[c].before = call[c].previous

\* A handler that has nothing to do is a handler.
LEMMA NoCallType == NoCall \in Call
<1>1. "idle" \in {"idle", "building", "swapping", "reporting", "answering"}
  OBVIOUS
<1> QED
  BY <1>1 DEF NoCall, Call

\* What becomes of the one handler that acts.
LEMMA HandlerType ==
    ASSUME call \in [Client -> Call], NEW c \in Client, NEW k \in Call, Handler(c, k)
    PROVE  /\ call' \in [Client -> Call] /\ call'[c] = k
           /\ \A x \in Client : x # c => call'[x] = call[x]
  BY DEF Handler

\* A handler that is not answering afterwards breaks nothing it knows.
LEMMA HandlerStep ==
    ASSUME ServerInv, load' = load, subs' = view', subs' \in SUBSET Author,
           load.phase = "serving",
           NEW c \in Client, NEW k \in Call, Handler(c, k),
           k.phase = "answering" => k.before = k.previous
    PROVE  ServerInv'
<1>1. /\ call' \in [Client -> Call] /\ call'[c] = k
      /\ \A x \in Client : x # c => call'[x] = call[x]
  BY HandlerType DEF ServerInv
<1> QED
  BY <1>1 DEF ServerInv

\* The authors that have chains, once these are read.
LEMMA AuthorsType ==
    ASSUME LoadInv, load.phase \in {"validate", "serving"}
    PROVE  Authors \in SUBSET Author
<1>1. \A i \in DOMAIN dir.index : dir.index[i].pub \in Author
  <2>1. dir \in Directories /\ Reads(dir)
    BY DEF LoadInv
  <2> QED
    BY <2>1, ChainParts
<1> QED
  BY <1>1 DEF Authors

\* Every step of the server keeps what its handlers know.
LEMMA ServerStep == LoadInv /\ ServerInv /\ [NodeNext]_<<nodeVars, serverVars>> => ServerInv'
<1> SUFFICES ASSUME LoadInv, ServerInv, [NodeNext]_<<nodeVars, serverVars>> PROVE ServerInv'
  OBVIOUS
<1>0. load.phase \in {"validate", "serving"} => Authors \in SUBSET Author
  BY AuthorsType
<1>1. CASE ReadFiles \/ StoreNext \/ StoreDone \/ ValidateNext \/ IngestNext \/ IngestDone
  <2>1. UNCHANGED serverVars /\ load.phase # "serving"
    BY <1>1 DEF ReadFiles, StoreNext, StoreDone, ValidateNext, IngestNext, IngestDone
  <2> QED
    BY <2>1 DEF ServerInv, serverVars
<1>2. CASE NewServer
  <2>1. call' = call /\ subs' = Authors /\ view' = Authors /\ load.phase = "validate"
    BY <1>2 DEF NewServer
  <2> QED
    BY <1>0, <2>1 DEF ServerInv
<1>3. ASSUME NEW c \in Client, Snapshot(c) PROVE ServerInv'
  <2> DEFINE k == [NoCall EXCEPT !.phase = "answering", !.before = view, !.previous = subs]
  <2>1. NoCall \in Call
    BY NoCallType
  <2>2. k \in Call /\ k.before = k.previous
    BY <2>1 DEF Call, ServerInv
  <2>3. /\ load' = load /\ subs' = subs /\ view' = view /\ load.phase = "serving" /\ Handler(c, k)
    BY <1>3 DEF Snapshot, nodeVars, Serving
  <2> HIDE DEF k
  <2> QED
    BY <2>2, <2>3, HandlerStep DEF ServerInv
<1>4. ASSUME NEW c \in Client, Answer(c) PROVE ServerInv'
  <2>1. /\ load' = load /\ subs' = subs /\ view' = view /\ load.phase = "serving"
        /\ Handler(c, NoCall)
    BY <1>4 DEF Answer, nodeVars, Serving
  <2>2. NoCall \in Call /\ NoCall.phase # "answering"
    BY NoCallType DEF NoCall
  <2> QED
    BY <2>1, <2>2, HandlerStep DEF ServerInv
<1>5. ASSUME NEW c \in Client, NEW S \in Requests, SetSubscriptions(c, S) PROVE ServerInv'
  <2> DEFINE k == IF S \subseteq Authors THEN [NoCall EXCEPT !.phase = "building", !.asked = S]
                                         ELSE NoCall
  <2>1. /\ load' = load /\ subs' = subs /\ view' = view /\ load.phase = "serving"
        /\ Handler(c, k)
    BY <1>5 DEF SetSubscriptions, nodeVars, Serving
  <2>2. k \in Call /\ k.phase # "answering"
    <3>1. CASE S \subseteq Authors
      <4>1. k = [phase |-> "building", asked |-> S, before |-> {}, previous |-> {}]
        BY <3>1 DEF NoCall
      <4> QED
        BY <1>0, <2>1, <3>1, <4>1 DEF Call
    <3>2. CASE ~(S \subseteq Authors)
      BY <3>2, NoCallType DEF NoCall
    <3> QED
      BY <3>1, <3>2
  <2> HIDE DEF k
  <2> QED
    BY <2>1, <2>2, HandlerStep DEF ServerInv
<1>6. ASSUME NEW c \in Client, BuildView(c) PROVE ServerInv'
  <2> DEFINE k == [call[c] EXCEPT !.phase = "swapping"]
  <2>1. /\ load' = load /\ subs' = subs /\ view' = view /\ load.phase = "serving"
        /\ Handler(c, k)
    BY <1>6 DEF BuildView, nodeVars, Serving
  <2>2. k \in Call /\ k.phase # "answering"
    BY DEF Call, ServerInv
  <2> HIDE DEF k
  <2> QED
    BY <2>1, <2>2, HandlerStep DEF ServerInv
<1>7. ASSUME NEW c \in Client, Swap(c) PROVE ServerInv'
  <2> DEFINE k == [call[c] EXCEPT !.phase = "reporting", !.before = view, !.previous = subs]
  <2>1. /\ load' = load /\ subs' = call[c].asked /\ view' = call[c].asked
        /\ load.phase = "serving" /\ Handler(c, k)
    BY <1>7 DEF Swap, nodeVars, Serving
  <2>2. k \in Call /\ k.phase # "answering" /\ call[c].asked \in SUBSET Author
    BY DEF Call, ServerInv
  <2> HIDE DEF k
  <2> QED
    BY <2>1, <2>2, HandlerStep
<1>8. ASSUME NEW c \in Client, Report(c) PROVE ServerInv'
  <2>1. /\ load' = load /\ subs' = subs /\ view' = view /\ load.phase = "serving"
        /\ Handler(c, NoCall)
    BY <1>8 DEF Report, nodeVars, Serving
  <2>2. NoCall \in Call /\ NoCall.phase # "answering"
    BY NoCallType DEF NoCall
  <2> QED
    BY <2>1, <2>2, HandlerStep DEF ServerInv
<1>9. CASE UNCHANGED <<nodeVars, serverVars>>
  BY <1>9 DEF nodeVars, serverVars, ServerInv
<1> QED
  BY <1>1, <1>2, <1>3, <1>4, <1>5, <1>6, <1>7, <1>8, <1>9 DEF NodeNext

\* ServerInv holds throughout.
LEMMA ServerInvariant == NodeSpec => [](LoadInv /\ ServerInv)
<1>1. NodeInit => ServerInv
  <2> SUFFICES ASSUME NodeInit PROVE ServerInv
    OBVIOUS
  <2>1. NoCall.phase = "idle"
    BY DEF NoCall
  <2>2. \A c \in Client : call[c] = NoCall
    BY DEF NodeInit
  <2> QED
    BY <2>1, <2>2, NoCallType DEF NodeInit, ServerInv
<1> QED
  BY <1>1, ServerStep, LoadInvariant, PTL DEF NodeSpec
-----------------------------------------------------------------------------
\* What a view says, in terms of the claims that stand and the classes they
\* make.
Stand(S) == Standing(ClaimsOf(entities, S), OrderOf(entities, S))
Class(S) == ClassOf(InView(entities, S), On(Stand(S), "equivalence"))
Record(S) == TruthRecords(Class(S), ClaimsOf(entities, S), OrderOf(entities, S))

\* What Build returns, part by part.
LEMMA ViewSays ==
    ASSUME NEW S
    PROVE  /\ View(S).entries = InView(entities, S) /\ DOMAIN Class(S) = InView(entities, S)
           /\ View(S).positions =
                 Positions(OrderOf(entities, S), Published(entities, InView(entities, S)))
           /\ View(S).class = Class(S) /\ View(S).assertions = Record(S)
           /\ View(S).supersedes = Edges(Class(S), On(Stand(S), "supersession"))
           /\ View(S).contradicts =
                 {{e[1], e[2]} : e \in Edges(Class(S), On(Stand(S), "contradiction"))}
           /\ View(S).equivalenceDecls = Declarations(Class(S), On(Stand(S), "equivalence"))
           /\ View(S).supersessionDecls =
                 Declarations(Class(S), BothIn(InView(entities, S), On(Stand(S), "supersession")))
           /\ View(S).contradictionDecls =
                 Declarations(Class(S), BothIn(InView(entities, S), On(Stand(S), "contradiction")))
<1> DEFINE g == entities
           E == InView(g, S)
           o == OrderOf(g, S)
           C == ClaimsOf(g, S)
           standing == Stand(S)
           class == Class(S)
           R == Readings(S, g, o, C, standing, class)
<1>1. View(S) = R
  BY DEF View, Build, Close, ClaimsOf, Stand, Class
<1>2. DOMAIN class = E
  BY DEF ClassOf, Class
<1>3. Record(S) = TruthRecords(class, C, o)
  BY DEF Record
<1> HIDE DEF C, o, E, standing, class
<1>4. /\ R.entries = DOMAIN class /\ R.class = class
      /\ R.positions = Positions(o, Published(g, DOMAIN class))
      /\ R.assertions = TruthRecords(class, C, o)
      /\ R.supersedes = Edges(class, On(standing, "supersession"))
      /\ R.contradicts = {{e[1], e[2]} : e \in Edges(class, On(standing, "contradiction"))}
      /\ R.equivalenceDecls = Declarations(class, On(standing, "equivalence"))
      /\ R.supersessionDecls = Declarations(class, BothIn(DOMAIN class, On(standing, "supersession")))
      /\ R.contradictionDecls = Declarations(class, BothIn(DOMAIN class, On(standing, "contradiction")))
  BY DEF Readings
<1> HIDE DEF R
<1> QED
  BY <1>1, <1>2, <1>3, <1>4 DEF E, o, C, standing, class

\* A claim is filed under the class of an entity it names.
LEMMA FiledUnderClass ==
    ASSUME NEW class, NEW claims, NEW cl \in claims, NEW e \in {cl.a, cl.b} \cap DOMAIN class
    PROVE  Declarations(class, claims)[class[e]] # {}
<1>1. class[e] \in Range(class) /\ class[e] \in {class[x] : x \in {cl.a, cl.b} \cap DOMAIN class}
  BY DEF Range
<1> QED
  BY ZenonT(60), <1>1 DEF Declarations

\* What is filed comes with what backs the claim.
LEMMA FiledWithBacking ==
    ASSUME NEW class, NEW claims, NEW c \in Range(class), NEW x \in Declarations(class, claims)[c]
    PROVE  \E cl \in claims : x.backing = cl.backing
<1>1. PICK cl \in claims : x = [meta |-> cl.meta, a |-> cl.a, b |-> cl.b, backing |-> cl.backing]
  BY DEF Declarations
<1> QED
  BY <1>1

\* A claim that stands has somebody behind it, and nobody who is not
\* subscribed.
LEMMA StandsOnSubscribed ==
    ASSUME NEW S, NEW cl \in Stand(S)
    PROVE  cl.backing # {} /\ \A t \in cl.backing : t.author \in S
<1> DEFINE C == ClaimsOf(entities, S)
           o == OrderOf(entities, S)
<1>1. PICK x \in Gated(C) : backers(x, C, o) # {} /\ cl = Backed(x, backers(x, C, o))
  BY DEF Stand, Standing, Backed
<1>2. x = Claim(entities, x.meta, S) /\ x.prov = subscribedProvenance(entities, x.meta, S)
  BY ClaimParts DEF Gated
<1>3. cl.backing = {t \in x.prov : t.author \in backers(x, C, o)}
  BY <1>1, <1>2 DEF Backed, Claim
<1>4. PICK b \in backers(x, C, o) : TRUE
  BY <1>1
<1>5. \E t \in x.prov : b = t.author
  BY BackersPublished
<1> QED
  BY <1>2, <1>3, <1>5 DEF subscribedProvenance

\* An entity shares its class only if a claim that stands names it.
LEMMA SharedIsDeclared ==
    ASSUME AcceptInv, NEW S, NEW e \in DOMAIN Class(S), NEW x \in DOMAIN Class(S),
           x # e, Class(S)[x] = Class(S)[e]
    PROVE  \E cl \in On(Stand(S), "equivalence") : e \in {cl.a, cl.b}
<1> DEFINE claims == On(Stand(S), "equivalence")
<1>1. ClaimSet(claims)
  BY StandingIsClaimSet DEF Stand
<1>2. \A y \in DOMAIN Class(S) : Class(S)[y] = Name(Unite(claims), y)
  BY DEF Class, ClassOf, Name
<1>3. DOMAIN Class(S) \subseteq Entity
  BY ViewSays DEF InView, AcceptInv, GraphInv, GraphTypeOK
<1> HIDE DEF claims
<1>4. SUFFICES ASSUME \A cl \in claims : e \notin {cl.a, cl.b} PROVE FALSE
  BY DEF claims
<1>5. \A cl \in claims : cl.a \in {e} <=> cl.b \in {e}
  BY <1>4
<1>6. \A y \in Entity : y \in {e} <=> Name(Unite(claims), y) \in {e}
  BY <1>1, <1>5, UniteLinks
<1> QED
  BY <1>2, <1>3, <1>6

\* Where a view tells a subscribed author's block to stand.
LEMMA SubscribedIsPlaced ==
    ASSUME AcceptInv, NEW S, NEW e \in DOMAIN entities, NEW t \in entities[e].authors,
           t.author \in S
    PROVE  blockLabel(View(S), t.block) # Unplaced
<1> DEFINE o == OrderOf(entities, S)
           P == Published(entities, InView(entities, S))
           v == View(S)
<1>1. e \in InView(entities, S)
  BY DEF InView, subscribedProvenance
<1>2. t.block \in P
  BY <1>1 DEF Published
<1>3. IsRight(o) /\ P \subseteq DOMAIN o.pos /\ P \subseteq blocks
  BY OrderOfIsRight, PublishedAreHeld
<1>4. v.positions = Positions(o, P)
  BY ViewSays
<1> HIDE DEF o, P, v
<1>5. DOMAIN v.positions = P /\ v.positions[t.block].height = o.pos[t.block].index
  BY <1>2, <1>4 DEF Positions
<1>6. o.pos[t.block] = Right(t.block) /\ Right(t.block).index \in Nat
  BY <1>2, <1>3, RightStep DEF IsRight, AcceptInv
<1>7. v.positions[t.block].height + 1 # 0
  BY <1>5, <1>6
<1>8. blockLabel(v, t.block).height = v.positions[t.block].height + 1
  BY <1>2, <1>5 DEF blockLabel
<1>9. blockLabel(v, t.block) # Unplaced
  BY <1>7, <1>8 DEF Unplaced
<1> QED
  BY <1>9 DEF v

\* What a view answers of the entities of the graph.
LEMMA ProvenanceIsAttributed ==
    ASSUME AcceptInv, NEW S, NEW e \in DOMAIN entities
    PROVE  LET a == ProvenanceAnswer(View(S), S, e)
           IN  /\ a.inView <=> \E r \in a.records : r.subscribed
               /\ \A r \in a.records : r.subscribed => r.block # Unplaced
<1> DEFINE v == View(S)
           T == entities[e].authors
           row(t) == [author |-> t.author, subscribed |-> t.author \in S,
                      block |-> blockLabel(v, t.block)]
           a == ProvenanceAnswer(v, S, e)
<1>1. e \in v.entries <=> \E t \in T : t.author \in S
  <2>1. v.entries = InView(entities, S)
    BY ViewSays
  <2>2. e \in InView(entities, S) <=> \E t \in entities[e].authors : t.author \in S
    BY DEF InView, subscribedProvenance
  <2> HIDE DEF v, a, row
  <2> QED
    BY <2>1, <2>2
<1>2. \A t \in T : t.author \in S => blockLabel(v, t.block) # Unplaced
  BY SubscribedIsPlaced
<1> HIDE DEF v
<1>3. (a.inView <=> e \in v.entries) /\ a.records = {row(t) : t \in T}
  BY DEF ProvenanceAnswer, Provenance
<1> HIDE DEF a, T
<1>4. \A t : (row(t).subscribed <=> t.author \in S) /\ row(t).block = blockLabel(v, t.block)
  OBVIOUS
<1> HIDE DEF row
<1>5. \A r \in a.records : \E t \in T : r = row(t)
  BY <1>3, Zenon
<1>6. ASSUME NEW r \in a.records, r.subscribed
      PROVE  r.block # Unplaced /\ \E t \in T : t.author \in S
  <2>1. PICK t \in T : r = row(t)
    BY <1>5
  <2>2. t.author \in S
    BY <1>4, <1>6, <2>1, Zenon
  <2> QED
    BY <1>2, <1>4, <2>1, <2>2
<1>7. ASSUME NEW t \in T, t.author \in S
      PROVE  \E r \in a.records : r.subscribed
  <2>1. row(t) \in a.records
    BY <1>3, Zenon
  <2>2. row(t).subscribed
    BY <1>4, <1>7, Zenon
  <2> QED
    BY <2>1, <2>2
<1>8. /\ a.inView <=> \E r \in a.records : r.subscribed
      /\ \A r \in a.records : r.subscribed => r.block # Unplaced
  BY <1>1, <1>3, <1>6, <1>7, Zenon
<1> QED
  BY <1>8 DEF a, v

\* What a view answers of its own entities: nothing is said of one that nobody
\* subscribed has declared.
LEMMA ReadingsAreDeclared ==
    ASSUME AcceptInv, NEW S, NEW e \in View(S).entries
    PROVE  LET v == View(S) IN
           /\ IsSuperseded(v, e) <=> SupersededBy(v, e) # {}
           /\ SupersededBy(v, e) \cup Supersedes(v, e) # {} => v.supersessionDecls[v.class[e]] # {}
           /\ Contradictions(v, e) # {} => v.contradictionDecls[v.class[e]] # {}
           /\ EquivalenceClass(v, e) \ {e} # {} => v.equivalenceDecls[v.class[e]] # {}
           /\ Truth(v, e) # "unasserted" => Assertions(v, e) # {}
<1> DEFINE v == View(S)
           E == InView(entities, S)
           class == Class(S)
           same == On(Stand(S), "equivalence")
           over == On(Stand(S), "supersession")
           against == On(Stand(S), "contradiction")
           records == Record(S)
<1>1. /\ v.entries = E /\ DOMAIN class = E /\ v.class = class /\ v.assertions = records
      /\ v.supersedes = Edges(class, over)
      /\ v.contradicts = {{x[1], x[2]} : x \in Edges(class, against)}
      /\ v.equivalenceDecls = Declarations(class, same)
      /\ v.supersessionDecls = Declarations(class, BothIn(E, over))
      /\ v.contradictionDecls = Declarations(class, BothIn(E, against))
  BY ViewSays
<1>2. \A x \in DOMAIN class :
         x # e /\ class[x] = class[e] => \E cl \in same : e \in {cl.a, cl.b}
  BY <1>1, SharedIsDeclared
<1>3. e \in v.entries
  OBVIOUS
<1> HIDE DEF v, E, class, same, over, against, records
<1>4. e \in DOMAIN class /\ e \in E
  BY <1>1, <1>3
\* An edge joins the classes of two entities of the view, and a claim that
\* joins the class of e to another is filed under it.
<1>5. ASSUME NEW claims, NEW x \in Edges(class, claims)
      PROVE  \E cl \in BothIn(E, claims) :
                /\ x[1] = class[cl.a] /\ x[2] = class[cl.b]
                /\ cl.a \in DOMAIN class /\ cl.b \in DOMAIN class
  <2>1. PICK cl \in BothIn(DOMAIN class, claims) : x = <<class[cl.a], class[cl.b]>>
    BY DEF Edges, Edge
  <2> QED
    BY <1>1, <2>1 DEF BothIn
<1>6. ASSUME NEW claims, NEW x \in Edges(class, claims), class[e] \in {x[1], x[2]}
      PROVE  Declarations(class, BothIn(E, claims))[class[e]] # {}
  <2>1. PICK cl \in BothIn(E, claims) : /\ x[1] = class[cl.a] /\ x[2] = class[cl.b]
                                        /\ cl.a \in DOMAIN class /\ cl.b \in DOMAIN class
    BY <1>5
  <2>2. PICK y \in {cl.a, cl.b} \cap DOMAIN class : class[y] = class[e]
    BY <1>6, <2>1
  <2> QED
    BY <2>2, FiledUnderClass
<1>7. \A C : (\E y \in DOMAIN class : class[y] \in C) <=> MembersOf(class, C) # {}
  BY DEF MembersOf
<1>8. IsSuperseded(v, e) <=> SupersededBy(v, e) # {}
  <2> DEFINE N == Newer(v, {class[e]})
  <2>1. \A c \in N : \E y \in DOMAIN class : class[y] = c
    <3> SUFFICES ASSUME NEW c \in N PROVE \E y \in DOMAIN class : class[y] = c
      OBVIOUS
    <3>1. PICK x \in Edges(class, over) : c = x[1]
      BY <1>1 DEF Newer
    <3> QED
      BY <1>5, <3>1
  <2>2. IsSuperseded(v, e) <=> N # {}
    BY <1>1, <1>3 DEF IsSuperseded
  <2>3. SupersededBy(v, e) = MembersOf(class, N)
    BY <1>1, <1>3 DEF SupersededBy
  <2>4. N # {} <=> MembersOf(class, N) # {}
    BY <1>7, <2>1
  <2> QED
    BY <2>2, <2>3, <2>4
<1>9. ASSUME SupersededBy(v, e) \cup Supersedes(v, e) # {}
      PROVE  v.supersessionDecls[v.class[e]] # {}
  <2>1. PICK x \in Edges(class, over) : class[e] \in {x[1], x[2]}
    <3>1. CASE SupersededBy(v, e) # {}
      <4>1. Newer(v, {class[e]}) # {}
        BY <1>1, <1>3, <3>1 DEF SupersededBy, MembersOf
      <4> QED
        BY <1>1, <4>1 DEF Newer
    <3>2. CASE Supersedes(v, e) # {}
      BY <1>1, <1>3, <3>2 DEF Supersedes, MembersOf
    <3> QED
      BY <1>9, <3>1, <3>2
  <2> QED
    BY <1>1, <1>6, <2>1
<1>10. ASSUME Contradictions(v, e) # {}
       PROVE  v.contradictionDecls[v.class[e]] # {}
  <2>1. PICK P \in v.contradicts : class[e] \in P
    BY <1>1, <1>3, <1>10 DEF Contradictions, MembersOf
  <2>2. PICK x \in Edges(class, against) : class[e] \in {x[1], x[2]}
    BY <1>1, <2>1
  <2> QED
    BY <1>1, <1>6, <2>2
<1>11. ASSUME EquivalenceClass(v, e) \ {e} # {}
       PROVE  v.equivalenceDecls[v.class[e]] # {}
  <2>1. PICK y \in DOMAIN class : y # e /\ class[y] = class[e]
    BY <1>1, <1>3, <1>11 DEF EquivalenceClass, MembersOf
  <2>2. PICK cl \in same : e \in {cl.a, cl.b} \cap DOMAIN class
    BY <1>2, <1>4, <2>1
  <2> QED
    BY <1>1, <2>2, FiledUnderClass
<1>12. ASSUME Truth(v, e) # "unasserted"
       PROVE  Assertions(v, e) # {}
  <2>1. TruthState(records, class[e]) # "unasserted"
    BY <1>1, <1>3, <1>12 DEF Truth
  <2>2. Stances(records, class[e]) # {}
    BY <2>1 DEF TruthState
  <2>3. PICK r \in records : r.class = class[e]
    BY <2>2 DEF Stances, Latest
  <2> QED
    BY <1>1, <1>3, <2>3 DEF Assertions
<1> QED
  BY <1>8, <1>9, <1>10, <1>11, <1>12 DEF v

\* Whatever is declared is backed, by subscribed authors only.
LEMMA DeclarationsAreBacked ==
    ASSUME NEW S, NEW e \in View(S).entries
    PROVE  LET v == View(S)
               c == v.class[e]
           IN  \A x \in v.supersessionDecls[c] \cup v.contradictionDecls[c] \cup v.equivalenceDecls[c] :
                  x.backing # {} /\ \A t \in x.backing : t.author \in S
<1> DEFINE v == View(S)
           c == Class(S)[e]
<1>1. c \in Range(Class(S))
  BY ViewSays DEF Range
<1>2. ASSUME NEW claims \in SUBSET Stand(S), NEW x \in Declarations(Class(S), claims)[c]
      PROVE  x.backing # {} /\ \A t \in x.backing : t.author \in S
  <2>1. PICK cl \in claims : x.backing = cl.backing
    BY <1>1, FiledWithBacking
  <2> QED
    BY <2>1, StandsOnSubscribed
<1>3. \A bond, E : On(Stand(S), bond) \in SUBSET Stand(S) /\ BothIn(E, On(Stand(S), bond)) \in SUBSET Stand(S)
  BY DEF On, BothIn
<1>4. /\ v.class[e] = c
      /\ v.equivalenceDecls = Declarations(Class(S), On(Stand(S), "equivalence"))
      /\ v.supersessionDecls =
            Declarations(Class(S), BothIn(InView(entities, S), On(Stand(S), "supersession")))
      /\ v.contradictionDecls =
            Declarations(Class(S), BothIn(InView(entities, S), On(Stand(S), "contradiction")))
  BY ViewSays
<1> HIDE DEF v, c
<1>5. /\ \A x \in v.supersessionDecls[c] : x.backing # {} /\ \A t \in x.backing : t.author \in S
      /\ \A x \in v.contradictionDecls[c] : x.backing # {} /\ \A t \in x.backing : t.author \in S
      /\ \A x \in v.equivalenceDecls[c] : x.backing # {} /\ \A t \in x.backing : t.author \in S
  BY <1>2, <1>3, <1>4
<1> QED
  BY <1>4, <1>5 DEF v

\* In every state, every answer a handler may give of what the node holds is
\* attributed to authors who were subscribed when it took its snapshot, however
\* subscriptions have changed since (demo/cmd/dialog-mcp: snapshot, tools).
THEOREM AnswersAreAlwaysAttributed == NodeSpec => []AnswersAreAttributed
<1>1. ASSUME LoadInv, ServerInv PROVE AnswersAreAttributed
  <2> SUFFICES ASSUME NEW c \in Client, call[c].phase = "answering",
                      NEW v, v = View(call[c].before)
               PROVE  LET backed(D) == \A x \in D : /\ x.backing # {}
                                                    /\ \A t \in x.backing : t.author \in call[c].previous
                      IN  /\ \A e \in DOMAIN entities :
                                 LET a == ProvenanceAnswer(v, call[c].previous, e) IN
                                 /\ a.inView <=> \E r \in a.records : r.subscribed
                                 /\ \A r \in a.records : r.subscribed => r.block # Unplaced
                          /\ \A e \in v.entries :
                            LET a == TruthAnswer(v, e) IN
                            /\ a.superseded <=> a.supersededBy # {}
                            /\ a.supersededBy \cup a.supersedes # {} => a.supersessionDeclaredBy # {}
                            /\ a.contradicts # {} => a.contradictionDeclaredBy # {}
                            /\ a.equivalents # {} => a.equivalenceDeclaredBy # {}
                            /\ a.truth # "unasserted" => a.assertions # {}
                            /\ backed(a.supersessionDeclaredBy \cup a.contradictionDeclaredBy
                                          \cup a.equivalenceDeclaredBy)
    BY DEF AnswersAreAttributed, Answering
  <2> DEFINE S == call[c].previous
  <2>1. v = View(S)
    BY <1>1 DEF ServerInv
  <2>2. AcceptInv
    BY <1>1, LoadedIsWhole DEF ServerInv
  <2> HIDE DEF S
  <2>3. ASSUME NEW e \in DOMAIN entities
        PROVE  LET a == ProvenanceAnswer(v, S, e) IN
               /\ a.inView <=> \E r \in a.records : r.subscribed
               /\ \A r \in a.records : r.subscribed => r.block # Unplaced
    BY <2>1, <2>2, ProvenanceIsAttributed
  <2>4. ASSUME NEW e \in v.entries
        PROVE  LET a == TruthAnswer(v, e) IN
               /\ a.superseded <=> a.supersededBy # {}
               /\ a.supersededBy \cup a.supersedes # {} => a.supersessionDeclaredBy # {}
               /\ a.contradicts # {} => a.contradictionDeclaredBy # {}
               /\ a.equivalents # {} => a.equivalenceDeclaredBy # {}
               /\ a.truth # "unasserted" => a.assertions # {}
               /\ \A x \in a.supersessionDeclaredBy \cup a.contradictionDeclaredBy
                              \cup a.equivalenceDeclaredBy :
                     x.backing # {} /\ \A t \in x.backing : t.author \in S
    <3> DEFINE a == TruthAnswer(v, e)
               class == v.class[e]
    <3>1. /\ IsSuperseded(v, e) <=> SupersededBy(v, e) # {}
          /\ SupersededBy(v, e) \cup Supersedes(v, e) # {} => v.supersessionDecls[class] # {}
          /\ Contradictions(v, e) # {} => v.contradictionDecls[class] # {}
          /\ EquivalenceClass(v, e) \ {e} # {} => v.equivalenceDecls[class] # {}
          /\ Truth(v, e) # "unasserted" => Assertions(v, e) # {}
      BY <2>1, <2>2, ReadingsAreDeclared
    <3>2. \A x \in v.supersessionDecls[class] \cup v.contradictionDecls[class]
                       \cup v.equivalenceDecls[class] :
             x.backing # {} /\ \A t \in x.backing : t.author \in S
      BY <2>1, DeclarationsAreBacked
    <3> HIDE DEF class
    <3>3. /\ a.truth = Truth(v, e) /\ a.assertions = Assertions(v, e)
          /\ a.superseded <=> IsSuperseded(v, e)
          /\ a.supersededBy = SupersededBy(v, e) /\ a.supersedes = Supersedes(v, e)
          /\ a.supersessionDeclaredBy = v.supersessionDecls[class]
          /\ a.contradicts = Contradictions(v, e)
          /\ a.contradictionDeclaredBy = v.contradictionDecls[class]
          /\ a.equivalents = EquivalenceClass(v, e) \ {e}
          /\ a.equivalenceDeclaredBy = v.equivalenceDecls[class]
      BY DEF TruthAnswer, class
    <3> HIDE DEF a
    <3>4. /\ a.superseded <=> a.supersededBy # {}
          /\ a.supersededBy \cup a.supersedes # {} => a.supersessionDeclaredBy # {}
          /\ a.contradicts # {} => a.contradictionDeclaredBy # {}
          /\ a.equivalents # {} => a.equivalenceDeclaredBy # {}
          /\ a.truth # "unasserted" => a.assertions # {}
          /\ \A x \in a.supersessionDeclaredBy \cup a.contradictionDeclaredBy
                         \cup a.equivalenceDeclaredBy :
                x.backing # {} /\ \A t \in x.backing : t.author \in S
      BY <3>1, <3>2, <3>3
    <3> QED
      BY <3>4 DEF a
  <2> QED
    BY <2>3, <2>4 DEF S
<1> QED
  BY <1>1, ServerInvariant, PTL
-----------------------------------------------------------------------------
\* A view does not change while the node does not.
LEMMA ViewStays ==
    ASSUME UNCHANGED <<memVars, graphVars>>
    PROVE  \A S : View(S)' = View(S) /\ InView(entities, S)' = InView(entities, S)
<1>1. ASSUME NEW S
      PROVE  View(S)' = View(S) /\ InView(entities, S)' = InView(entities, S)
  <2>1. OrderOf(entities, S)' = OrderOf(entities, S)
    BY DEF OrderOf, Published, InView, subscribedProvenance, newBlockOrder, PlaceAll, of, Along,
           PathTo, anchor, rotationBehind, Doubts, ClaimedBy, Successors, Ambiguous,
           BlocksReferencing, Refs, IsRotation, IsGenesis, memVars, graphVars
  <2>2. read(entities, InView(entities, S), S)' = read(entities, InView(entities, S), S)
    BY DEF read, InView, subscribedProvenance, Claim, graphVars
  <2> QED
    BY <2>1, <2>2 DEF View, Build, Close, InView, subscribedProvenance, graphVars
<1> QED
  BY <1>1

\* The handlers that have replaced a view and not reported it, and what the
\* views they have set and replaced hold, in sum: M gives the part of a view
\* that is counted.
Row(c, X) == {c} \X X
ReportingIn(calls) == {c \in Client : calls[c].phase = "reporting"}
AskedIn(calls, M) == UNION {Row(c, M[calls[c].asked]) : c \in ReportingIn(calls)}
ReplacedIn(calls, M) == UNION {Row(c, M[calls[c].before]) : c \in ReportingIn(calls)}

\* A part of a view that can be counted.
Countable(M, D) == IsFiniteSet(D) /\ \A S \in SUBSET Author : M[S] \in SUBSET D

\* A row more in a finite table.
LEMMA OneRowMore ==
    ASSUME NEW c, NEW P, IsFiniteSet(P), NEW X, IsFiniteSet(X), P \cap Row(c, X) = {}
    PROVE  Cardinality(P \cup Row(c, X)) = Cardinality(P) + Cardinality(X)
<1>1. IsFiniteSet({c}) /\ Cardinality({c}) = 1
  BY FS_Singleton
<1>2. IsFiniteSet(Row(c, X)) /\ Cardinality(Row(c, X)) = 1 * Cardinality(X)
  BY <1>1, FS_Product DEF Row
<1>4. Cardinality(P \cap Row(c, X)) = 0
  BY FS_EmptySet
<1>5. Cardinality(X) \in Nat /\ Cardinality(P) \in Nat
  BY FS_CardinalityType
<1>6. /\ IsFiniteSet(P \cup Row(c, X))
      /\ Cardinality(P \cup Row(c, X)) =
            Cardinality(P) + Cardinality(Row(c, X)) - Cardinality(P \cap Row(c, X))
  BY <1>2, FS_Union
<1> QED
  BY <1>2, <1>4, <1>5, <1>6

\* One handler more that has to report.
LEMMA OneMoreReports ==
    ASSUME NEW k \in [Client -> Call], NEW l \in [Client -> Call], NEW c \in Client,
           \A x \in Client : x # c => l[x] = k[x],
           k[c].phase # "reporting", l[c].phase = "reporting",
           IsFiniteSet(ReportingIn(k)), NEW M, NEW D, Countable(M, D)
    PROVE  /\ Cardinality(AskedIn(k, M)) \in Nat /\ Cardinality(ReplacedIn(k, M)) \in Nat
           /\ Cardinality(AskedIn(l, M)) = Cardinality(AskedIn(k, M)) + Cardinality(M[l[c].asked])
           /\ Cardinality(ReplacedIn(l, M)) =
                 Cardinality(ReplacedIn(k, M)) + Cardinality(M[l[c].before])
<1> DEFINE R == ReportingIn(k)
           T == UNION {Row(x, M[k[x].asked]) : x \in R}
           U == UNION {Row(x, M[k[x].before]) : x \in R}
<1>1. ReportingIn(l) = R \cup {c} /\ c \notin R /\ R \subseteq Client
  BY DEF ReportingIn
<1>2. \A x \in R : l[x] = k[x]
  BY <1>1
<1>3. \A x \in Client : /\ k[x].asked \in SUBSET Author /\ k[x].before \in SUBSET Author
                        /\ l[x].asked \in SUBSET Author /\ l[x].before \in SUBSET Author
  BY DEF Call
<1>4. \A x \in Client : M[k[x].asked] \in SUBSET D /\ M[k[x].before] \in SUBSET D
  BY <1>3 DEF Countable
<1>5. M[l[c].asked] \in SUBSET D /\ M[l[c].before] \in SUBSET D /\ IsFiniteSet(D)
  BY <1>3 DEF Countable
<1>6. IsFiniteSet(M[l[c].asked]) /\ IsFiniteSet(M[l[c].before])
  BY <1>5, FS_Subset
<1>7. AskedIn(k, M) = T /\ ReplacedIn(k, M) = U
  BY DEF AskedIn, ReplacedIn
<1>8. /\ AskedIn(l, M) = T \cup Row(c, M[l[c].asked])
      /\ ReplacedIn(l, M) = U \cup Row(c, M[l[c].before])
  <2>1. AskedIn(l, M) = UNION {Row(x, M[l[x].asked]) : x \in R \cup {c}}
    BY <1>1 DEF AskedIn
  <2>2. ReplacedIn(l, M) = UNION {Row(x, M[l[x].before]) : x \in R \cup {c}}
    BY <1>1 DEF ReplacedIn
  <2> HIDE DEF R
  <2> QED
    BY <1>2, <2>1, <2>2
<1>f. IsFiniteSet(R)
  OBVIOUS
<1> HIDE DEF R
<1>9. T \in SUBSET (R \X D) /\ U \in SUBSET (R \X D)
  BY <1>1, <1>4 DEF Row
<1>10. IsFiniteSet(T) /\ IsFiniteSet(U)
  <2>1. IsFiniteSet(R \X D)
    BY <1>5, <1>f, FS_Product
  <2> QED
    BY <1>9, <2>1, FS_Subset
<1>11. (\A p \in T : p[1] # c) /\ (\A p \in U : p[1] # c)
  BY <1>1, <1>9
<1> HIDE DEF T, U
<1>12. /\ Cardinality(T \cup Row(c, M[l[c].asked])) = Cardinality(T) + Cardinality(M[l[c].asked])
       /\ Cardinality(U \cup Row(c, M[l[c].before])) = Cardinality(U) + Cardinality(M[l[c].before])
  <2>1. /\ T \cap Row(c, M[l[c].asked]) = {}
        /\ U \cap Row(c, M[l[c].before]) = {}
    BY <1>11 DEF Row
  <2> QED
    BY <1>6, <1>10, <2>1, OneRowMore
<1>13. Cardinality(T) \in Nat /\ Cardinality(U) \in Nat
  BY <1>10, FS_CardinalityType
<1> QED
  BY <1>7, <1>8, <1>12, <1>13

\* Nobody is left to report.
LEMMA NobodyReports ==
    ASSUME NEW k, \A c \in Client : k[c].phase # "reporting"
    PROVE  /\ ReportingIn(k) = {} /\ IsFiniteSet(ReportingIn(k))
           /\ \A M : Cardinality(AskedIn(k, M)) = 0 /\ Cardinality(ReplacedIn(k, M)) = 0
<1>1. ReportingIn(k) = {}
  BY DEF ReportingIn
<1>2. \A M : AskedIn(k, M) = {} /\ ReplacedIn(k, M) = {}
  BY <1>1 DEF AskedIn, ReplacedIn
<1> QED
  BY <1>1, <1>2, FS_EmptySet

\* Who does not report before or after changes no sum.
LEMMA SameReports ==
    ASSUME NEW k \in [Client -> Call], NEW l \in [Client -> Call], NEW c \in Client,
           \A x \in Client : x # c => l[x] = k[x],
           k[c].phase # "reporting", l[c].phase # "reporting"
    PROVE  /\ ReportingIn(l) = ReportingIn(k)
           /\ \A M : AskedIn(l, M) = AskedIn(k, M) /\ ReplacedIn(l, M) = ReplacedIn(k, M)
<1>1. ReportingIn(l) = ReportingIn(k) /\ \A x \in ReportingIn(k) : l[x] = k[x]
  BY DEF ReportingIn
<1> QED
  BY <1>1 DEF AskedIn, ReplacedIn
-----------------------------------------------------------------------------
\* The entries told of after each report, starting from n.
Tells(f, rs, n) == f = [i \in 0..Len(rs) |-> IF i = 0 THEN n ELSE f[i - 1] + rs[i].delta]

\* They are told in one way only.
LEMMA ToldOnce ==
    ASSUME NEW T, NEW rs \in Seq(T), NEW n, NEW f, Tells(f, rs, n), NEW g, Tells(g, rs, n)
    PROVE  f[Len(rs)] = g[Len(rs)]
<1> DEFINE L == Len(rs)
           A == {i \in 0..L : f[i] = g[i]}
<1>0. L \in Nat /\ L \in 0..L
  OBVIOUS
<1>1. \A i \in 0..L : /\ f[i] = IF i = 0 THEN n ELSE f[i - 1] + rs[i].delta
                      /\ g[i] = IF i = 0 THEN n ELSE g[i - 1] + rs[i].delta
  BY DEF Tells
<1>2. 0 \in A
  BY <1>0, <1>1
<1>3. \A i \in 1..L : i - 1 \in A => i \in A
  BY <1>0, <1>1
<1> HIDE DEF L
<1>4. 0..L \subseteq A
  <2> HIDE DEF A
  <2> QED
    BY <1>0, <1>2, <1>3, InductionTo
<1> QED
  BY <1>0, <1>4 DEF L

\* One report more is told of.
LEMMA ToldOfOneMore ==
    ASSUME NEW T, NEW rs \in Seq(T), NEW n, NEW f, Tells(f, rs, n), NEW r \in T
    PROVE  \E g : /\ Tells(g, Append(rs, r), n)
                  /\ g[Len(Append(rs, r))] = f[Len(rs)] + r.delta
<1> DEFINE L == Len(rs)
           s == Append(rs, r)
           g == [i \in 0..(L + 1) |-> IF i <= L THEN f[i] ELSE f[L] + r.delta]
<1>0. L \in Nat /\ Len(s) = L + 1 /\ s[L + 1] = r /\ \A i \in 1..L : s[i] = rs[i]
  OBVIOUS
<1>1. \A i \in 0..L : f[i] = IF i = 0 THEN n ELSE f[i - 1] + rs[i].delta
  BY DEF Tells
<1> HIDE DEF L, s
<1>2. ASSUME NEW i \in 0..(L + 1)
      PROVE  g[i] = IF i = 0 THEN n ELSE g[i - 1] + s[i].delta
  <2>1. CASE i = 0
    BY <1>0, <1>1, <2>1
  <2>2. CASE i \in 1..L
    <3>1. g[i] = f[i] /\ g[i - 1] = f[i - 1] /\ s[i] = rs[i] /\ i # 0
      BY <1>0, <2>2
    <3> QED
      BY <1>0, <1>1, <2>2, <3>1
  <2>3. CASE i = L + 1
    <3>1. g[i] = f[L] + r.delta /\ g[i - 1] = f[L] /\ s[i] = r /\ i # 0
      BY <1>0, <2>3
    <3> QED
      BY <3>1
  <2> QED
    BY <1>0, <2>1, <2>2, <2>3
<1>3. g = [i \in 0..(L + 1) |-> g[i]]
  OBVIOUS
<1>4. g[L + 1] = f[L] + r.delta
  BY <1>0
<1> HIDE DEF g
<1>5. Tells(g, s, n)
  BY <1>0, <1>2, <1>3 DEF Tells
<1> QED
  BY <1>0, <1>4, <1>5 DEF s, L

\* How often a set in a report has named k.
Times(k, rs, part) == Cardinality({i \in DOMAIN rs : k \in rs[i][part]})
Once(k, X) == IF k \in X THEN 1 ELSE 0

\* How often is a number, for what has been told is a sequence.
LEMMA TimesAreNumbers ==
    ASSUME NEW T, NEW rs \in Seq(T)
    PROVE  \A k, part : Times(k, rs, part) \in Nat
<1>1. DOMAIN rs = 1..Len(rs) /\ Len(rs) \in Nat
  OBVIOUS
<1>2. IsFiniteSet(DOMAIN rs)
  BY <1>1, CountTo
<1>3. ASSUME NEW k, NEW part PROVE Times(k, rs, part) \in Nat
  <2>1. IsFiniteSet({i \in DOMAIN rs : k \in rs[i][part]})
    BY <1>2, FS_Subset
  <2> QED
    BY <2>1, FS_CardinalityType DEF Times
<1> QED
  BY <1>3

\* One report more names it once more, or not at all.
LEMMA TimesGrow ==
    ASSUME NEW T, NEW rs \in Seq(T), NEW r \in T, NEW k, NEW part
    PROVE  /\ Times(k, rs, part) \in Nat
           /\ Times(k, Append(rs, r), part) = Times(k, rs, part) + Once(k, r[part])
<1> DEFINE L == Len(rs)
           s == Append(rs, r)
           A == {i \in DOMAIN rs : k \in rs[i][part]}
           B == {i \in DOMAIN s : k \in s[i][part]}
<1>0. /\ L \in Nat /\ DOMAIN rs = 1..L /\ DOMAIN s = 1..(L + 1) /\ s[L + 1] = r
      /\ \A i \in 1..L : s[i] = rs[i]
  OBVIOUS
<1> HIDE DEF L, s
<1>1. IsFiniteSet(1..L) /\ A \in SUBSET (1..L)
  BY <1>0, CountTo
<1>2. IsFiniteSet(A)
  BY <1>1, FS_Subset
<1>3. L + 1 \notin A /\ B = IF k \in r[part] THEN A \cup {L + 1} ELSE A
  BY <1>0
<1>4. Times(k, rs, part) = Cardinality(A) /\ Times(k, s, part) = Cardinality(B)
  BY DEF Times
<1> HIDE DEF A, B
<1>5. Cardinality(A) \in Nat /\ Cardinality(A \cup {L + 1}) = Cardinality(A) + 1
  BY <1>2, <1>3, FS_AddElement, FS_CardinalityType
<1> QED
  BY <1>3, <1>4, <1>5 DEF Once, s
-----------------------------------------------------------------------------
\* What is counted of a view: its entries, and one conflict.
Entered == [S \in SUBSET Author |-> InView(entities, S)]
Has(k) == [S \in SUBSET Author |-> {k} \cap Keys(View(S))]

\* What has been told since the view for first, and what the handlers have yet
\* to tell, is what tells the view for now from it.
EntriesTold(rs, calls, M, first, now) ==
    \E f : /\ Tells(f, rs, Cardinality(M[first])) /\ f[Len(rs)] \in Int
           /\ f[Len(rs)] + Cardinality(AskedIn(calls, M))
                 = Cardinality(M[now]) + Cardinality(ReplacedIn(calls, M))
ConflictTold(k, rs, calls, M, first, now) ==
    Cardinality(M[first]) + Times(k, rs, "appeared") + Cardinality(AskedIn(calls, M))
        = Cardinality(M[now]) + Times(k, rs, "disappeared") + Cardinality(ReplacedIn(calls, M))

ReportInv ==
    /\ load.phase # "serving" => reports = <<>>
    /\ load.phase = "serving" =>
          /\ reports \in Seq(Range(reports))
          /\ IsFiniteSet(ReportingIn(call))
          /\ EntriesTold(reports, call, Entered, Authors, view)
          /\ \A k : ConflictTold(k, reports, call, Has(k), Authors, view)

\* A view has a conflict once or not at all.
LEMMA HasIsCountable ==
    ASSUME NEW k
    PROVE  /\ Countable(Has(k), {k})
           /\ \A S \in SUBSET Author :
                 Cardinality(Has(k)[S]) = Once(k, Keys(View(S)))
<1>1. IsFiniteSet({k})
  BY FS_Singleton
<1>2. \A S \in SUBSET Author : Has(k)[S] = IF k \in Keys(View(S)) THEN {k} ELSE {}
  BY DEF Has
<1>3. Cardinality({k}) = 1 /\ Cardinality({}) = 0
  BY FS_Singleton, FS_EmptySet
<1>4. Countable(Has(k), {k})
  BY <1>1, <1>2 DEF Countable
<1> QED
  BY <1>2, <1>3, <1>4 DEF Once

\* What is in a view are entities of the graph.
LEMMA EnteredIsCountable ==
    ASSUME AcceptInv
    PROVE  Countable(Entered, DOMAIN entities)
<1>1. IsFiniteSet(DOMAIN entities)
  BY EntitiesAreFinite
<1>2. \A S \in SUBSET Author : Entered[S] \in SUBSET DOMAIN entities
  BY DEF Entered, InView
<1> QED
  BY <1>1, <1>2 DEF Countable

\* The parts of a view that can be counted have a number.
LEMMA CountsAreNumbers ==
    ASSUME NEW M, NEW D, Countable(M, D), NEW S \in SUBSET Author
    PROVE  Cardinality(M[S]) \in Nat
<1>1. M[S] \in SUBSET D /\ IsFiniteSet(D)
  BY DEF Countable
<1>2. IsFiniteSet(M[S])
  BY <1>1, FS_Subset
<1> QED
  BY <1>2, FS_CardinalityType

\* A handler replaces the view: it has yet to tell what it changed.
LEMMA SwapKeepsSums ==
    ASSUME NEW k \in [Client -> Call], NEW l \in [Client -> Call], NEW c \in Client,
           \A x \in Client : x # c => l[x] = k[x],
           k[c].phase # "reporting", l[c].phase = "reporting",
           IsFiniteSet(ReportingIn(k)), NEW M, NEW D, Countable(M, D),
           NEW rs, NEW first, NEW key,
           Times(key, rs, "appeared") \in Nat, Times(key, rs, "disappeared") \in Nat,
           first \in SUBSET Author
    PROVE  /\ EntriesTold(rs, k, M, first, l[c].before) => EntriesTold(rs, l, M, first, l[c].asked)
           /\ ConflictTold(key, rs, k, M, first, l[c].before)
                 => ConflictTold(key, rs, l, M, first, l[c].asked)
<1>1. l[c].asked \in SUBSET Author /\ l[c].before \in SUBSET Author
  BY DEF Call
<1> DEFINE asked == Cardinality(M[l[c].asked])
           before == Cardinality(M[l[c].before])
           a == Cardinality(AskedIn(k, M))
           b == Cardinality(ReplacedIn(k, M))
<1>2. asked \in Nat /\ before \in Nat /\ Cardinality(M[first]) \in Nat
  BY <1>1, CountsAreNumbers
<1>3. /\ a \in Nat /\ b \in Nat
      /\ Cardinality(AskedIn(l, M)) = a + asked /\ Cardinality(ReplacedIn(l, M)) = b + before
  BY OneMoreReports
<1>4. ASSUME EntriesTold(rs, k, M, first, l[c].before)
      PROVE  EntriesTold(rs, l, M, first, l[c].asked)
  <2>1. PICK f : /\ Tells(f, rs, Cardinality(M[first])) /\ f[Len(rs)] \in Int
                 /\ f[Len(rs)] + a = before + b
    BY <1>4 DEF EntriesTold
  <2> HIDE DEF asked, before, a, b
  <2>2. f[Len(rs)] + (a + asked) = asked + (b + before)
    BY <1>2, <1>3, <2>1
  <2> QED
    BY <1>3, <2>1, <2>2 DEF EntriesTold, asked, before, a, b
<1>5. ASSUME ConflictTold(key, rs, k, M, first, l[c].before)
      PROVE  ConflictTold(key, rs, l, M, first, l[c].asked)
  <2> DEFINE n == Cardinality(M[first])
             p == Times(key, rs, "appeared")
             q == Times(key, rs, "disappeared")
  <2>1. n + p + a = before + q + b
    BY <1>5 DEF ConflictTold
  <2>2. n \in Nat /\ p \in Nat /\ q \in Nat
    BY <1>2
  <2> HIDE DEF asked, before, a, b, n, p, q
  <2>3. n + p + (a + asked) = asked + q + (b + before)
    BY <1>2, <1>3, <2>1, <2>2
  <2> QED
    BY <1>3, <2>3 DEF ConflictTold, asked, before, a, b, n, p, q
<1> QED
  BY <1>4, <1>5

\* A handler tells what it changed.
LEMMA ReportKeepsSums ==
    ASSUME NEW k \in [Client -> Call], NEW l \in [Client -> Call], NEW c \in Client,
           \A x \in Client : x # c => k[x] = l[x],
           k[c].phase = "reporting", l[c].phase # "reporting",
           IsFiniteSet(ReportingIn(l)), NEW M, NEW D, Countable(M, D),
           NEW T, NEW rs \in Seq(T), NEW r \in T,
           NEW first \in SUBSET Author, NEW now \in SUBSET Author, NEW key
    PROVE  /\ r.delta = Cardinality(M[k[c].asked]) - Cardinality(M[k[c].before])
                 => (EntriesTold(rs, k, M, first, now) => EntriesTold(Append(rs, r), l, M, first, now))
           /\ Once(key, r.appeared) + Cardinality(M[k[c].before])
                    = Once(key, r.disappeared) + Cardinality(M[k[c].asked])
                 => (ConflictTold(key, rs, k, M, first, now)
                        => ConflictTold(key, Append(rs, r), l, M, first, now))
<1>1. k[c].asked \in SUBSET Author /\ k[c].before \in SUBSET Author
  BY DEF Call
<1> DEFINE asked == Cardinality(M[k[c].asked])
           before == Cardinality(M[k[c].before])
           a == Cardinality(AskedIn(l, M))
           b == Cardinality(ReplacedIn(l, M))
           here == Cardinality(M[now])
           s == Append(rs, r)
<1>2. asked \in Nat /\ before \in Nat /\ Cardinality(M[first]) \in Nat /\ here \in Nat
  BY <1>1, CountsAreNumbers
<1>3. /\ a \in Nat /\ b \in Nat
      /\ Cardinality(AskedIn(k, M)) = a + asked /\ Cardinality(ReplacedIn(k, M)) = b + before
  BY OneMoreReports
<1>4. ASSUME EntriesTold(rs, k, M, first, now), r.delta = asked - before
      PROVE  EntriesTold(s, l, M, first, now)
  <2>1. PICK f : /\ Tells(f, rs, Cardinality(M[first])) /\ f[Len(rs)] \in Int
                 /\ f[Len(rs)] + (a + asked) = here + (b + before)
    BY <1>3, <1>4 DEF EntriesTold
  <2>2. PICK g : /\ Tells(g, s, Cardinality(M[first]))
                 /\ g[Len(s)] = f[Len(rs)] + r.delta
    BY <2>1, ToldOfOneMore
  <2> DEFINE x == f[Len(rs)]
             y == g[Len(s)]
  <2>3. y = x + (asked - before) /\ x \in Int /\ x + (a + asked) = here + (b + before)
    BY <1>4, <2>1, <2>2
  <2> HIDE DEF asked, before, a, b, here, s, x, y
  <2>4. y \in Int /\ y + a = here + b
    BY <1>2, <1>3, <2>3
  <2> QED
    BY <2>2, <2>4 DEF y,  EntriesTold, a, b, here
<1>5. ASSUME ConflictTold(key, rs, k, M, first, now),
             Once(key, r.appeared) + before = Once(key, r.disappeared) + asked
      PROVE  ConflictTold(key, s, l, M, first, now)
  <2> DEFINE n == Cardinality(M[first])
             p == Times(key, rs, "appeared")
             q == Times(key, rs, "disappeared")
             u == Once(key, r.appeared)
             w == Once(key, r.disappeared)
  <2>1. n + p + (a + asked) = here + q + (b + before)
    BY <1>3, <1>5 DEF ConflictTold
  <2>2. /\ p \in Nat /\ Times(key, s, "appeared") = p + u
        /\ q \in Nat /\ Times(key, s, "disappeared") = q + w
    BY TimesGrow
  <2>3. u \in Nat /\ w \in Nat /\ n \in Nat /\ u + before = w + asked
    BY <1>2, <1>5 DEF Once
  <2> HIDE DEF asked, before, a, b, here, s, n, p, q, u, w
  <2>4. n + (p + u) + a = here + (q + w) + b
    BY <1>2, <1>3, <2>1, <2>2, <2>3
  <2> QED
    BY <2>2, <2>4 DEF ConflictTold, a, b, here, n
<1> QED
  BY <1>4, <1>5

\* While the node does not change, neither does what there is to count.
LEMMA SumsStay ==
    ASSUME UNCHANGED nodeVars
    PROVE  /\ load' = load /\ Authors' = Authors /\ Entered' = Entered
           /\ \A k : Has(k)' = Has(k)
<1>1. UNCHANGED <<memVars, graphVars>> /\ load' = load /\ dir' = dir
  BY DEF nodeVars
<1>2. \A S : View(S)' = View(S) /\ InView(entities, S)' = InView(entities, S)
  BY <1>1, ViewStays
<1>3. Authors' = Authors
  BY <1>1 DEF Authors
<1>4. Entered' = Entered
  BY <1>2 DEF Entered
<1>5. ASSUME NEW k PROVE Has(k)' = Has(k)
  BY <1>2 DEF Has
<1> QED
  BY <1>1, <1>3, <1>4, <1>5

\* A server starts with nothing to tell.
LEMMA NewServerReports ==
    ASSUME LoadInv, ServerInv, ReportInv, NewServer
    PROVE  ReportInv'
<1>1. /\ load.phase = "validate" /\ load'.phase = "serving"
      /\ view' = Authors /\ call' = call /\ reports' = reports /\ dir' = dir
  BY DEF NewServer, Goto
<1>2. reports' = <<>> /\ Authors' = Authors /\ Authors \in SUBSET Author
  BY <1>1, AuthorsType DEF ReportInv, Authors
<1>3. \A c \in Client : call'[c].phase # "reporting"
  BY <1>1 DEF ServerInv
<1>4. /\ IsFiniteSet(ReportingIn(call'))
      /\ \A M : Cardinality(AskedIn(call', M)) = 0 /\ Cardinality(ReplacedIn(call', M)) = 0
  BY <1>3, NobodyReports
<1>5. <<>> \in Seq(Range(<<>>)) /\ Len(<<>>) = 0 /\ DOMAIN <<>> = {}
  BY EmptySeq
<1>6. ASSUME NEW M, Cardinality(M[Authors]) \in Nat
      PROVE  EntriesTold(<<>>, call', M, Authors, Authors)
  <2> DEFINE n == Cardinality(M[Authors])
             f == [i \in 0..0 |-> n]
  <2>1. \A i \in 0..0 : i = 0
    OBVIOUS
  <2> HIDE DEF n
  <2>2. f = [i \in 0..0 |-> IF i = 0 THEN n ELSE f[i - 1] + <<>>[i].delta]
    BY <2>1
  <2>3. f[0] = n
    OBVIOUS
  <2> HIDE DEF f
  <2>4. Tells(f, <<>>, n)
    BY <1>5, <2>2 DEF Tells
  <2>5. f[Len(<<>>)] = n /\ n \in Nat
    BY <1>5, <1>6, <2>3 DEF n
  <2>6. f[Len(<<>>)] + 0 = n + 0 /\ f[Len(<<>>)] \in Int
    BY <2>5
  <2> QED
    BY <1>4, <2>4, <2>6 DEF EntriesTold, n
<1>7. ASSUME NEW M, NEW k PROVE ConflictTold(k, <<>>, call', M, Authors, Authors)
  <2>1. \A part : {i \in DOMAIN <<>> : k \in <<>>[i][part]} = {}
    BY <1>5
  <2>2. Times(k, <<>>, "appeared") = 0 /\ Times(k, <<>>, "disappeared") = 0
    BY <2>1, FS_EmptySet DEF Times
  <2> QED
    BY <1>4, <2>2 DEF ConflictTold
<1>8. EntriesTold(<<>>, call', Entered', Authors, Authors)
  <2>1. LoadInv' /\ AcceptInv'
    <3>1. LoadInv'
      BY NewServerStep
    <3>2. (LoadInv /\ load.phase = "serving" => AcceptInv)'
      BY LoadedIsWhole, PTL
    <3> QED
      BY <1>1, <3>1, <3>2
  <2>2. (AcceptInv => Countable(Entered, DOMAIN entities))'
    BY EnteredIsCountable, PTL
  <2>3. Cardinality(Entered'[Authors]) \in Nat
    BY <1>2, <2>1, <2>2, CountsAreNumbers
  <2> QED
    BY <1>6, <2>3
<1>9. \A k : ConflictTold(k, <<>>, call', Has(k)', Authors, Authors)
  BY <1>7
<1> QED
  BY <1>1, <1>2, <1>4, <1>5, <1>8, <1>9 DEF ReportInv

\* What was unsaid of the view stays unsaid where no handler swaps or reports.
LEMMA QuietReports ==
    ASSUME ServerInv, ReportInv, UNCHANGED <<nodeVars, view, reports>>, load.phase = "serving",
           NEW c \in Client, call' \in [Client -> Call],
           \A x \in Client : x # c => call'[x] = call[x],
           call[c].phase # "reporting", call'[c].phase # "reporting"
    PROVE  ReportInv'
<1>1. /\ load' = load /\ Authors' = Authors /\ Entered' = Entered /\ view' = view
      /\ reports' = reports /\ \A k : Has(k)' = Has(k)
  BY SumsStay
<1>2. /\ ReportingIn(call') = ReportingIn(call)
      /\ \A M : AskedIn(call', M) = AskedIn(call, M) /\ ReplacedIn(call', M) = ReplacedIn(call, M)
  BY SameReports DEF ServerInv
<1>3. EntriesTold(reports', call', Entered', Authors', view')
  BY <1>1, <1>2 DEF ReportInv, EntriesTold
<1>4. ASSUME NEW k PROVE ConflictTold(k, reports', call', Has(k)', Authors', view')
  <2>1. ConflictTold(k, reports, call, Has(k), Authors, view)
    BY DEF ReportInv
  <2> QED
    BY <1>1, <1>2, <2>1 DEF ConflictTold
<1> QED
  BY <1>1, <1>2, <1>3, <1>4 DEF ReportInv

\* A handler replaces the view.
LEMMA SwapReports ==
    ASSUME LoadInv, ServerInv, ReportInv, NEW c \in Client, Swap(c)
    PROVE  ReportInv'
<1>1. /\ load.phase = "serving" /\ UNCHANGED nodeVars /\ reports' = reports
      /\ call[c].phase = "swapping" /\ view' = call[c].asked
      /\ call' = [call EXCEPT ![c] = [call[c] EXCEPT !.phase = "reporting", !.before = view, !.previous = subs]]
  BY DEF Swap, Serving, Handler
<1>2. /\ load' = load /\ Authors' = Authors /\ Entered' = Entered /\ \A k : Has(k)' = Has(k)
  BY <1>1, SumsStay
<1>3. /\ call \in [Client -> Call] /\ call' \in [Client -> Call]
      /\ \A x \in Client : x # c => call'[x] = call[x]
      /\ call'[c].phase = "reporting" /\ call'[c].before = view /\ call'[c].asked = view'
  BY ZenonT(60), <1>1 DEF ServerInv, Call
<1>4. AcceptInv /\ Authors \in SUBSET Author
  BY <1>1, LoadedIsWhole, AuthorsType
<1>5. IsFiniteSet(ReportingIn(call)) /\ IsFiniteSet(ReportingIn(call'))
  <2>1. IsFiniteSet(ReportingIn(call))
    BY <1>1 DEF ReportInv
  <2>2. ReportingIn(call') = ReportingIn(call) \cup {c}
    BY <1>3 DEF ReportingIn
  <2> QED
    BY <2>1, <2>2, FS_AddElement
<1>6. reports \in Seq(Range(reports))
  BY <1>1 DEF ReportInv
<1>7. \A k : Times(k, reports, "appeared") \in Nat /\ Times(k, reports, "disappeared") \in Nat
  BY <1>6, TimesAreNumbers
<1>10. call[c].phase # "reporting"
  BY <1>1
<1>8. EntriesTold(reports', call', Entered', Authors', view')
  <2>1. EntriesTold(reports, call, Entered, Authors, view)
    BY <1>1 DEF ReportInv
  <2>2. Countable(Entered, DOMAIN entities)
    BY <1>4, EnteredIsCountable
  <2>3. EntriesTold(reports, call, Entered, Authors, call'[c].before)
    BY <1>3, <2>1
  <2>4. EntriesTold(reports, call', Entered, Authors, call'[c].asked)
    BY ONLY <1>3, <1>4, <1>5, <1>7, <1>10, <2>2, <2>3, c \in Client, SwapKeepsSums
  <2>5. EntriesTold(reports, call', Entered, Authors, view')
    BY <1>3, <2>4
  <2> QED
    BY <1>1, <1>2, <2>5
<1>9. ASSUME NEW k PROVE ConflictTold(k, reports', call', Has(k)', Authors', view')
  <2>1. ConflictTold(k, reports, call, Has(k), Authors, view)
    BY <1>1 DEF ReportInv
  <2>2. Countable(Has(k), {k})
    BY HasIsCountable
  <2>3. ConflictTold(k, reports, call, Has(k), Authors, call'[c].before)
    BY <1>3, <2>1
  <2>4. ConflictTold(k, reports, call', Has(k), Authors, call'[c].asked)
    BY ONLY <1>3, <1>4, <1>5, <1>7, <1>10, <2>2, <2>3, c \in Client, SwapKeepsSums
  <2>5. ConflictTold(k, reports, call', Has(k), Authors, view')
    BY <1>3, <2>4
  <2> QED
    BY <1>1, <1>2, <2>5
<1> QED
  BY <1>1, <1>2, <1>5, <1>6, <1>8, <1>9 DEF ReportInv

\* A handler reports the change it made.
LEMMA ReportReports ==
    ASSUME LoadInv, ServerInv, ReportInv, NEW c \in Client, Report(c)
    PROVE  ReportInv'
<1> DEFINE asked == call[c].asked
           before == call[c].before
<1>1. /\ load.phase = "serving" /\ UNCHANGED nodeVars /\ view' = view
      /\ call[c].phase = "reporting" /\ call' = [call EXCEPT ![c] = NoCall]
      /\ \E r \in Reported(before, asked) : reports' = Append(reports, r)
  BY DEF Report, Serving, Handler
<1>2. /\ load' = load /\ Authors' = Authors /\ Entered' = Entered /\ \A k : Has(k)' = Has(k)
  BY <1>1, SumsStay
<1>3. /\ call \in [Client -> Call] /\ call' \in [Client -> Call]
      /\ \A x \in Client : x # c => call[x] = call'[x]
      /\ call'[c].phase # "reporting"
      /\ asked \in SUBSET Author /\ before \in SUBSET Author /\ view \in SUBSET Author
  <2>1. NoCall \in Call /\ NoCall.phase # "reporting"
    BY NoCallType DEF NoCall
  <2> QED
    BY <1>1, <2>1 DEF ServerInv, Call
<1>4. AcceptInv /\ Authors \in SUBSET Author
  BY <1>1, LoadedIsWhole, AuthorsType
<1>5. IsFiniteSet(ReportingIn(call'))
  <2>1. IsFiniteSet(ReportingIn(call))
    BY <1>1 DEF ReportInv
  <2>2. ReportingIn(call') \in SUBSET ReportingIn(call)
    BY <1>1, <1>3 DEF ReportingIn
  <2> QED
    BY <2>1, <2>2, FS_Subset
<1>6. PICK r \in Reported(before, asked) : reports' = Append(reports, r)
  BY <1>1
<1>7. /\ r.delta = Cardinality(View(asked).entries) - Cardinality(View(before).entries)
      /\ r.appeared = {Key(x) : x \in Appeared(View(before), View(asked))}
      /\ r.disappeared = {Key(x) : x \in Appeared(View(asked), View(before))}
  BY <1>6 DEF Reported
<1>8. /\ r.appeared = Keys(View(asked)) \ Keys(View(before))
      /\ r.disappeared = Keys(View(before)) \ Keys(View(asked))
  BY <1>7 DEF Appeared, Keys
<1> DEFINE T == Range(reports) \cup {r}
<1>9. reports \in Seq(T) /\ r \in T /\ reports' \in Seq(Range(reports'))
  <2>1. reports \in Seq(Range(reports))
    BY <1>1 DEF ReportInv
  <2>2. reports \in Seq(T) /\ r \in T
    BY <2>1
  <2>3. reports' \in Seq(T)
    BY <1>6, <2>2
  <2>4. \A i \in 1..Len(reports') : reports'[i] \in Range(reports')
    BY <2>3 DEF Range
  <2> HIDE DEF T
  <2> QED
    BY <2>2, <2>3, <2>4
<1> HIDE DEF T, asked, before
<1>10. EntriesTold(reports', call', Entered', Authors', view')
  <2>1. EntriesTold(reports, call, Entered, Authors, view)
    BY <1>1 DEF ReportInv
  <2>2. Countable(Entered, DOMAIN entities)
    BY <1>4, EnteredIsCountable
  <2>3. r.delta = Cardinality(Entered[asked]) - Cardinality(Entered[before])
    BY <1>3, <1>7, ViewSays DEF Entered
  <2>4. EntriesTold(Append(reports, r), call', Entered, Authors, view)
    BY <1>1, <1>3, <1>4, <1>5, <1>9, <2>1, <2>2, <2>3, ReportKeepsSums DEF asked, before
  <2> QED
    BY <1>1, <1>2, <1>6, <2>4
<1>11. ASSUME NEW k PROVE ConflictTold(k, reports', call', Has(k)', Authors', view')
  <2>1. ConflictTold(k, reports, call, Has(k), Authors, view)
    BY <1>1 DEF ReportInv
  <2>2. /\ Countable(Has(k), {k})
        /\ Cardinality(Has(k)[asked]) = Once(k, Keys(View(asked)))
        /\ Cardinality(Has(k)[before]) = Once(k, Keys(View(before)))
    BY <1>3, HasIsCountable
  <2>3. Once(k, r.appeared) + Cardinality(Has(k)[before])
           = Once(k, r.disappeared) + Cardinality(Has(k)[asked])
    BY <1>8, <2>2 DEF Once
  <2>4. ConflictTold(k, Append(reports, r), call', Has(k), Authors, view)
    BY <1>1, <1>3, <1>4, <1>5, <1>9, <2>1, <2>2, <2>3, ReportKeepsSums DEF asked, before
  <2> QED
    BY <1>1, <1>2, <1>6, <2>4
<1> QED
  BY <1>1, <1>2, <1>5, <1>9, <1>10, <1>11 DEF ReportInv

\* The sums are kept by every step.
LEMMA ReportStep ==
    LoadInv /\ ServerInv /\ ReportInv /\ [NodeNext]_<<nodeVars, serverVars>> => ReportInv'
<1> SUFFICES ASSUME LoadInv, ServerInv, ReportInv, [NodeNext]_<<nodeVars, serverVars>>
             PROVE  ReportInv'
  OBVIOUS
<1>1. CASE ReadFiles \/ StoreNext \/ StoreDone \/ ValidateNext \/ IngestNext \/ IngestDone
  <2>1. /\ UNCHANGED serverVars /\ load.phase # "serving"
        /\ \E p, i, todo : Goto(p, i, todo) /\ p # "serving"
    BY <1>1 DEF ReadFiles, StoreNext, StoreDone, ValidateNext, IngestNext, IngestDone
  <2>2. load'.phase # "serving"
    BY <2>1 DEF Goto
  <2> QED
    BY <2>1, <2>2 DEF ReportInv, serverVars
<1>2. CASE NewServer
  BY <1>2, NewServerReports
<1>3. ASSUME NEW c \in Client, NEW k \in Call, Handler(c, k), k.phase # "reporting",
             call[c].phase # "reporting", load.phase = "serving",
             UNCHANGED <<nodeVars, view, reports>>
      PROVE  ReportInv'
  <2>1. /\ call' \in [Client -> Call] /\ call'[c].phase # "reporting"
        /\ \A x \in Client : x # c => call'[x] = call[x]
    BY <1>3, HandlerType DEF ServerInv
  <2> QED
    BY <1>3, <2>1, QuietReports
<1>4. ASSUME NEW c \in Client, Snapshot(c) PROVE ReportInv'
  <2> DEFINE k == [NoCall EXCEPT !.phase = "answering", !.before = view, !.previous = subs]
  <2>1. NoCall \in Call
    BY NoCallType
  <2>2. k \in Call /\ k.phase # "reporting"
    BY <2>1 DEF Call, ServerInv
  <2>3. /\ UNCHANGED <<nodeVars, view, reports>> /\ load.phase = "serving" /\ Handler(c, k)
        /\ call[c].phase # "reporting"
    BY <1>4 DEF Snapshot, Serving
  <2> HIDE DEF k
  <2> QED
    BY <1>3, <2>2, <2>3
<1>5. ASSUME NEW c \in Client, Answer(c) PROVE ReportInv'
  <2>1. /\ UNCHANGED <<nodeVars, view, reports>> /\ load.phase = "serving" /\ Handler(c, NoCall)
        /\ call[c].phase # "reporting"
    BY <1>5 DEF Answer, Serving
  <2>2. NoCall \in Call /\ NoCall.phase # "reporting"
    BY NoCallType DEF NoCall
  <2> QED
    BY <1>3, <2>1, <2>2
<1>6. ASSUME NEW c \in Client, NEW S \in Requests, SetSubscriptions(c, S) PROVE ReportInv'
  <2> DEFINE k == IF S \subseteq Authors THEN [NoCall EXCEPT !.phase = "building", !.asked = S]
                                         ELSE NoCall
  <2>0. Authors \in SUBSET Author
    BY <1>6, AuthorsType DEF SetSubscriptions, Serving
  <2>1. /\ UNCHANGED <<nodeVars, view, reports>> /\ load.phase = "serving" /\ Handler(c, k)
        /\ call[c].phase # "reporting"
    BY <1>6 DEF SetSubscriptions, Serving
  <2>2. k \in Call /\ k.phase # "reporting"
    <3>1. CASE S \subseteq Authors
      <4>1. k = [phase |-> "building", asked |-> S, before |-> {}, previous |-> {}]
        BY <3>1 DEF NoCall
      <4> QED
        BY <2>0, <3>1, <4>1 DEF Call
    <3>2. CASE ~(S \subseteq Authors)
      BY <3>2, NoCallType DEF NoCall
    <3> QED
      BY <3>1, <3>2
  <2> HIDE DEF k
  <2> QED
    BY <1>3, <2>1, <2>2
<1>7. ASSUME NEW c \in Client, BuildView(c) PROVE ReportInv'
  <2> DEFINE k == [call[c] EXCEPT !.phase = "swapping"]
  <2>1. /\ UNCHANGED <<nodeVars, view, reports>> /\ load.phase = "serving" /\ Handler(c, k)
        /\ call[c].phase # "reporting"
    BY <1>7 DEF BuildView, Serving
  <2>2. k \in Call /\ k.phase # "reporting"
    BY DEF Call, ServerInv
  <2> HIDE DEF k
  <2> QED
    BY <1>3, <2>1, <2>2
<1>8. ASSUME NEW c \in Client, Swap(c) PROVE ReportInv'
  BY <1>8, SwapReports
<1>9. ASSUME NEW c \in Client, Report(c) PROVE ReportInv'
  BY <1>9, ReportReports
<1>10. CASE UNCHANGED <<nodeVars, serverVars>>
  <2>1. /\ load' = load /\ Authors' = Authors /\ Entered' = Entered /\ \A k : Has(k)' = Has(k)
        /\ call' = call /\ view' = view /\ reports' = reports
    BY <1>10, SumsStay DEF serverVars
  <2>2. ASSUME load.phase = "serving"
        PROVE  EntriesTold(reports', call', Entered', Authors', view')
    BY <2>1, <2>2 DEF ReportInv
  <2>3. ASSUME load.phase = "serving", NEW k
        PROVE  ConflictTold(k, reports', call', Has(k)', Authors', view')
    <3>1. ConflictTold(k, reports, call, Has(k), Authors, view)
      BY <2>3 DEF ReportInv
    <3> QED
      BY <2>1, <3>1
  <2> QED
    BY <2>1, <2>2, <2>3 DEF ReportInv
<1> QED
  BY <1>1, <1>2, <1>4, <1>5, <1>6, <1>7, <1>8, <1>9, <1>10 DEF NodeNext

\* The sums add up throughout.
LEMMA ReportInvariant == NodeSpec => [](LoadInv /\ ServerInv /\ ReportInv)
<1>1. NodeInit => ReportInv
  BY DEF NodeInit, ReportInv
<1> QED
  BY <1>1, ReportStep, ServerInvariant, PTL DEF NodeSpec

\* What the calls that replaced the subscriptions have told adds up to what
\* changed, however they ran into each other.
THEOREM ReportsAlwaysAddUp == NodeSpec => []ReportsAddUp
<1>1. ASSUME LoadInv, ServerInv, ReportInv PROVE ReportsAddUp
  <2> DEFINE first == View(Authors)
             now == View(view)
             L == Len(reports)
             n == Cardinality(first.entries)
             times(k, f) == Cardinality({i \in DOMAIN reports : k \in reports[i][f]})
             was(k, v) == IF k \in Keys(v) THEN 1 ELSE 0
             Told[i \in 0..L] == IF i = 0 THEN n ELSE Told[i - 1] + reports[i].delta
  <2> SUFFICES ASSUME load.phase = "serving", \A c \in Client : call[c].phase # "reporting"
               PROVE  /\ Told[L] = Cardinality(now.entries)
                      /\ \A k \in Keys(first) \cup Keys(now)
                                  \cup UNION {reports[i].appeared : i \in DOMAIN reports} :
                             was(k, first) + times(k, "appeared") - times(k, "disappeared")
                                 = was(k, now)
    BY Zenon DEF ReportsAddUp
  <2>1. \A M : Cardinality(AskedIn(call, M)) = 0 /\ Cardinality(ReplacedIn(call, M)) = 0
    BY NobodyReports
  <2>2. /\ AcceptInv /\ Authors \in SUBSET Author /\ view \in SUBSET Author
        /\ reports \in Seq(Range(reports))
    BY <1>1, LoadedIsWhole, AuthorsType DEF ServerInv, ReportInv
  <2>3. /\ Entered[Authors] = first.entries /\ Entered[view] = now.entries
    BY <2>2, ViewSays DEF Entered
  <2>4. Told[L] = Cardinality(now.entries)
    <3>1. PICK f : /\ Tells(f, reports, n) /\ f[L] \in Int
                   /\ f[L] + 0 = Cardinality(now.entries) + 0
      BY <1>1, <2>1, <2>3 DEF ReportInv, EntriesTold
    <3>2. Cardinality(now.entries) \in Nat
      BY <2>2, <2>3, EnteredIsCountable, CountsAreNumbers
    <3>3. f[L] = Cardinality(now.entries)
      BY <3>1, <3>2
    <3>4. Told = CHOOSE g : Tells(g, reports, n)
      BY Zenon DEF Tells
    <3> HIDE DEF Told, n
    <3>5. Tells(Told, reports, n)
      BY <3>1, <3>4
    <3>6. Told[L] = f[L]
      BY <2>2, <3>1, <3>5, ToldOnce
    <3> QED
      BY <3>3, <3>6
  <2>5. ASSUME NEW k
        PROVE  was(k, first) + times(k, "appeared") - times(k, "disappeared") = was(k, now)
    <3>1. /\ Cardinality(Has(k)[Authors]) = was(k, first)
          /\ Cardinality(Has(k)[view]) = was(k, now)
      BY <2>2, HasIsCountable DEF Once
    <3>2. /\ Times(k, reports, "appeared") = times(k, "appeared")
          /\ Times(k, reports, "disappeared") = times(k, "disappeared")
      BY DEF Times
    <3>3. times(k, "appeared") \in Nat /\ times(k, "disappeared") \in Nat
      BY <2>2, <3>2, TimesAreNumbers
    <3>4. was(k, first) \in Nat /\ was(k, now) \in Nat
      OBVIOUS
    <3>5. ConflictTold(k, reports, call, Has(k), Authors, view)
      BY <1>1 DEF ReportInv
    <3>6. was(k, first) + times(k, "appeared") + 0 = was(k, now) + times(k, "disappeared") + 0
      BY <2>1, <3>1, <3>2, <3>5 DEF ConflictTold
    <3> HIDE DEF was, times
    <3> QED
      BY <3>3, <3>4, <3>6
  <2> HIDE DEF Told, was, times, first, now
  <2> QED
    BY <2>4, <2>5
<1> QED
  BY <1>1, ReportInvariant, PTL
=============================================================================
