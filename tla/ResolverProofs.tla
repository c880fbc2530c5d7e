--------------------------- MODULE ResolverProofs ---------------------------
(***************************************************************************)
(* Proofs about transport.Resolver, for any number of goroutines, sources  *)
(* and calls: ResolverTypeOK, MissingIsNotObtained, AskedOnce and          *)
(* FailuresAreListed.                                                      *)
(*                                                                         *)
(* No lock is held across an exchange, so what one goroutine has read is   *)
(* old when it writes.  What carries the proofs is that the things a call  *)
(* relies on only grow: the local store, the blocks kept, and the digests  *)
(* the resolver has an answer to (Grows).                                  *)
(***************************************************************************)
EXTENDS TransportResolver, SequenceTheorems, TLAPS

\* The phases of Block; the others are Prefetch's.
Reading == {"local", "cache", "context", "ask", "keep", "fail", "found", "missing"}

CallInv(p) ==
    LET c == call[p] IN
    /\ c.phase \in Reading => c.d \in Digest
    /\ c.obtained \subseteq local \cup fetched
    /\ c.decided \subseteq fetched \cup failed
    /\ c.phase = "found" => c.d \in local \cup fetched
    /\ c.phase = "cache" => c.d \notin c.obtained \ fetched
    /\ c.phase \in {"context", "ask", "fail", "missing"} => c.d \notin c.obtained
    /\ c.phase \in {"context", "ask"} => c.d \notin c.decided
    /\ c.missing \cap c.decided = {}

ResolverInv ==
    /\ ResolverTypeOK
    /\ FailuresAreListed
    /\ given \subseteq local \cup fetched
    /\ \A p \in Proc : CallInv(p)

Grown ==
    /\ local \subseteq local'
    /\ fetched \subseteq fetched'
    /\ fetched \cup failed \subseteq fetched' \cup failed'
-----------------------------------------------------------------------------
\* What is true of a call stays true while others act.
LEMMA CallStable ==
    ASSUME NEW q \in Proc, CallInv(q), Grown, call'[q] = call[q]
    PROVE  CallInv(q)'
  BY DEF CallInv, Grown

\* A step that writes no more than p's call.
LEMMA OwnTurn ==
    ASSUME ResolverInv, NEW p \in Proc, NEW c \in Call, call' = [call EXCEPT ![p] = c],
           UNCHANGED <<world, cache>>, calls' \in 0..MaxCalls,
           given' \subseteq local \cup fetched, given' \in SUBSET Digest, CallInv(p)'
    PROVE  ResolverInv'
<1>1. call \in [Proc -> Call] /\ UNCHANGED <<local, cancelled, fetched, failed, order>>
  BY DEF ResolverInv, ResolverTypeOK, world, cache
<1>2. \A q \in Proc : CallInv(q)'
  BY <1>1, CallStable DEF ResolverInv, Grown
<1>3. ResolverTypeOK'
  BY <1>1 DEF ResolverInv, ResolverTypeOK
<1>4. FailuresAreListed'
  BY <1>1 DEF ResolverInv, FailuresAreListed
<1> QED
  BY <1>1, <1>2, <1>3, <1>4 DEF ResolverInv

\* What Turn makes of a call.
LEMMA TurnCall ==
    ASSUME ResolverInv, NEW p \in Proc, NEW from, NEW to \in Call, Turn(p, from, to),
           to.phase \in Reading => to.d \in Digest,
           to.phase = "found" => to.d \in local \cup fetched,
           to.phase = "cache" => to.d \notin call[p].obtained \ fetched,
           to.phase \in {"context", "ask", "fail", "missing"} => to.d \notin call[p].obtained,
           to.phase \in {"context", "ask"} => to.d \notin call[p].decided,
           to.missing \cap call[p].decided = {}
    PROVE  ResolverInv'
<1> DEFINE c == [to EXCEPT !.obtained = call[p].obtained, !.decided = call[p].decided]
<1>1. call \in [Proc -> Call] /\ CallInv(p) /\ given \subseteq local \cup fetched
      /\ given \in SUBSET Digest /\ calls \in 0..MaxCalls
  BY DEF ResolverInv, ResolverTypeOK
<1>2. call' = [call EXCEPT ![p] = c] /\ UNCHANGED <<world, cache, given, calls>>
  BY DEF Turn
<1>3. /\ c \in Call /\ c.phase = to.phase /\ c.d = to.d /\ c.missing = to.missing
      /\ c.obtained = call[p].obtained /\ c.decided = call[p].decided
  BY <1>1 DEF Call
<1> HIDE DEF c
<1>4. call'[p] = c /\ UNCHANGED <<local, fetched, failed>>
  BY <1>1, <1>2 DEF world, cache
<1>5. CallInv(p)'
  BY <1>1, <1>3, <1>4 DEF CallInv
<1> QED
  BY <1>1, <1>2, <1>3, <1>5, OwnTurn

\* Into(p, phase) is the call with another phase.
LEMMA AtCall ==
    ASSUME ResolverInv, NEW p \in Proc, NEW f \in Phase
    PROVE  /\ call[p] \in Call /\ Into(p, f) \in Call
           /\ Into(p, f).phase = f /\ Into(p, f).d = call[p].d /\ Into(p, f).missing = call[p].missing
  BY DEF ResolverInv, ResolverTypeOK, Into, Call

\* The idle call is a call.
LEMMA NoCallType ==
    /\ NoCall \in Call
    /\ NoCall.phase = "idle" /\ NoCall.obtained = {} /\ NoCall.decided = {} /\ NoCall.missing = {}
  BY DEF NoCall, Call, Phase

\* What the invariant says of a caller, taken apart.
LEMMA Reachable ==
    ASSUME ResolverInv, NEW p \in Proc
    PROVE  /\ call[p] \in Call /\ call \in [Proc -> Call] /\ CallInv(p)
           /\ given \in SUBSET Digest /\ given \subseteq local \cup fetched
           /\ local \in SUBSET Digest /\ fetched \in SUBSET Digest /\ failed \in SUBSET Digest
           /\ order \in Seq(Digest) /\ calls \in 0..MaxCalls
  BY DEF ResolverInv, ResolverTypeOK
-----------------------------------------------------------------------------
\* The resolver begins with nothing obtained.
LEMMA InitResolver == ResolverInit => ResolverInv
<1> SUFFICES ASSUME ResolverInit PROVE ResolverInv
  OBVIOUS
<1>1. \A p \in Proc : CallInv(p)
  BY NoCallType DEF ResolverInit, CallInv, Reading
<1>2. ResolverTypeOK
  <2>1. call = [p \in Proc |-> NoCall] /\ NoCall \in Call
    BY NoCallType DEF ResolverInit
  <2>2. 0 \in 0..MaxCalls
    BY ResolverAssumption
  <2>3. cancelled \in BOOLEAN
    BY DEF ResolverInit
  <2>4. call \in [Proc -> Call]
    BY <2>1
  <2>5. order \in Seq(Digest) /\ calls \in 0..MaxCalls
    BY <2>2 DEF ResolverInit
  <2> QED
    BY <2>3, <2>4, <2>5 DEF ResolverInit, ResolverTypeOK
<1> QED
  BY <1>1, <1>2 DEF ResolverInit, ResolverInv, FailuresAreListed

\* The local store and the caller of the fetches.
LEMMA WorldInv ==
    ASSUME ResolverInv, Cancel \/ \E d \in Digest : Arrives(d)
    PROVE  ResolverInv'
<1>1. /\ UNCHANGED <<fetched, failed, order, call, given, calls>>
      /\ local \subseteq local' /\ local' \in SUBSET Digest /\ cancelled' \in BOOLEAN
  BY DEF Cancel, Arrives, cache, ResolverInv, ResolverTypeOK
<1>2. \A q \in Proc : CallInv(q)'
  BY <1>1, CallStable DEF ResolverInv, Grown
<1> QED
  BY <1>1, <1>2 DEF ResolverInv, ResolverTypeOK, FailuresAreListed

\* A call begins: what it remembers is what is so now.
LEMMA BeginInv ==
    ASSUME ResolverInv, NEW p \in Proc, NEW c \in Call, Enter(p, c),
           c.phase \in {"local", "look"}, c.phase = "local" => c.d \in Digest, c.missing = {}
    PROVE  ResolverInv'
<1> DEFINE b == [c EXCEPT !.obtained = given \cup local, !.decided = fetched \cup failed]
<1>1. /\ call' = [call EXCEPT ![p] = b] /\ UNCHANGED <<world, cache, given>>
      /\ calls' = calls + 1 /\ calls < MaxCalls
  BY DEF Enter
<1>2. /\ b \in Call /\ b.phase = c.phase /\ b.d = c.d /\ b.missing = {}
      /\ b.obtained = given \cup local /\ b.decided = fetched \cup failed
  BY Reachable DEF Call
<1>3. calls' \in 0..MaxCalls
  BY <1>1, Reachable, ResolverAssumption
<1> HIDE DEF b
<1>4. call'[p] = b /\ UNCHANGED <<local, fetched, failed>>
  BY <1>1, Reachable DEF world, cache
<1>5. CallInv(p)'
  BY <1>2, <1>4, Reachable DEF CallInv, Reading
<1> QED
  BY <1>1, <1>2, <1>3, <1>5, Reachable, OwnTurn

\* A call ends without writing to the cache.
LEMMA IdleInv ==
    ASSUME ResolverInv, NEW p \in Proc, call' = [call EXCEPT ![p] = NoCall],
           UNCHANGED <<world, cache, calls>>,
           given' \subseteq local \cup fetched, given' \in SUBSET Digest
    PROVE  ResolverInv'
<1>1. call'[p] = NoCall
  BY Reachable
<1>2. CallInv(p)'
  BY <1>1, NoCallType DEF CallInv, Reading
<1> QED
  BY <1>2, NoCallType, Reachable, OwnTurn

\* The turns that write nothing but where they have got to.
LEMMA ReadingInv ==
    ASSUME ResolverInv, NEW p \in Proc,
           ReadLocal(p) \/ ReadCache(p) \/ ReadContext(p) \/ Ask(p) \/ Look(p)
    PROVE  ResolverInv'
<1> DEFINE c == call[p]
<1>0. c \in Call /\ CallInv(p)
  BY Reachable
<1>a. \A f \in Phase : /\ Into(p, f) \in Call /\ Into(p, f).phase = f /\ Into(p, f).d = c.d
                        /\ Into(p, f).missing = c.missing
  BY AtCall
<1>f. {"found", "cache", "missing", "context", "fail", "ask", "keep"} \subseteq Phase
      /\ Reading \subseteq Phase
  BY DEF Phase, Reading
<1>m. c.missing \cap c.decided = {} /\ (c.phase \in Reading => c.d \in Digest)
  BY <1>0 DEF CallInv
<1>1. CASE ReadLocal(p)
  <2>1. c.phase = "local" /\ c.obtained \subseteq local \cup fetched
    BY <1>0, <1>1 DEF ReadLocal, Turn, CallInv
  <2>2. CASE Turn(p, "local", Into(p, IF c.d \in local THEN "found" ELSE "cache"))
    <3>1. CASE c.d \in local
      BY <1>a, <1>f, <1>m, <2>1, <2>2, <3>1, TurnCall DEF Reading
    <3>2. CASE c.d \notin local
      BY <1>a, <1>f, <1>m, <2>1, <2>2, <3>2, TurnCall DEF Reading
    <3> QED
      BY <3>1, <3>2
  <2>3. CASE Done(p) /\ UNCHANGED cache
    BY <2>3, Reachable, IdleInv DEF Done
  <2> QED
    BY <1>1, <2>2, <2>3 DEF ReadLocal
<1>2. CASE ReadCache(p)
  <2>1. /\ c.phase = "cache" /\ c.d \notin c.obtained \ fetched
        /\ c.decided \subseteq fetched \cup failed
    BY <1>0, <1>2 DEF ReadCache, Turn, CallInv
  <2>2. CASE c.d \in fetched
    <3>1. Turn(p, "cache", Into(p, "found"))
      BY <1>2, <2>2 DEF ReadCache
    <3> QED
      BY <1>a, <1>f, <1>m, <2>1, <2>2, <3>1, TurnCall DEF Reading
  <2>3. CASE c.d \in failed \ fetched
    <3>1. Turn(p, "cache", Into(p, "missing"))
      BY <1>2, <2>3 DEF ReadCache
    <3> QED
      BY <1>a, <1>f, <1>m, <2>1, <2>3, <3>1, TurnCall DEF Reading
  <2>4. CASE c.d \notin fetched \cup failed
    <3>1. Turn(p, "cache", Into(p, "context"))
      BY <1>2, <2>4 DEF ReadCache
    <3> QED
      BY <1>a, <1>f, <1>m, <2>1, <2>4, <3>1, TurnCall DEF Reading
  <2> QED
    BY <2>2, <2>3, <2>4
<1>3. CASE ReadContext(p)
  <2>1. c.phase = "context" /\ c.d \notin c.obtained /\ c.d \notin c.decided
    BY <1>0, <1>3 DEF ReadContext, Turn, CallInv
  <2>2. Turn(p, "context", Into(p, "fail")) \/ Turn(p, "context", Into(p, "ask"))
    BY <1>3 DEF ReadContext
  <2> QED
    BY <1>a, <1>f, <1>m, <2>1, <2>2, TurnCall DEF Reading
<1>4. CASE Ask(p)
  <2>1. c.phase = "ask" /\ c.d \notin c.obtained /\ c.d \notin c.decided
    BY <1>0, <1>4 DEF Ask, Turn, CallInv
  <2> DEFINE next == [c EXCEPT !.source = @ + 1]
  <2>2. next \in Call /\ next.phase = c.phase /\ next.d = c.d /\ next.missing = c.missing
    <3>1. c.source + 1 \in Nat
      BY <1>0 DEF Call
    <3> QED
      BY <1>0, <3>1 DEF Call
  <2>3. \/ Turn(p, "ask", Into(p, "keep")) \/ Turn(p, "ask", Into(p, "fail"))
        \/ Turn(p, "ask", next)
    BY <1>4 DEF Ask
  <2> HIDE DEF next
  <2> QED
    BY <1>a, <1>f, <1>m, <2>1, <2>2, <2>3, TurnCall DEF Reading
<1>5. CASE Look(p)
  <2>0. PICK readable \in {local, {}} :
          Turn(p, "look",
               [c EXCEPT !.todo = Tail(@),
                         !.missing = IF Head(c.todo) \notin readable \cup fetched \cup failed
                                     THEN @ \cup {Head(c.todo)} ELSE @])
    BY <1>5 DEF Look
  <2> DEFINE d == Head(c.todo)
             next == [c EXCEPT !.todo = Tail(@),
                               !.missing = IF d \notin readable \cup fetched \cup failed
                                           THEN @ \cup {d} ELSE @]
  <2>1. c.phase = "look" /\ c.todo # <<>> /\ Turn(p, "look", next)
    BY <1>5, <2>0 DEF Look, Turn
  <2>2. c.todo \in Seq(Digest) /\ d \in Digest /\ Tail(c.todo) \in Seq(Digest)
    BY <1>0, <2>1 DEF Call
  <2>3. /\ next \in Call /\ next.phase = "look"
        /\ next.missing \subseteq c.missing \cup ({d} \ (fetched \cup failed))
    BY <1>0, <2>1, <2>2 DEF Call
  <2>4. c.decided \subseteq fetched \cup failed
    BY <1>0 DEF CallInv
  <2> HIDE DEF next, d
  <2> QED
    BY <1>m, <2>1, <2>3, <2>4, TurnCall DEF Reading
<1> QED
  BY <1>1, <1>2, <1>3, <1>4, <1>5

\* The turns that write to the cache.
LEMMA CacheInv ==
    ASSUME ResolverInv, NEW p \in Proc, NEW c \in Call, call' = [call EXCEPT ![p] = c],
           UNCHANGED <<world, given, calls>>,
           fetched' \in SUBSET Digest, failed' \in SUBSET Digest, order' \in Seq(Digest),
           fetched \subseteq fetched', fetched \cup failed \subseteq fetched' \cup failed',
           FailuresAreListed', CallInv(p)'
    PROVE  ResolverInv'
<1>1. Grown /\ UNCHANGED <<local, cancelled>>
  BY DEF Grown, world
<1>2. \A q \in Proc : CallInv(q)'
  BY <1>1, CallStable, Reachable DEF ResolverInv
<1>3. ResolverTypeOK'
  BY <1>1, Reachable DEF ResolverInv, ResolverTypeOK
<1>4. given' \subseteq local' \cup fetched'
  BY <1>1, Reachable
<1> QED
  BY <1>2, <1>3, <1>4 DEF ResolverInv

\* Keeping the blocks of an answer preserves the invariant.
LEMMA KeepInv ==
    ASSUME ResolverInv, NEW p \in Proc, Keep(p)
    PROVE  ResolverInv'
<1> DEFINE c == call[p]
           k == [c EXCEPT !.phase = "found"]
<1>1. /\ c \in Call /\ c.phase = "keep" /\ CallInv(p) /\ c.d \in Digest
  BY Reachable DEF Keep, CallInv, Reading
<1>2. /\ call' = [call EXCEPT ![p] = k] /\ UNCHANGED <<world, given, calls, order>>
      /\ fetched' = fetched \cup {c.d} /\ failed' = failed \ {c.d}
  BY Reachable DEF Keep, keep
<1>3. /\ k \in Call /\ k.phase = "found" /\ k.d = c.d /\ k.missing = c.missing
      /\ k.obtained = c.obtained /\ k.decided = c.decided
  BY <1>1 DEF Call, Phase
<1> HIDE DEF k
<1>4. call'[p] = k /\ local' = local
  BY <1>2, Reachable DEF world
<1>5. CallInv(p)'
  BY <1>1, <1>2, <1>3, <1>4 DEF CallInv
<1>6. FailuresAreListed'
  BY <1>2 DEF FailuresAreListed, ResolverInv
<1> QED
  BY <1>1, <1>2, <1>3, <1>5, <1>6, Reachable, CacheInv

\* A failed exchange preserves the invariant.
LEMMA FailInv ==
    ASSUME ResolverInv, NEW p \in Proc, Fail(p)
    PROVE  ResolverInv'
<1> DEFINE c == call[p]
           k == [c EXCEPT !.phase = "missing"]
<1>1. /\ c \in Call /\ c.phase = "fail" /\ CallInv(p) /\ c.d \in Digest /\ c.d \notin c.obtained
  BY Reachable DEF Fail, CallInv, Reading
<1>2. /\ call' = [call EXCEPT ![p] = k] /\ UNCHANGED <<world, given, calls, fetched>>
      /\ failed' = failed \cup {c.d}
      /\ order' = IF c.d \in failed THEN order ELSE Append(order, c.d)
  BY Reachable DEF Fail
<1>3. /\ k \in Call /\ k.phase = "missing" /\ k.d = c.d /\ k.missing = c.missing
      /\ k.obtained = c.obtained /\ k.decided = c.decided
  BY <1>1 DEF Call, Phase
<1> HIDE DEF k
<1>4. call'[p] = k /\ local' = local
  BY <1>2, Reachable DEF world
<1>5. CallInv(p)'
  BY <1>1, <1>2, <1>3, <1>4 DEF CallInv, Reading
<1>6. order' \in Seq(Digest) /\ FailuresAreListed'
  <2>1. order \in Seq(Digest) /\ \A d \in failed : \E i \in DOMAIN order : order[i] = d
    BY Reachable DEF ResolverInv, FailuresAreListed
  <2>2. CASE c.d \in failed
    BY <1>2, <2>1, <2>2 DEF FailuresAreListed
  <2>3. CASE c.d \notin failed
    <3> DEFINE o == Append(order, c.d)
    <3>1. /\ o \in Seq(Digest) /\ DOMAIN o = 1..(Len(order) + 1) /\ DOMAIN order = 1..Len(order)
          /\ Len(order) \in Nat /\ \A i \in 1..Len(order) : o[i] = order[i]
          /\ o[Len(order) + 1] = c.d
      BY <1>1, <2>1, AppendProperties
    <3> HIDE DEF o
    <3>2. \A d \in failed \cup {c.d} : \E i \in DOMAIN o : o[i] = d
      BY <2>1, <3>1
    <3>3. order' = o /\ failed' = failed \cup {c.d}
      BY <1>2, <2>3 DEF o
    <3> QED
      BY <3>1, <3>2, <3>3 DEF FailuresAreListed
  <2> QED
    BY <2>2, <2>3
<1> QED
  BY <1>1, <1>2, <1>3, <1>5, <1>6, Reachable, CacheInv

\* The steps of an exchange preserve the invariant.
LEMMA ExchangeInv ==
    ASSUME ResolverInv, NEW p \in Proc, Exchange(p)
    PROVE  ResolverInv'
<1> DEFINE c == call[p]
           n == [c EXCEPT !.source = @ + 1]
<1>1. /\ c \in Call /\ c.phase = "exchange" /\ CallInv(p) /\ c.source + 1 \in Nat
      /\ c.missing \in SUBSET Digest /\ c.missing \cap c.decided = {}
  BY Reachable DEF Exchange, CallInv, Call
<1>2. n \in Call /\ n.phase = c.phase /\ n.d = c.d /\ n.missing = c.missing
  BY <1>1 DEF Call
<1>3. CASE Turn(p, "exchange", n)
  <2> HIDE DEF n
  <2> QED
    BY <1>1, <1>2, <1>3, TurnCall DEF Reading
<1>4. ASSUME NEW got \in SUBSET c.missing, keep(got), UNCHANGED <<world, given, calls>>,
             call' = [call EXCEPT ![p].source = @ + 1, ![p].missing = @ \ (fetched \cup got)]
      PROVE  ResolverInv'
  <2> DEFINE k == [c EXCEPT !.source = @ + 1, !.missing = @ \ (fetched \cup got)]
  <2>1. call' = [call EXCEPT ![p] = k]
    BY <1>4, Reachable
  <2>2. /\ k \in Call /\ k.phase = "exchange" /\ k.d = c.d
        /\ k.missing \subseteq c.missing
        /\ k.obtained = c.obtained /\ k.decided = c.decided
    BY <1>1 DEF Call
  <2> HIDE DEF k
  <2>3. /\ call'[p] = k /\ local' = local /\ order' = order
        /\ fetched' = fetched \cup got /\ failed' = failed \ got
    BY <1>4, <2>1, Reachable DEF world, keep
  <2>4. CallInv(p)'
    BY <1>1, <2>2, <2>3 DEF CallInv, Reading
  <2>5. FailuresAreListed'
    BY <2>3 DEF FailuresAreListed, ResolverInv
  <2> QED
    BY <1>1, <1>4, <2>1, <2>2, <2>3, <2>4, <2>5, Reachable, CacheInv
<1> QED
  BY <1>3, <1>4 DEF Exchange

\* A call goes on to the exchange, or ends.
LEMMA EndInv ==
    ASSUME ResolverInv, NEW p \in Proc, Return(p) \/ Looked(p) \/ Exchanged(p)
    PROVE  ResolverInv'
<1> DEFINE c == call[p]
<1>1. CASE Return(p)
  <2>1. c.phase \in {"found", "missing"} /\ c.d \in Digest
        /\ (c.phase = "found" => c.d \in local \cup fetched)
    BY <1>1, Reachable DEF Return, CallInv, Reading
  <2>2. given' \subseteq local \cup fetched /\ given' \in SUBSET Digest
    BY <1>1, <2>1, Reachable DEF Return
  <2> QED
    BY <1>1, <2>2, IdleInv DEF Return
<1>2. CASE Done(p) /\ UNCHANGED cache
  BY <1>2, Reachable, IdleInv DEF Done
<1>3. CASE Turn(p, "look", Into(p, "exchange"))
  <2>1. "exchange" \in Phase /\ c.missing \cap c.decided = {}
    BY Reachable DEF Phase, CallInv
  <2> QED
    BY <1>3, <2>1, AtCall, TurnCall DEF Reading
<1> QED
  BY <1>1, <1>2, <1>3 DEF Looked, Exchanged

\* ResolverInv is inductive.
LEMMA ResolverStep == ResolverInv /\ [ResolverNext]_resolverVars => ResolverInv'
<1> SUFFICES ASSUME ResolverInv, [ResolverNext]_resolverVars PROVE ResolverInv'
  OBVIOUS
<1>1. CASE UNCHANGED resolverVars
  <2>1. \A q \in Proc : CallInv(q)'
    BY <1>1 DEF ResolverInv, CallInv, resolverVars, world, cache
  <2> QED
    BY <1>1, <2>1 DEF ResolverInv, ResolverTypeOK, FailuresAreListed, resolverVars, world, cache
<1>2. ASSUME NEW p \in Proc, Go(p) PROVE ResolverInv'
  BY <1>2, ReadingInv, KeepInv, FailInv, ExchangeInv, EndInv DEF Go
<1>3. ASSUME NEW p \in Proc, NEW d \in Digest, Block(p, d) PROVE ResolverInv'
  <2> DEFINE c == [NoCall EXCEPT !.phase = "local", !.d = d]
  <2>1. c \in Call /\ c.phase = "local" /\ c.d = d /\ c.missing = {} /\ Enter(p, c)
    BY <1>3, NoCallType DEF Block, NoCall, Call, Phase
  <2> HIDE DEF c
  <2> QED
    BY <2>1, BeginInv
<1>4. ASSUME NEW p \in Proc, NEW s \in Prefetches, Prefetch(p, s) PROVE ResolverInv'
  <2> DEFINE c == [NoCall EXCEPT !.phase = "look", !.todo = s]
  <2>1. c \in Call /\ c.phase = "look" /\ c.missing = {} /\ Enter(p, c)
    BY <1>4, NoCallType, ResolverAssumption DEF Prefetch, NoCall, Call, Phase
  <2> HIDE DEF c
  <2> QED
    BY <2>1, BeginInv
<1> QED
  BY <1>1, <1>2, <1>3, <1>4, WorldInv DEF ResolverNext

\* It holds in every state.
LEMMA ResolverInvariant == ResolverSpec => []ResolverInv
  BY InitResolver, ResolverStep, PTL DEF ResolverSpec

\* The resolver's maps and calls hold what they are meant to.
THEOREM ResolverTypeCorrect == ResolverSpec => []ResolverTypeOK
<1>1. ResolverInv => ResolverTypeOK
  BY DEF ResolverInv
<1> QED
  BY <1>1, ResolverInvariant, PTL

\* However fetches overlap, no call says of a block that it is missing when
\* it was in the store, or had been obtained, when the call began (cached,
\* keep and fail).
THEOREM MissingIsNeverObtained == ResolverSpec => []MissingIsNotObtained
<1>1. ResolverInv => MissingIsNotObtained
  BY DEF ResolverInv, CallInv, MissingIsNotObtained
<1> QED
  BY <1>1, ResolverInvariant, PTL

\* No call asks a source for what the resolver could answer when it began.
THEOREM NothingIsAskedTwice == ResolverSpec => []AskedOnce
<1>1. ResolverInv => AskedOnce
  BY DEF ResolverInv, CallInv, AskedOnce
<1> QED
  BY <1>1, ResolverInvariant, PTL

\* Every failure the resolver answers from is in the list it reports.
THEOREM FailuresAreAlwaysListed == ResolverSpec => []FailuresAreListed
<1>1. ResolverInv => FailuresAreListed
  BY DEF ResolverInv
<1> QED
  BY <1>1, ResolverInvariant, PTL
=============================================================================
