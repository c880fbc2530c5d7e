------------------------------- MODULE View -------------------------------
(***************************************************************************)
(* accept.Build: Layer 3, what a graph says to somebody who subscribes to  *)
(* a set of authors.  Build reads the graph and the store once and returns *)
(* a View that never changes, here a record:                               *)
(*                                                                         *)
(*   entries        the entities a subscribed author published             *)
(*   positions      where their blocks stand in their authors' histories   *)
(*   class          the equivalence class of each, named by its root       *)
(*   assertions     everything said about the truth of each, Latest marked *)
(*   supersedes, contradicts   declared pairs of classes                   *)
(*   equivalenceDecls, supersessionDecls, contradictionDecls               *)
(*                  per class, the standing claims that name a member      *)
(*   malformed, withdrawn, conflicts                                       *)
(***************************************************************************)
EXTENDS Meta

Edge(class, cl) == <<class[cl.a], class[cl.b]>>
BothIn(E, claims) == {cl \in claims : {cl.a, cl.b} \subseteq E}
MembersOf(class, C) == {e \in DOMAIN class : class[e] \in C}

\* Mutant: a claim is filed under the class it names first.
DeclarationsOfTheFirst(class, claims) ==
    [c \in Range(class) |->
        {[meta |-> cl.meta, a |-> cl.a, b |-> cl.b, backing |-> cl.backing] :
            cl \in {x \in claims : x.a \in DOMAIN class /\ class[x.a] = c}}]

\* declare files a claim under the class of each of its ends in the view.
Declarations(class, claims) ==
    [c \in Range(class) |->
        {[meta |-> cl.meta, a |-> cl.a, b |-> cl.b, backing |-> cl.backing] :
            cl \in {x \in claims : c \in {class[e] : e \in {x.a, x.b} \cap DOMAIN class}}}]
-----------------------------------------------------------------------------
\* Mutant: the last word is taken per key, not per lineage.
LatestPerKey(R) ==
    {r \in R : \A q \in R : q.class = r.class /\ q.author = r.author => q.index <= r.index}

\* truthRecords and markLatest.  A claim about an entity outside the view has
\* no record; the last word in each lineage on each class is marked.
TruthRecords(class, claims, o) ==
    UNION {{[class |-> class[cl.a], lineage |-> o.pos[t.block].lineage,
             index |-> o.pos[t.block].index, author |-> t.author, stance |-> cl.bond,
             meta |-> cl.meta, block |-> t.block, subject |-> cl.a] : t \in cl.prov} :
           cl \in {x \in Truths(claims) : x.a \in DOMAIN class}}
Latest(R) ==
    {r \in R : \A q \in R : q.class = r.class /\ q.lineage = r.lineage => q.index <= r.index}

Stances(R, c) == {r.stance : r \in {q \in Latest(R) : q.class = c}}

\* applyClass: the truth of a class nobody spoke of is unasserted.
TruthState(R, c) ==
    CASE Stances(R, c) = {} -> "unasserted"
      [] Stances(R, c) = {"assertion"} -> "asserted"
      [] Stances(R, c) = {"retraction"} -> "retracted"
      [] OTHER -> "conflicted"

TruthConflicts(class, R) ==
    LET last(c) == {r \in Latest(R) : r.class = c}
        side(c, stance) == {r.author : r \in {q \in last(c) : q.stance = stance}}
    IN  {[kind |-> "truth", molecules |-> MembersOf(class, {c}),
          isTrue |-> side(c, "assertion"), isUntrue |-> side(c, "retraction"),
          meta |-> {r.meta : r \in last(c)},
          declarers |-> {r.author : r \in {q \in R : q.class = c}}] :
            c \in {x \in Range(class) : TruthState(R, x) = "conflicted"}}
-----------------------------------------------------------------------------
\* cycles: Tarjan's strongly connected components, those that are no cycle
\* left out.  A state has the index and low link of each class seen, the
\* stack, the components found, and the calls of the recursive visit that
\* have not returned, each with the class it is about and what is left of that
\* class's list.
NoInfo == [info |-> [c \in {} |-> [index |-> 0, low |-> 0]],
           stack |-> <<>>, found |-> {}, calls |-> <<>>]

Innermost(st) == st.calls[Len(st.calls)]
Seen(st, c) == c \in DOMAIN st.info
OnStack(st, c) == c \in Range(st.stack)

\* Mutant: the last low link seen counts, not the lowest.
LowLast(st, c, n) == [st EXCEPT !.info[c].low = n]

Low(st, c, n) ==
    [st EXCEPT !.info[c].low = IF n < @ THEN n ELSE @]

visit(st, d, adjacency) ==
    LET id == Cardinality(DOMAIN st.info) IN
    [st EXCEPT !.info = Updated(@, [c \in {d} |-> [index |-> id, low |-> id]]),
               !.stack = Append(@, d),
               !.calls = Append(@, [class |-> d, rest |-> adjacency[d]])]

\* The innermost call looks at the next class of its list.
LookAt(st, n, adjacency) ==
    LET d == Innermost(st).class
        s == [st EXCEPT !.calls[Len(st.calls)].rest = @ \ {n}]
    IN  IF ~Seen(s, n) THEN visit(s, n, adjacency)
        ELSE IF OnStack(s, n) THEN Low(s, d, s.info[n].index) ELSE s

\* The innermost call takes its component off the stack if d is the first of
\* it on the stack.
Component(st, d, adjacency) ==
    LET from == CHOOSE i \in DOMAIN st.stack : st.stack[i] = d
        component == {st.stack[i] : i \in from..Len(st.stack)}
    IN  IF st.info[d].low # st.info[d].index
        THEN st
        ELSE [st EXCEPT !.stack = SubSeq(@, 1, from - 1),
                        !.found = IF Cardinality(component) > 1 \/ d \in adjacency[d]
                                  THEN @ \cup {component} ELSE @]

\* It returns, and its caller takes its low link.
Return(st, d, adjacency) ==
    LET s == [Component(st, d, adjacency) EXCEPT !.calls = SubSeq(@, 1, Len(@) - 1)] IN
    IF s.calls = <<>> THEN s ELSE Low(s, Innermost(s).class, s.info[d].low)

\* One turn: the next class nobody has seen, if no call is in progress.
Turn(st, nodes, adjacency) ==
    LET unseen == {c \in nodes : ~Seen(st, c)} IN
    IF st.calls = <<>>
    THEN IF unseen = {} THEN st ELSE visit(st, Least(unseen), adjacency)
    ELSE LET call == Innermost(st) IN
         IF call.rest = {} THEN Return(st, call.class, adjacency)
                           ELSE LookAt(st, Least(call.rest), adjacency)

\* As many turns as there are classes to enter and leave and edges to look at.
cycles(nodes, adjacency) ==
    LET Turned[n \in Nat] ==
            IF n = 0 THEN NoInfo ELSE Turn(Turned[n - 1], nodes, adjacency)
        all == Cardinality(nodes)
    IN  Turned[all * (all + 2)].found

Edges(class, claims) == {Edge(class, cl) : cl \in BothIn(DOMAIN class, claims)}
Replaces(edges) == [c \in {e[1] : e \in edges} \cup {e[2] : e \in edges} |->
                        {e[2] : e \in {x \in edges : x[1] = c}}]

\* What the metas of a set of claims say of who declared it.
Declared(claims) ==
    [meta |-> {cl.meta : cl \in claims},
     declarers |-> {t.author : t \in UNION {cl.prov : cl \in claims}}]

\* applySupersession: a loop of classes is reported with every claim in it.
LoopConflicts(class, claims) ==
    LET within(C) == {cl \in BothIn(DOMAIN class, claims) : {class[cl.a], class[cl.b]} \subseteq C}
        edges == Edges(class, claims)
        record(C) == [kind |-> "loop", molecules |-> MembersOf(class, C),
                      meta |-> Declared(within(C)).meta,
                      declarers |-> Declared(within(C)).declarers]
    IN  {record(C) : C \in cycles(DOMAIN Replaces(edges), Replaces(edges))}

\* A side of a contradiction, and the subscribed authors of its molecules.
Side(M, who) == [molecules |-> M, authors |-> UNION {who[m] : m \in M}]

\* applyContradictions: one conflict for each pair of classes, whichever way
\* round and however often it was declared.  who[e] are the authors of e.
ContradictionConflicts(class, claims, who) ==
    LET pairs == {{e[1], e[2]} : e \in Edges(class, claims)}
        on(P) == {cl \in BothIn(DOMAIN class, claims) : {class[cl.a], class[cl.b]} = P}
    IN  {[kind |-> "contradiction", molecules |-> MembersOf(class, P),
          sides |-> {Side(MembersOf(class, {c}), who) : c \in P},
          meta |-> Declared(on(P)).meta, declarers |-> Declared(on(P)).declarers] :
            P \in pairs}
-----------------------------------------------------------------------------
\* The blocks Build places: those that published an entity of the view,
\* whoever signed them.
Published(g, E) == {t.block : t \in UNION {g[e].authors : e \in E}}

OrderOf(g, S) == PlaceAll(newBlockOrder, Published(g, InView(g, S)))

\* Steps 6 to 8 of Build: what is read off the classes.
Readings(S, g, o, claims, standing, class) ==
    LET E == DOMAIN class
        records == TruthRecords(class, claims, o)
        over == On(standing, "supersession")
        against == On(standing, "contradiction")
    IN  [subscribed |-> S,
         entries |-> E,
         positions |-> Positions(o, Published(g, E)),
         class |-> class,
         assertions |-> records,
         supersedes |-> Edges(class, over),
         contradicts |-> {{e[1], e[2]} : e \in Edges(class, against)},
         equivalenceDecls |-> Declarations(class, On(standing, "equivalence")),
         supersessionDecls |-> Declarations(class, BothIn(E, over)),
         contradictionDecls |-> Declarations(class, BothIn(E, against)),
         malformed |-> Malformed(E),
         withdrawn |-> Withdrawn(claims, o),
         conflicts |-> TruthConflicts(class, records) \cup LoopConflicts(class, over)
                        \cup ContradictionConflicts(class, against, Who(g, E, S))
                        \cup o.conflicts]

\* Steps 4 and 5: which claims stand, and the classes those that do make.
Close(S, g, E, o, claims) ==
    LET standing == Standing(claims, o)
    IN  Readings(S, g, o, claims, standing, ClassOf(E, On(standing, "equivalence")))

\* Build, of which nothing is left when the store lacks an ancestor.
Build(g, S) ==
    LET E == InView(g, S) IN Close(S, g, E, OrderOf(g, S), read(g, E, S))
-----------------------------------------------------------------------------
\* The queries.  Each answers with nothing for an entity outside the view.
Truth(v, e) == IF e \in v.entries THEN TruthState(v.assertions, v.class[e]) ELSE "unasserted"
Assertions(v, e) == {r \in v.assertions : e \in v.entries /\ r.class = v.class[e]}
EquivalenceClass(v, e) == IF e \in v.entries THEN MembersOf(v.class, {v.class[e]}) ELSE {}
Equivalent(v, a, b) == {a, b} \subseteq v.entries /\ v.class[a] = v.class[b]

Newer(v, C) == {x[1] : x \in {y \in v.supersedes : y[2] \in C}}
SupersededBy(v, e) ==
    IF e \in v.entries THEN MembersOf(v.class, Newer(v, {v.class[e]})) ELSE {}
Supersedes(v, e) ==
    IF e \in v.entries
    THEN MembersOf(v.class, {x[2] : x \in {y \in v.supersedes : y[1] = v.class[e]}})
    ELSE {}
IsSuperseded(v, e) == e \in v.entries /\ Newer(v, {v.class[e]}) # {}

\* Mutant: follows one step of replacement only.
VisitedOnce(v, C) == C \cup Newer(v, C)

\* Current: from class to newer class, each visited once; the classes at
\* which nothing newer is left.
Visited(v, C) ==
    LET Within[n \in Nat] ==
            IF n = 0 THEN C ELSE LET X == Within[n - 1] IN X \cup Newer(v, X)
    IN  Within[Cardinality(v.supersedes)]
Current(v, e) ==
    IF e \in v.entries
    THEN MembersOf(v.class, {c \in Visited(v, {v.class[e]}) : Newer(v, {c}) = {}})
    ELSE {}

Contradictions(v, e) ==
    IF e \in v.entries
    THEN MembersOf(v.class, UNION {IF Cardinality(P) = 1 THEN P ELSE P \ {v.class[e]} :
                                    P \in {Q \in v.contradicts : v.class[e] \in Q}})
    ELSE {}

\* Accepted, the molecules an application shows: neither retracted nor
\* replaced.
AcceptedMolecules(v) ==
    {m \in v.entries : /\ kind[m] = "molecule"
                       /\ Truth(v, m) # "retracted"
                       /\ ~IsSuperseded(v, m)}
=============================================================================
