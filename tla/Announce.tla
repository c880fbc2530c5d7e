------------------------------ MODULE Announce ------------------------------
(***************************************************************************)
(* StoreAnnouncer (go/transport/announce.go): announce requests against a  *)
(* ValidatingStore.  A request offers its blocks one by one, and reads the *)
(* dispositions back only when all have been offered.  Requests run in     *)
(* goroutines of their own and share the store.                            *)
(***************************************************************************)
EXTENDS ValidatingStore, Chain

CONSTANT Announces  \* bound: for each behaviour, the sequences announced in it

ASSUME AnnouncesAssumption == Announces \subseteq SUBSET Seq(Digest)

VARIABLES
    offered,    \* the sequences of this behaviour
    asked,      \* asked[p]: the sequence p is serving
    offers,     \* offers[p]: what is left of the first pass
    readings,   \* readings[p]: what is left of the second pass
    refused,    \* refused[p]: the blocks whose Add returned an error
    receipt,    \* receipt[p]: what the second pass has written so far
    answered    \* the last receipt sent, and the sequence it answered

passVars == <<offered, asked, offers, readings, refused, receipt, answered>>
announceVars == <<vars, passVars>>

Receipt == [accepted : SUBSET Digest, held : SUBSET Digest, rejected : SUBSET Digest]
NoReceipt == [accepted |-> {}, held |-> {}, rejected |-> {}]
NoAnswer == [asked |-> <<>>, receipt |-> NoReceipt]

AnnounceTypeOK ==
    /\ TypeOK
    /\ offered \in Announces
    /\ asked \in [Proc -> offered \cup {<<>>}]
    /\ offers \in [Proc -> Seq(Digest)]
    /\ readings \in [Proc -> Seq(Digest)]
    /\ refused \in [Proc -> SUBSET Digest]
    /\ receipt \in [Proc -> Receipt]
    /\ answered \in [asked : offered \cup {<<>>}, receipt : Receipt]

AnnounceInit ==
    /\ Init
    /\ offered \in Announces
    /\ asked = [p \in Proc |-> <<>>]
    /\ offers = [p \in Proc |-> <<>>]
    /\ readings = [p \in Proc |-> <<>>]
    /\ refused = [p \in Proc |-> {}]
    /\ receipt = [p \in Proc |-> NoReceipt]
    /\ answered = NoAnswer
-----------------------------------------------------------------------------
\* A request arrives.  (Of an answer to a sequence only the next request is
\* compared with it.)
Announce(p, s) ==
    /\ asked[p] = <<>>
    /\ asked' = [asked EXCEPT ![p] = s]
    /\ offers' = [offers EXCEPT ![p] = s]
    /\ readings' = [readings EXCEPT ![p] = s]
    /\ answered' = IF answered.asked = s THEN answered ELSE NoAnswer
    /\ UNCHANGED <<vars, offered, refused, receipt>>

OfferNext(p) ==
    /\ offers[p] # <<>>
    /\ Offer(p, Head(offers[p]))
    /\ offers' = [offers EXCEPT ![p] = Tail(@)]
    /\ UNCHANGED <<offered, asked, readings, refused, receipt, answered>>

\* A call of Add takes a step.  An error it returns is remembered.
AddStep(p) ==
    LET fails == pc[p] = "done" /\ arrived[p] = NoDigest /\ adm[p].verdict = "invalid"
    IN  /\ Step(p)
        /\ refused' = [refused EXCEPT ![p] = IF fails THEN @ \cup {block[p]} ELSE @]
        /\ UNCHANGED <<offered, asked, offers, readings, receipt, answered>>

\* The request is over, with an answer or without.
Over(p) ==
    /\ asked' = [asked EXCEPT ![p] = <<>>]
    /\ offers' = [offers EXCEPT ![p] = <<>>]
    /\ readings' = [readings EXCEPT ![p] = <<>>]
    /\ refused' = [refused EXCEPT ![p] = {}]
    /\ receipt' = [receipt EXCEPT ![p] = NoReceipt]
    /\ UNCHANGED <<vars, offered>>

\* The context is cancelled in the first pass: no receipt, and what was offered
\* stays.
Cancel(p) ==
    /\ pc[p] = "idle"
    /\ offers[p] # <<>>
    /\ Over(p)
    /\ answered' = NoAnswer

\* The second pass reads one verdict.
With(r, refusals, d) ==
    CASE d \in refusals \/ verdicts[d].verdict = "unknown" ->
             [r EXCEPT !.rejected = @ \cup {d}]
      [] d \notin refusals /\ Accepted(d) -> [r EXCEPT !.accepted = @ \cup {d}]
      [] OTHER -> [r EXCEPT !.held = @ \cup {d}]

\* Mutant: a disposition is read as soon as its block has been offered.
ReadNextAtOnce(p) ==
    /\ pc[p] = "idle"
    /\ Len(readings[p]) > Len(offers[p])
    /\ receipt' = [receipt EXCEPT ![p] = With(@, refused[p], Head(readings[p]))]
    /\ readings' = [readings EXCEPT ![p] = Tail(@)]
    /\ UNCHANGED <<vars, offered, asked, offers, refused, answered>>

ReadNext(p) ==
    /\ pc[p] = "idle"
    /\ offers[p] = <<>>
    /\ readings[p] # <<>>
    /\ receipt' = [receipt EXCEPT ![p] = With(@, refused[p], Head(readings[p]))]
    /\ readings' = [readings EXCEPT ![p] = Tail(@)]
    /\ UNCHANGED <<vars, offered, asked, offers, refused, answered>>

Complete(p) ==
    pc[p] = "idle" /\ asked[p] # <<>> /\ offers[p] = <<>> /\ readings[p] = <<>>

Respond(p) ==
    /\ Complete(p)
    /\ Over(p)
    /\ answered' = [asked |-> asked[p], receipt |-> receipt[p]]

Request(p) == OfferNext(p) \/ AddStep(p) \/ ReadNext(p) \/ Respond(p)

AnnounceNext == \E p \in Proc : \/ Request(p) \/ Cancel(p)
                                \/ \E s \in offered : Announce(p, s)

\* The scheduler runs every handler; nobody is obliged to announce or cancel.
AnnounceSpec == AnnounceInit /\ [][AnnounceNext]_announceVars
FairAnnounceSpec == AnnounceSpec /\ \A p \in Proc : WF_announceVars(Request(p))
-----------------------------------------------------------------------------
\* "Every submitted block appears in exactly one of the three members", and by
\* its state after the whole sequence: accepted if a later block of the
\* sequence settled it, held only if the store could not accept it even now or
\* the block it is filed under is still missing (one request at a time).
ReceiptIsFinal ==
    \A p \in Proc : Complete(p) =>
        LET r == receipt[p] IN
        /\ r.accepted \cup r.held \cup r.rejected = Range(asked[p])
        /\ r.accepted \cap (r.held \cup r.rejected) = {}
        /\ r.held \cap r.rejected = {}
        /\ r.accepted = Range(asked[p]) \cap accepted
        /\ \A d \in r.held : d \in blocks /\ StillWaits(d)

\* "Announcing the same sequence twice produces the same receipt" (spec/07).
SameReceipt ==
    [][\A p \in Proc : Respond(p) /\ answered.asked = asked[p]
                            => answered'.receipt = answered.receipt]_announceVars

\* Mutant: every block of the chain is validated again.
chainRevalidated == {d \in blocks : Acceptable(d)}

\* accepted: ValidateChain over a store that carries verdicts takes an accepted
\* block as it stands.
chainValid == {d \in blocks : Accepted(d) \/ Acceptable(d)}

\* A chain that was accepted is not refused later, though its blocks might not
\* be accepted any more now that more of their refs are held (chain.go).
AcceptedChainsStayValid == \A d \in accepted : ValidateChain(d, chainValid)

\* Every request ends.
AnnounceTerminates == \A p \in Proc : asked[p] # <<>> ~> asked[p] = <<>>
=============================================================================
