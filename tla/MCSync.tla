------------------------------- MODULE MCSync -------------------------------
(***************************************************************************)
(* A behaviour keeps to one family: the blocks there are, and whether      *)
(* another goroutine offers blocks as well.                                *)
(***************************************************************************)
EXTENDS Sync, MCUniverse

NoLimit == -1

\* The order of digests in every universe: sources learn of lower ones late.
Ranks == [d \in Digest |->
            CHOOSE n \in 1..10 :
                <<"c1", "a1", "a2", "a3", "b2", "g", "x", "v", "s", "u">>[n] = d]

\* The blocks of a universe that a run uses.
ChainBlocks == [d \in Digest |-> SyncContent[d]]
LiarBlocks == [d \in Digest |-> LiarContent[d]]

OneSource == <<"s1">>
TwoSources == <<"s1", "s2">>

\* What an honest source may come to hold; the second one holds a branch only.
\* Any other source answers as it likes, whatever it holds.
AllGains ==
    [i \in Source |-> IF i \notin Honest THEN {}
                      ELSE IF i = "s1" THEN Digest ELSE Digest \cap {"a1", "b2"}]

\* With honest sources that do not fail, what is left to rely on holds too.
ASSUME InstanceAssumption == Honest = Source /\ Flaky = {} => Dependable

CONSTANT Families
VARIABLE family

Alone(D) == [digests |-> D, procs |-> {syncer}]
Shared(D) == [digests |-> D, procs |-> Proc]
AloneFamily == {Alone(Digest)}
LiarFamilies == {Alone({"g", "x", "s", "u"}), Shared({"g", "v"})}

InPlay ==
    {block[p] : p \in Proc} \cup Range(call.hand) \cup {call.reports[i].tip : i \in Source}

MCInit == InitSync /\ family \in Families
MCNext ==
    /\ SyncNext
    /\ UNCHANGED family
    /\ InPlay' \subseteq family.digests \cup {NoDigest}
    /\ \A p \in Proc \ family.procs : pc'[p] = "idle"

MCSpec == MCInit /\ [][MCNext]_<<allVars, family>>

FairMCSpec ==
    /\ MCSpec
    /\ WF_allVars(CallStep)
    /\ \A p \in Proc : WF_allVars(AddStep(p))
=============================================================================
