----------------------------- MODULE MCAnnounce -----------------------------
EXTENDS Announce, MCUniverse

CONSTANT p1     \* model value: the goroutine that serves the requests

\* Both families of blocks; nothing of one refers to the other.
MCContent == [d \in DOMAIN WholeContent \cup DOMAIN PrivateContent |->
                 IF d \in DOMAIN WholeContent THEN WholeContent[d] ELSE PrivateContent[d]]

\* A chain announced backwards, and without its genesis block; blocks
\* announced before and after what their operations and refs need; a block
\* that nothing accepts, before and after its predecessor; and y, which is
\* accepted only while u is missing.
Plain ==
    {<<"p", "g">>, <<"r">>, <<"u", "t">>, <<"t", "s">>,
     <<"v", "u">>, <<"s", "t", "u", "v">>, <<"y">>}

\* Blocks that need private blocks, in any order.
Sealed ==
    {<<"j", "k">>, <<"q">>, <<"w", "x">>, <<"i", "z">>, <<"h", "o">>, <<"l">>}

\* Two blocks missing at once.
Twofold == {<<"b", "s">>, <<"p", "g">>, <<"b">>}

MCAnnounces == {Plain, Sealed, Twofold}
=============================================================================
