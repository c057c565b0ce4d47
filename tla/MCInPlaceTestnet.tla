-------------------------- MODULE MCInPlaceTestnet --------------------------
(***************************************************************************)
(* Instances of InPlaceTestnet for TLC.                                    *)
(***************************************************************************)
EXTENDS InPlaceTestnet

TwoTokens == [v \in Vals |-> 2]

NoList == {{}}

\* No flag, one account, and one account before an entry that is no address.
SomeFlags == {<<>>, <<1>>, <<1, Malformed>>}

OneAccount == {<<1>>}

NoFlag == {<<>>}
=============================================================================
