------------------------- MODULE MCMultiNodeTestnet -------------------------
(***************************************************************************)
(* Instances of MultiNodeTestnet for TLC.                                  *)
(***************************************************************************)
EXTENDS MultiNodeTestnet

\* No amount at all, a good list, and one that no account can pay.
SomeStakes == {<<NotANumber>>, <<2, 3>>, <<2, 9>>}

\* No list, and one that is too short for two nodes.
SomePorts == {<<>>, <<26657>>}

NoPorts == {<<>>}

\* The first of two entries is no number.
OneMisread == {<<NotANumber, 3>>}
=============================================================================
