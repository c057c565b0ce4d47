----------------------------- MODULE MCPulsarApp -----------------------------
(* Blocks with and without messages of the authority; the genesis files of a  *)
(* network, of an export without the section of x/pulsar, of `init` alone, and *)
(* one with genesis transactions of accounts that it does not have.            *)
EXTENDS PulsarApp

MCBlocks  == {<<"alice", "gov">>, <<"malformed">>}

MCGenesis == {[sections |-> DefaultGenesis, validators |-> {"genutil"}],
              [sections |-> DefaultGenesis \ {"pulsar"}, validators |-> {"staking"}],
              [sections |-> DefaultGenesis, validators |-> {}],
              [sections |-> DefaultGenesis \ {"auth"}, validators |-> {"genutil"}]}
=============================================================================
