------------------------------ MODULE AppState ------------------------------
(***************************************************************************)
(* The state of the application and what genesis files, blocks and the     *)
(* in-place testnet make of it.  The state is the messages delivered so    *)
(* far, whether the parameters of x/pulsar are stored (Params is a message *)
(* without fields), and what a testnet has rewritten.  The version map     *)
(* that the InitChainer writes is read by upgrades alone, of which the     *)
(* repository has none yet.                                                *)
(***************************************************************************)
EXTENDS AppConfig

Empty == [delivered |-> <<>>, params |-> "absent", rewritten |-> {}]

\* What initAppForTestnet writes, in its order.
Sections == <<"staking", "distribution", "slashing", "bank">>

Rewritten(s) == [s EXCEPT !.rewritten = ToSet(Sections)]

\* A message of a signer that is no address or not the authority is refused.
UpdateParams(s, signer) ==
    [s EXCEPT !.delivered = Append(@, signer),
              !.params = IF signer = authority THEN "stored" ELSE @]

\* The messages of a block, one after the other.
Execute(s, block) ==
    [s EXCEPT !.delivered = @ \o block,
              !.params = IF authority \in ToSet(block) THEN "stored" ELSE @]

\* InitChainer, of a file it accepts: a module without a section is left out.
GenesisState(file) ==
    [Empty EXCEPT !.params = IF "pulsar" \in file.sections THEN "stored" ELSE "absent"]
=============================================================================
