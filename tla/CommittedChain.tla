--------------------------- MODULE CommittedChain ---------------------------
(***************************************************************************)
(* What the application promises the consensus engine: the states that are *)
(* committed are those of the decided blocks, executed one after the other *)
(* and each exactly once, beginning with the genesis file.  The operator   *)
(* may replace the validators of a committed state as a whole.             *)
(***************************************************************************)
EXTENDS Naturals, Sequences

CONSTANTS
    Blocks,            \* contents of blocks
    Genesis,           \* genesis files
    GenesisState(_),   \* the state of a genesis file
    Execute(_, _),     \* the state after the block that is executed on a state
    Rewritten(_)       \* the state with the operator's validators

VARIABLES genesis, decided, chain

Init == genesis \in Genesis /\ decided = <<>> /\ chain = <<>>

\* The state that the block of this height is executed on.
Before(h) == IF h = 1 THEN GenesisState(genesis) ELSE chain[h - 1]

Decide ==
    /\ \E block \in Blocks : decided' = Append(decided, block)
    /\ UNCHANGED <<genesis, chain>>

Apply ==
    LET h == Len(chain) + 1 IN
    /\ h \in DOMAIN decided
    /\ \E s \in {Before(h)} \union (IF h = 1 THEN {} ELSE {Rewritten(Before(h))}) :
           chain' = Append(chain, Execute(s, decided[h]))
    /\ UNCHANGED <<genesis, decided>>

Spec == Init /\ [][Decide \/ Apply]_<<genesis, decided, chain>>
=============================================================================
