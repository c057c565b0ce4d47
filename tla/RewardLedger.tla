---------------------------- MODULE RewardLedger ----------------------------
(***************************************************************************)
(* What the reward ledger promises, whoever drives it: coins come in for   *)
(* one validator and are split between its account and the community pool; *)
(* they leave an account as a payment or for the pool, and nothing else    *)
(* ever moves.  A transaction settles at most two validators' accounts     *)
(* (the source and the destination of a redelegation).                     *)
(***************************************************************************)
EXTENDS Integers

CONSTANT Vals

VARIABLES balance, pool, outstanding

vars == <<balance, pool, outstanding>>

Init ==
    /\ balance = 0
    /\ pool = 0
    /\ outstanding = [v \in Vals |-> 0]

Change(v) == outstanding'[v] - outstanding[v]

OnlyMove(S) ==
    /\ DOMAIN outstanding' = Vals
    /\ \A w \in Vals \ S : outstanding'[w] = outstanding[w]

Collect(v) ==
    /\ OnlyMove({v})
    /\ Change(v) >= 0 /\ pool' >= pool
    /\ balance' - balance = (pool' - pool) + Change(v)

Settle(u, v) ==
    /\ OnlyMove({u, v})
    /\ Change(u) <= 0 /\ Change(v) <= 0 /\ pool' >= pool /\ balance' <= balance
    /\ balance' - balance = (pool' - pool) + Change(u) + IF u = v THEN 0 ELSE Change(v)

Next == \E u, v \in Vals : Collect(v) \/ Settle(u, v)

Spec == Init /\ [][Next]_vars
=============================================================================
