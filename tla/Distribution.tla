---------------------------- MODULE Distribution ----------------------------
(***************************************************************************)
(* The part of x/distribution (Cosmos SDK, not in src/) that app/export.go *)
(* drives: the ledger of staking rewards and its reference-counted reward  *)
(* periods.  Every operator takes the ledger as a record and returns the   *)
(* record after the call, so that an action of the chain or of the export  *)
(* is a composition of calls, in the order in which the code makes them.   *)
(*                                                                         *)
(*   ledger.rewards[v]   what the module keeps for validator v:            *)
(*       outstanding     rewards allocated and not yet paid (inclusive)    *)
(*       commission      the part of them that belongs to the operator     *)
(*       current         the rewards of the period in progress             *)
(*       period          the number of the period in progress              *)
(*       historical      ended periods still referred to: cumulative       *)
(*                       reward ratio and reference count                  *)
(*       slashes         slash events: height, period, fraction            *)
(*   ledger.start        starting info of each delegation <<d, v>>: the    *)
(*                       period it starts after, its stake and its height  *)
(*   ledger.pool         the community pool                                *)
(*   ledger.balance      the coins of the module account                   *)
(*                                                                         *)
(* Amounts, stakes, ratios and fractions are decimals: integers that count *)
(* units of 1/Precision.  Coins are whole, so what is paid is truncated.   *)
(***************************************************************************)
EXTENDS Integers, Functions

CONSTANT Precision  \* the units of one (10^18 in the SDK)

ASSUME PrecisionAssumption == Precision \in Nat \ {0}

Truncate(amount) == (amount \div Precision) * Precision

Empty == [x \in {} |-> x]

Put(f, x, e) == [y \in DOMAIN f \union {x} |-> IF y = x THEN e ELSE f[y]]

Drop(f, x) == [y \in DOMAIN f \ {x} |-> f[y]]

----------------------------------------------------------------------------
\* Historical rewards: a missing record reads as the zero record.

Record(r, p) == IF p \in DOMAIN r.historical
                THEN r.historical[p]
                ELSE [ratio |-> 0, refs |-> 0]

\* incrementReferenceCount panics above two, decrementReferenceCount at zero.
MayIncrementRef(r, p) == Record(r, p).refs <= 2
MayDecrementRef(r, p) == Record(r, p).refs > 0

IncrementRef(r, p) ==
    [r EXCEPT !.historical =
        Put(@, p, [ratio |-> Record(r, p).ratio, refs |-> Record(r, p).refs + 1])]

DecrementRef(r, p) ==
    [r EXCEPT !.historical =
        IF Record(r, p).refs = 1
        THEN Drop(@, p)
        ELSE Put(@, p, [ratio |-> Record(r, p).ratio, refs |-> Record(r, p).refs - 1])]

----------------------------------------------------------------------------
\* A validator's periods.

\* initializeValidator (hook AfterValidatorCreated): it rewrites the records
\* of a new validator and leaves what other keys of the store hold.
InitializeValidator(ledger, v) ==
    LET r == ledger.rewards[v] IN
    [ledger EXCEPT !.rewards[v] =
        [outstanding |-> 0, commission |-> 0, current |-> 0, period |-> 1,
         historical  |-> Put(r.historical, 0, [ratio |-> 0, refs |-> 1]),
         slashes     |-> r.slashes]]

\* AllocateTokensToValidator: the commission is the operator's, the rest is
\* shared by the delegations; what is left of the coins stays in the pool.
Earned(r, amount, commission) ==
    [r EXCEPT !.outstanding = @ + amount,
              !.commission = @ + commission,
              !.current = @ + (amount - commission)]

AllocateTokens(ledger, v, coins, amount, commission) ==
    [ledger EXCEPT
        !.balance = @ + coins * Precision,
        !.pool = @ + (coins * Precision - amount),
        !.rewards[v] = Earned(@, amount, commission)]

\* IncrementValidatorPeriod: end the period in progress.  Rewards that nobody
\* has a stake in go to the community pool.
EndedRatio(r, tokens) ==
    Record(r, r.period - 1).ratio + IF tokens = 0 THEN 0 ELSE r.current \div tokens

Unclaimed(r, tokens) == IF tokens = 0 THEN r.current ELSE 0

EndPeriod(r, tokens) ==
    [outstanding |-> r.outstanding - Unclaimed(r, tokens),
     commission  |-> r.commission,
     current     |-> 0,
     period      |-> r.period + 1,
     historical  |-> Put(DecrementRef(r, r.period - 1).historical, r.period,
                         [ratio |-> EndedRatio(r, tokens), refs |-> 1]),
     slashes     |-> r.slashes]

MayIncrementPeriod(ledger, v) ==
    MayDecrementRef(ledger.rewards[v], ledger.rewards[v].period - 1)

IncrementPeriod(ledger, v, tokens) ==
    [ledger EXCEPT
        !.rewards[v] = EndPeriod(@, tokens),
        !.pool = @ + Unclaimed(ledger.rewards[v], tokens)]

\* BeforeValidatorSlashed: end the period and keep a slash event that refers
\* to it.
WithSlash(r, height, fraction) ==
    [IncrementRef(r, r.period - 1) EXCEPT
        !.slashes = @ \union
            {[height |-> height, period |-> r.period - 1, fraction |-> fraction]}]

RecordSlash(ledger, v, tokens, height, fraction) ==
    [IncrementPeriod(ledger, v, tokens) EXCEPT
        !.rewards[v] = WithSlash(@, height, fraction)]

----------------------------------------------------------------------------
\* A delegation's starting info and its rewards.

\* initializeDelegation (hook AfterDelegationModified): the delegation starts
\* after the period that has just ended.
InitializeDelegation(ledger, d, v, stake, height) ==
    LET previous == ledger.rewards[v].period - 1 IN
    [ledger EXCEPT
        !.rewards[v] = IncrementRef(@, previous),
        !.start = Put(@, <<d, v>>,
                      [period |-> previous, stake |-> stake, height |-> height])]

\* calculateDelegationRewards folds the slash events of a delegation in the
\* order of their periods.  At[p] is what it has after the events up to p.
SlashesAt(r, info, height, p) ==
    {e \in r.slashes : e.period = p /\ info.height <= e.height /\ e.height <= height}

Between(r, from, to, stake) ==
    (stake * (Record(r, to).ratio - Record(r, from).ratio)) \div Precision

Accrued(r, info, height, ended) ==
    LET At[p \in info.period .. ended] ==
          IF p = info.period
          THEN [reward |-> 0, stake |-> info.stake, from |-> info.period]
          ELSE IF SlashesAt(r, info, height, p) = {} THEN At[p - 1]
          ELSE LET e == CHOOSE e \in SlashesAt(r, info, height, p) : TRUE
                   b == At[p - 1]
               IN  [reward |-> b.reward + Between(r, b.from, p, b.stake),
                    stake  |-> (b.stake * (Precision - e.fraction)) \div Precision,
                    from   |-> p]
    IN  At[ended]

\* A delegation that was modified at this height has no rewards yet; a stake
\* that rounding has left above the current one is lowered to it.
DelegationRewards(r, info, height, ended, currentStake) ==
    IF info.height = height THEN 0
    ELSE LET a     == Accrued(r, info, height, ended)
             stake == IF a.stake < currentStake THEN a.stake ELSE currentStake
         IN  a.reward + Between(r, a.from, ended, stake)

\* The delegation's rewards are capped by what the validator has outstanding
\* (a negative amount panics before: see MayWithdraw).
Payable(r, raw) == IF raw \in 0 .. r.outstanding THEN raw ELSE r.outstanding

PaidOut(r, from, reward) ==
    [DecrementRef(r, from) EXCEPT !.outstanding = @ - reward]

\* withdrawDelegationRewards: end the validator's period, pay whole coins,
\* give the remainder to the community pool, drop the starting info.
WithdrawRewards(ledger, d, v, tokens, height, currentStake) ==
    LET info   == ledger.start[<<d, v>>]
        ended  == ledger.rewards[v].period
        next   == IncrementPeriod(ledger, v, tokens)
        reward == Payable(next.rewards[v],
                          DelegationRewards(next.rewards[v], info, height, ended, currentStake))
    IN  [next EXCEPT
            !.balance = @ - Truncate(reward),
            !.pool = @ + (reward - Truncate(reward)),
            !.rewards[v] = PaidOut(@, info.period, reward),
            !.start = Drop(@, <<d, v>>)]

\* The margin of error calculateDelegationRewards allows for the stake.
RoundingMargin == 3

\* What a withdrawal demands of the state: it panics where this is false.
MayWithdraw(ledger, d, v, tokens, height, currentStake) ==
    LET info  == ledger.start[<<d, v>>]
        ended == ledger.rewards[v].period
        next  == IncrementPeriod(ledger, v, tokens).rewards[v]
    IN  /\ MayIncrementPeriod(ledger, v)
        /\ info.height # height =>
              /\ info.period <= ended
              /\ Accrued(next, info, height, ended).stake <= currentStake + RoundingMargin
              /\ \A p, q \in {info.period, ended} \union {e.period : e \in next.slashes} :
                    info.period <= p /\ p <= q /\ q <= ended
                        => Record(next, p).ratio <= Record(next, q).ratio
        /\ MayDecrementRef(next, info.period)

\* WithdrawValidatorCommission: an error, and no change, without commission.
CommissionCoins(r) == Truncate(r.commission)

WithoutCommission(r) ==
    [r EXCEPT !.commission = @ - CommissionCoins(r), !.outstanding = @ - CommissionCoins(r)]

WithdrawCommission(ledger, v) ==
    [ledger EXCEPT !.balance = @ - CommissionCoins(ledger.rewards[v]),
                   !.rewards[v] = WithoutCommission(@)]

MayWithdrawCommission(ledger, v) ==
    CommissionCoins(ledger.rewards[v]) <= ledger.rewards[v].outstanding

\* The deletions of the export, for every validator at once.
DeleteSlashEvents(ledger) ==
    [ledger EXCEPT !.rewards =
        [v \in DOMAIN ledger.rewards |-> [ledger.rewards[v] EXCEPT !.slashes = {}]]]

DeleteHistoricalRewards(ledger) ==
    [ledger EXCEPT !.rewards =
        [v \in DOMAIN ledger.rewards |-> [ledger.rewards[v] EXCEPT !.historical = Empty]]]

----------------------------------------------------------------------------
\* Types of the records above, and a helper to count with.

SlashEvent == [height : Nat, period : Nat, fraction : Int]

StartingInfo == [period : Nat, stake : Int, height : Nat]

One(b) == IF b THEN 1 ELSE 0

\* f is a function from some of S into T.
IsPartial(f, S, T) == DOMAIN f \subseteq S /\ f \in [DOMAIN f -> T]

RewardsOK(r) ==
    /\ r \in [outstanding : Int, commission : Int, current : Int, period : Nat,
              historical : {r.historical}, slashes : SUBSET SlashEvent]
    /\ IsPartial(r.historical, Nat, [ratio : Int, refs : Nat])
=============================================================================
