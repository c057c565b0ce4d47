---------------------------- MODULE PulsarChain ----------------------------
(***************************************************************************)
(* The chain whose state the export reads: validators, delegations, the    *)
(* reward ledger and the signing infos, moved block by block in the module *)
(* order that app/app_config.go gives.  The handlers themselves are those  *)
(* of x/staking, x/slashing and x/distribution (not in src/); they are     *)
(* here because the export's correctness is a claim about every state they *)
(* can reach.                                                              *)
(*                                                                         *)
(* A block is: BeginBlock, one AllocateTokens per active validator (distr),*)
(* at most one slash (slashing), at most one transaction, EndBlock         *)
(* (staking).  An operator of a validator is the account of the same       *)
(* number, numbers standing for the order of addresses in the store.       *)
(***************************************************************************)
EXTENDS Distribution, FiniteSets, FiniteSetsExt

CONSTANTS
    Vals,           \* the validators of the genesis
    Accounts,       \* the delegators, operators among them
    MaxValidators,  \* staking parameter: the size of the active set
    PowerReduction, \* staking: tokens to one unit of consensus power
    GenesisTokens,  \* self-delegation of each validator in the genesis
    Fees,           \* whole coins collected per active validator and block
    Earning,        \* the part of them that goes to the validator (units)
    Commission,     \* the operator's part of that (units)
    SlashNumerator, SlashDenominator,  \* the fraction an offence costs
    MaxTokens,      \* bound: no delegation takes a validator above this
    MaxHeight       \* bound: the last height of the original chain

ASSUME ChainAssumption ==
    /\ Vals \subseteq Nat /\ Vals \subseteq Accounts /\ IsFiniteSet(Accounts)
    /\ MaxValidators \in Nat \ {0} /\ PowerReduction \in Nat \ {0}
    /\ GenesisTokens \in [Vals -> Nat \ {0}]
    /\ Fees \in Nat /\ Earning \in 0 .. Fees * Precision /\ Commission \in 0 .. Earning
    /\ SlashNumerator \in Nat /\ SlashDenominator \in Nat \ {0}
    /\ SlashNumerator <= SlashDenominator
    /\ MaxTokens \in Nat /\ MaxHeight \in Nat

VARIABLES
    height,      \* height of the last block begun (0: the genesis)
    stage,       \* what the node does next
    todo,        \* validators a loop has not reached yet
    validator,   \* staking: the validator records
    delegation,  \* staking: shares of each delegation <<d, v>>
    powerIndex,  \* staking: validators in the power index
    last,        \* staking: the active set of the last block
    entries,     \* staking: unbonding and redelegation entries
    bondedPool,  \* bank: tokens of the bonded pool
    ledger,      \* distribution
    signing      \* slashing: start height of each signing info

stakingVars == <<validator, delegation, powerIndex, last, entries, bondedPool>>
chainVars   == <<height, stage, todo, stakingVars, ledger, signing>>

Pairs       == Accounts \X Vals
NoInfo      == -1  \* the validator was never bonded: it has no signing info
Statuses    == {"bonded", "unbonding", "unbonded"}
BlockStages == {"committed", "distributing", "slashing", "delivering", "ending"}

----------------------------------------------------------------------------
\* Staking arithmetic and hooks, on a record of the variables a transaction
\* moves: validator, delegation, powerIndex, bondedPool and ledger.

Staking == [validator |-> validator, delegation |-> delegation,
            powerIndex |-> powerIndex, bondedPool |-> bondedPool, ledger |-> ledger]

Becomes(s) ==
    /\ validator' = s.validator
    /\ delegation' = s.delegation
    /\ powerIndex' = s.powerIndex
    /\ bondedPool' = s.bondedPool
    /\ ledger' = s.ledger

\* TokensFromSharesTruncated, a decimal.
Stake(s, v, shares) ==
    IF s.validator[v].shares = 0 THEN 0
    ELSE (shares * s.validator[v].tokens * Precision) \div s.validator[v].shares

StakeOf(s, d, v) == Stake(s, v, s.delegation[<<d, v>>])

SharesFromTokens(s, v, tokens) ==
    IF s.validator[v].shares = 0 THEN tokens * Precision
    ELSE (s.validator[v].shares * tokens) \div s.validator[v].tokens

\* RemoveDelShares: the last shares take every token.
TokensRemoved(s, v, shares) ==
    IF shares = s.validator[v].shares THEN s.validator[v].tokens
    ELSE (shares * s.validator[v].tokens) \div s.validator[v].shares

IfBonded(s, v, tokens) == IF s.validator[v].status = "bonded" THEN tokens ELSE 0

Withdrawn(s, d, v, h) ==
    WithdrawRewards(s.ledger, d, v, s.validator[v].tokens, h, StakeOf(s, d, v))

AddTokens(val, tokens, shares) ==
    [val EXCEPT !.tokens = @ + tokens, !.shares = @ + shares]

RemoveTokens(val, tokens, shares, jail) ==
    [val EXCEPT !.tokens = @ - tokens, !.shares = @ - shares, !.jailed = @ \/ jail]

\* Keeper.Delegate with the hooks BeforeDelegationCreated or
\* BeforeDelegationSharesModified, and AfterDelegationModified.
Delegated(s, d, v, tokens, h) ==
    LET key    == <<d, v>>
        has    == key \in DOMAIN s.delegation
        issued == SharesFromTokens(s, v, tokens)
        hooked == IF has THEN Withdrawn(s, d, v, h)
                  ELSE IncrementPeriod(s.ledger, v, s.validator[v].tokens)
        t == [s EXCEPT
                !.validator[v] = AddTokens(@, tokens, issued),
                !.delegation = Put(@, key, issued + IF has THEN @[key] ELSE 0),
                !.bondedPool = @ + IfBonded(s, v, tokens)]
    IN  [t EXCEPT !.ledger = InitializeDelegation(hooked, d, v, StakeOf(t, d, v), h)]

\* Keeper.Unbond: the hooks run before the validator loses the shares, and an
\* operator left with less than one token of its own is jailed.
Unbonded(s, d, v, shares, h) ==
    LET key    == <<d, v>>
        left   == s.delegation[key] - shares
        hooked == Withdrawn(s, d, v, h)
        jail   == d = v /\ Stake(s, v, left) < Precision
    IN  [validator  |-> [s.validator EXCEPT
                            ![v] = RemoveTokens(@, TokensRemoved(s, v, shares), shares, jail)],
         delegation |-> IF left = 0 THEN Drop(s.delegation, key)
                        ELSE Put(s.delegation, key, left),
         powerIndex |-> IF jail THEN s.powerIndex \ {v} ELSE s.powerIndex,
         bondedPool |-> s.bondedPool - IfBonded(s, v, TokensRemoved(s, v, shares)),
         ledger     |-> IF left = 0 THEN hooked
                        ELSE InitializeDelegation(hooked, d, v, Stake(s, v, left), h)]

----------------------------------------------------------------------------
\* The active set.  Tokens of less than one unit of power give none.
Power(v, val) == val[v].tokens \div PowerReduction

\* The order of the power index: power descending, then address.
Ahead(u, v, val) == \/ Power(u, val) > Power(v, val)
                    \/ Power(u, val) = Power(v, val) /\ u < v

Rank(v, index, val) == Cardinality({u \in index : Ahead(u, v, val)})

\* The validators ApplyAndReturnValidatorSetUpdates visits: it stops after
\* MaxValidators of them, or at the first without power.
Visited(index, val) ==
    {v \in index : /\ Rank(v, index, val) < MaxValidators
                   /\ Power(v, val) = 0 =>
                        \A u \in index : Power(u, val) = 0 => ~ Ahead(u, v, val)}

Top(index, val) == {v \in Visited(index, val) : Power(v, val) > 0}

\* "should never retrieve a jailed validator from the power store"
MayApply(index, val) == \A v \in Visited(index, val) : ~ val[v].jailed

TokensOfSet(S, val) == MapThenSumSet(LAMBDA v : val[v].tokens, S)

\* Bond the top of the index, start unbonding the rest of the last set.
Applied(index, val, h) ==
    [v \in DOMAIN val |->
        IF v \in Top(index, val) THEN [val[v] EXCEPT !.status = "bonded"]
        ELSE IF v \in last
             THEN [val[v] EXCEPT !.status = "unbonding", !.unbondingHeight = h]
             ELSE val[v]]

\* A validator that joins the set starts its signing info (AfterValidatorBonded).
ApplyAndReturnValidatorSetUpdates(val, h) ==
    LET top == Top(powerIndex, val) IN
    /\ validator' = Applied(powerIndex, val, h)
    /\ last' = top
    /\ bondedPool' = bondedPool + TokensOfSet(top \ last, val) - TokensOfSet(last \ top, val)
    /\ signing' = [v \in DOMAIN signing |-> IF v \in top \ last THEN h ELSE signing[v]]

----------------------------------------------------------------------------
\* InitChain: every validator delegates to itself (a gentx creates it, which
\* starts period 1, and delegates, which ends it), then the set is formed.

GenesisValidator(v) ==
    [tokens |-> GenesisTokens[v], shares |-> GenesisTokens[v] * Precision,
     status |-> "unbonded", jailed |-> FALSE, unbondingHeight |-> 0]

GenesisRewards ==
    [outstanding |-> 0, commission |-> 0, current |-> 0, period |-> 2,
     historical  |-> [p \in {1} |-> [ratio |-> 0, refs |-> 2]],
     slashes     |-> {}]

GenesisSet == Top(Vals, [v \in Vals |-> GenesisValidator(v)])

InitChain ==
    /\ height = 0
    /\ stage = "committed"
    /\ todo = {}
    /\ validator = [v \in Vals |->
            [GenesisValidator(v) EXCEPT
                !.status = IF v \in GenesisSet THEN "bonded" ELSE @]]
    /\ delegation = [p \in {<<v, v>> : v \in Vals} |-> GenesisTokens[p[2]] * Precision]
    /\ powerIndex = Vals
    /\ last = GenesisSet
    /\ entries = {}
    /\ bondedPool = TokensOfSet(GenesisSet, validator)
    /\ ledger = [rewards |-> [v \in Vals |-> GenesisRewards],
                 start   |-> [p \in {<<v, v>> : v \in Vals} |->
                                [period |-> 1, stake |-> GenesisTokens[p[2]] * Precision,
                                 height |-> 0]],
                 pool    |-> 0,
                 balance |-> 0]
    /\ signing = [v \in Vals |-> IF v \in GenesisSet THEN 0 ELSE NoInfo]

----------------------------------------------------------------------------
\* One block.

\* distr.BeginBlocker allocates from height 2 on, to the last commit's votes;
\* community tax and dust stay in the community pool.
BeginBlock ==
    /\ stage = "committed"
    /\ height' = height + 1
    /\ IF height' > 1
       THEN stage' = "distributing" /\ todo' = last
       ELSE stage' = "slashing" /\ todo' = {}
    /\ UNCHANGED <<stakingVars, ledger, signing>>

AllocateTokensToValidator(v) ==
    /\ stage = "distributing"
    /\ v \in todo /\ \A u \in todo : v <= u
    /\ ledger' = AllocateTokens(ledger, v, Fees, Earning, Commission)
    /\ todo' = todo \ {v}
    /\ stage' = IF todo' = {} THEN "slashing" ELSE stage
    /\ UNCHANGED <<height, stakingVars, signing>>

NoOffence ==
    /\ stage = "slashing"
    /\ stage' = "delivering"
    /\ UNCHANGED <<height, todo, stakingVars, ledger, signing>>

Least(a, b) == IF a <= b THEN a ELSE b

\* Slash takes its fraction of the tokens that the power of the offender stands
\* for.
Burned(v) ==
    Least((Power(v, validator) * PowerReduction * SlashNumerator) \div SlashDenominator,
          validator[v].tokens)

\* The fraction the burned tokens are of the validator's, rounded up.
EffectiveFraction(v) ==
    (Burned(v) * Precision + validator[v].tokens - 1) \div validator[v].tokens

\* Mutant of SlashAndJail: the hook BeforeValidatorSlashed is not called.
SlashAndJailUnrecorded(v) ==
    /\ stage = "slashing"
    /\ v \in last /\ ~ validator[v].jailed
    /\ stage' = "delivering"
    /\ validator' = [validator EXCEPT ![v].jailed = TRUE, ![v].tokens = @ - Burned(v)]
    /\ powerIndex' = powerIndex \ {v}
    /\ bondedPool' = bondedPool - Burned(v)
    /\ UNCHANGED <<height, todo, delegation, last, entries, ledger, signing>>

\* slashing.BeginBlocker finds an offence of an active validator: Slash burns
\* tokens and Jail takes it out of the power index.  A block whose burn the
\* bonded pool cannot pay, or whose hook panics, fails, and with it the chain.
SlashAndJail(v) ==
    /\ stage = "slashing"
    /\ v \in last /\ ~ validator[v].jailed /\ Burned(v) <= bondedPool
    /\ Burned(v) = 0 \/ MayIncrementPeriod(ledger, v)
    /\ stage' = "delivering"
    /\ validator' = [validator EXCEPT ![v].jailed = TRUE, ![v].tokens = @ - Burned(v)]
    /\ powerIndex' = powerIndex \ {v}
    /\ bondedPool' = bondedPool - Burned(v)
    /\ ledger' = IF Burned(v) = 0 THEN ledger
                 ELSE RecordSlash(ledger, v, validator[v].tokens, height, EffectiveFraction(v))
    /\ UNCHANGED <<height, todo, delegation, last, entries, signing>>

\* What every transaction has in common: at most one in a block (bound).
Deliver ==
    /\ stage = "delivering"
    /\ stage' = "ending"
    /\ UNCHANGED <<height, todo, last, signing>>

\* A hook that panics fails the transaction, which changes nothing.
HooksPass(d, v) ==
    IF <<d, v>> \in DOMAIN delegation
    THEN MayWithdraw(ledger, d, v, validator[v].tokens, height, StakeOf(Staking, d, v))
    ELSE MayIncrementPeriod(ledger, v)

Delegate(d, v) ==
    /\ Deliver
    /\ validator[v].tokens > 0 \/ validator[v].shares = 0
    /\ validator[v].tokens < MaxTokens
    /\ HooksPass(d, v)
    /\ Becomes(Delegated(Staking, d, v, 1, height))
    /\ UNCHANGED entries

\* Mutant of Undelegable: a token's shares may be more than the delegation has.
UndelegableUncapped(d, v) ==
    {s \in {delegation[<<d, v>>], SharesFromTokens(Staking, v, 1)} :
        /\ s <= validator[v].shares
        /\ TokensRemoved(Staking, v, s) \in 1 .. validator[v].tokens
        /\ validator[v].status = "bonded" \/ TokensRemoved(Staking, v, s) < validator[v].tokens}

\* One token's shares or the whole delegation; a validator that would be left
\* with less than nothing panics, and with it the transaction.  Bound: one that
\* is not active keeps a token, so that none is removed from the store.
Undelegable(d, v) ==
    {s \in {delegation[<<d, v>>], SharesFromTokens(Staking, v, 1)} :
        /\ s <= delegation[<<d, v>>] /\ s <= validator[v].shares
        /\ TokensRemoved(Staking, v, s) \in 1 .. validator[v].tokens
        /\ validator[v].status = "bonded" \/ TokensRemoved(Staking, v, s) < validator[v].tokens}

Undelegate(d, v) ==
    /\ Deliver
    /\ <<d, v>> \in DOMAIN delegation
    /\ validator[v].tokens > 0
    /\ HooksPass(d, v)
    /\ \E s \in Undelegable(d, v) :
         /\ IfBonded(Staking, v, TokensRemoved(Staking, v, s)) <= bondedPool
         /\ Becomes(Unbonded(Staking, d, v, s, height))
    /\ entries' = entries \union
            {[kind |-> "unbonding", who |-> d, from |-> v, to |-> v, height |-> height]}

\* BeginRedelegation: not out of a validator that was redelegated to, and the
\* entry starts at getBeginInfo's height (none out of an unbonded validator).
BeginRedelegate(d, v, w) ==
    /\ Deliver
    /\ v # w /\ <<d, v>> \in DOMAIN delegation
    /\ validator[v].tokens > 0
    /\ ~ \E e \in entries : e.kind = "redelegation" /\ e.who = d /\ e.to = v
    /\ HooksPass(d, v) /\ HooksPass(d, w)
    /\ \E s \in Undelegable(d, v) :
         LET tokens == TokensRemoved(Staking, v, s) IN
         /\ validator[w].tokens > 0 \/ validator[w].shares = 0
         /\ validator[w].tokens + tokens <= MaxTokens
         /\ Becomes(Delegated(Unbonded(Staking, d, v, s, height), d, w, tokens, height))
    /\ entries' = entries \union
            (IF validator[v].status = "unbonded" THEN {}
             ELSE {[kind |-> "redelegation", who |-> d, from |-> v, to |-> w,
                    height |-> IF validator[v].status = "bonded" THEN height
                               ELSE validator[v].unbondingHeight]})

\* MsgWithdrawDelegatorReward: withdraw and start again.
WithdrawDelegatorReward(d, v) ==
    /\ Deliver
    /\ <<d, v>> \in DOMAIN delegation
    /\ HooksPass(d, v)
    /\ ledger' = InitializeDelegation(Withdrawn(Staking, d, v, height), d, v,
                                      StakeOf(Staking, d, v), height)
    /\ UNCHANGED stakingVars

\* MsgUnjail needs a self-delegation of one token.
Unjail(v) ==
    /\ Deliver
    /\ validator[v].jailed
    /\ <<v, v>> \in DOMAIN delegation /\ StakeOf(Staking, v, v) >= Precision
    /\ validator' = [validator EXCEPT ![v].jailed = FALSE]
    /\ powerIndex' = powerIndex \union {v}
    /\ UNCHANGED <<delegation, last, entries, bondedPool, ledger>>

Transaction ==
    \/ \E d \in Accounts, v \in DOMAIN validator :
         \/ Delegate(d, v)
         \/ Undelegate(d, v)
         \/ WithdrawDelegatorReward(d, v)
         \/ \E w \in DOMAIN validator : BeginRedelegate(d, v, w)
    \/ \E v \in DOMAIN validator : Unjail(v)

\* staking.EndBlocker, then Commit.  CometBFT refuses an empty active set: the
\* chain halts before such a state is committed.
EndBlock ==
    /\ stage \in {"delivering", "ending"}
    /\ Top(powerIndex, validator) # {}
    /\ stage' = "committed"
    /\ ApplyAndReturnValidatorSetUpdates(validator, height)
    /\ UNCHANGED <<height, todo, delegation, powerIndex, entries, ledger>>

Block(h) ==
    \/ height < h /\ BeginBlock
    \/ \E v \in todo : AllocateTokensToValidator(v)
    \/ NoOffence
    \/ \E v \in last : SlashAndJail(v)
    \/ Transaction
    \/ EndBlock

----------------------------------------------------------------------------
\* The chain without exports.

ChainSpec == InitChain /\ [][Block(MaxHeight)]_chainVars
=============================================================================
