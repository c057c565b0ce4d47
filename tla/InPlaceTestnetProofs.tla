------------------------ MODULE InPlaceTestnetProofs ------------------------
(***************************************************************************)
(* That the testnet has one validator, the operator's, at every block, for *)
(* any validators, delegations and entries of the chain it was made from;  *)
(* that everything keeps its type; that the module account covers all      *)
(* rewards on record; and that the records of a new operator stay counted, *)
(* its delegators can withdraw and be paid back, and an export panics for  *)
(* nothing but its list and the delegations that the command stranded.     *)
(***************************************************************************)
EXTENDS InPlaceTestnet, AccountingProofs

\* A record of a bonded validator.
IsBonded(val) == "status" \in DOMAIN val /\ val.status = "bonded"

\* The operator's validator is the only one; it may be jailed in a block.
Alone ==
    /\ DOMAIN validator = {operator} /\ IsBonded(validator[operator])
    /\ last = {operator} /\ powerIndex \subseteq {operator}

Ours == {"recording", "registering", "funding"}

\* The inductive invariant.  Between a slash and the end of a block nobody may
\* be left in the power index; such a block is never committed.
OInv ==
    /\ stage \in CommandStages => operator # NoOperator
    /\ stage = "creating" => validator = Empty /\ powerIndex = {} /\ last = {}
    /\ stage \in Ours \/ Converted => Alone
    /\ stage \in Ours \/ (Converted /\ stage \in {"committed", "distributing", "slashing"})
           => powerIndex = {operator}

LEMMA OneOfInv == ASSUME OInv PROVE OneValidator
BY DEF OInv, OneValidator, Converted, Alone, IsBonded, BlockStages

----------------------------------------------------------------------------
\* The command.

LEMMA CommandKeeps ==
    ASSUME OInv,
           \/ \E op \in Operators, flag \in FundFlags : getCommandArgs(op, flag)
           \/ initAppForTestnet \/ StartNode
    PROVE  OInv'
<1>1. CASE \E op \in Operators, flag \in FundFlags : getCommandArgs(op, flag)
  <2>1. stage' = "replacing" /\ operator' \in Operators
    BY <1>1 DEF getCommandArgs
  <2>2. operator' # NoOperator
    BY <2>1, TestnetAssumption DEF NoOperator
  <2> QED
    BY <2>1, <2>2 DEF OInv, Converted, Ours, BlockStages
<1>2. CASE RemoveAllValidators
  BY <1>2 DEF OInv, RemoveAllValidators, CommandStep, CommandStages, Converted, Ours,
              BlockStages
<1>3. CASE AddOurValidator
  <2>1. /\ stage = "creating" /\ stage' = "recording" /\ operator' = operator
        /\ operator # NoOperator
        /\ validator' = Put(validator, operator, newVal)
        /\ powerIndex' = {operator} /\ last' = {operator}
    BY <1>3 DEF AddOurValidator, CommandStep, CommandStages, OInv
  <2>2. DOMAIN validator' = {operator} /\ validator'[operator] = newVal
    BY <2>1 DEF OInv, Put, Empty
  <2>3. IsBonded(newVal)
    BY DEF IsBonded, newVal
  <2> QED
    BY <2>1, <2>2, <2>3 DEF OInv, Alone, Converted, CommandStages, BlockStages
<1>4. CASE InitializeRecords \/ SetSigningInfo
  BY <1>4 DEF OInv, InitializeRecords, SetSigningInfo, CommandStep, CommandStages, stakingVars,
              Converted, Ours, BlockStages, Alone
<1>5. CASE FundAccount
  BY <1>5 DEF OInv, FundAccount, CommandStages, stakingVars, Converted, Ours, BlockStages,
              Alone
<1>6. CASE StartNode
  BY <1>6 DEF OInv, StartNode, CommandStages, stakingVars, testnetVars, Converted, Ours,
              BlockStages, Alone
<1> QED
  BY <1>1, <1>2, <1>3, <1>4, <1>5, <1>6 DEF initAppForTestnet

----------------------------------------------------------------------------
\* Exports leave the blocks for good.

ExportMoves ==
    \/ \E zero \in ZeroHeight, list \in JailLists : BeginExport(zero, list)
    \/ PrepForZeroHeightGenesis
    \/ WriteGenesis

LEMMA ExportStaysInExport ==
    ASSUME ExportMoves
    PROVE  /\ stage \in {"committed"} \union ExportStages
           /\ stage' \in ExportStages \union EndStages
<1>1. CASE \E zero \in ZeroHeight, list \in JailLists : BeginExport(zero, list)
  BY <1>1 DEF BeginExport, ExportStages, EndStages
<1>2. CASE \E v \in todo : WithdrawAllCommission(v)
  BY <1>2 DEF WithdrawAllCommission, ExportStep, Panics, ExportStages, EndStages
<1>3. CASE \E k \in pending : WithdrawAllRewards(k[1], k[2])
  BY <1>3 DEF WithdrawAllRewards, ExportStep, Panics, ExportStages, EndStages
<1>4. CASE \E v \in todo : ReinitializeValidator(v)
  BY <1>4 DEF ReinitializeValidator, ExportStep, ExportStages, EndStages
<1>5. CASE \E k \in pending : ReinitializeDelegation(k[1], k[2])
  BY <1>5 DEF ReinitializeDelegation, ExportStep, Panics, ExportStages, EndStages
<1>6. CASE ClearPeriods \/ ResetEntries \/ ResetValidators
  BY <1>6 DEF ClearPeriods, ResetEntries, ResetValidators, ExportStep, ExportStages
<1>7. CASE ApplyPowers \/ ResetSigningInfos \/ WriteGenesis
  BY <1>7 DEF ApplyPowers, ResetSigningInfos, WriteGenesis, ExportStages, EndStages
<1> QED
  BY <1>1, <1>2, <1>3, <1>4, <1>5, <1>6, <1>7 DEF PrepForZeroHeightGenesis, ExportMoves

LEMMA ExportLeaves ==
    ASSUME OInv, UNCHANGED operator, ExportMoves
    PROVE  OInv'
BY ExportStaysInExport
   DEF OInv, Converted, Ours, CommandStages, BlockStages, ExportStages, EndStages

----------------------------------------------------------------------------
\* Blocks.

\* What the operators of staking do to the only validator.
LEMMA AddTokensBonded ==
    ASSUME NEW val, IsBonded(val), NEW tokens, NEW shares
    PROVE  IsBonded(AddTokens(val, tokens, shares))
BY DEF IsBonded, AddTokens

LEMMA RemoveTokensBonded ==
    ASSUME NEW val, IsBonded(val), NEW tokens, NEW shares, NEW jail
    PROVE  IsBonded(RemoveTokens(val, tokens, shares, jail))
BY DEF IsBonded, RemoveTokens

LEMMA DelegatedStaking ==
    ASSUME NEW d, NEW v, NEW tokens, NEW h,
           NEW s, s = Delegated(Staking, d, v, tokens, h),
           NEW issued, issued = SharesFromTokens(Staking, v, tokens)
    PROVE  /\ s.validator = [validator EXCEPT ![v] = AddTokens(validator[v], tokens, issued)]
           /\ s.powerIndex = powerIndex
<1> DEFINE key == <<d, v>>
           has == key \in DOMAIN Staking.delegation
           hooked == IF has THEN Withdrawn(Staking, d, v, h)
                     ELSE IncrementPeriod(Staking.ledger, v, Staking.validator[v].tokens)
           t == [Staking EXCEPT
                   !.validator[v] = AddTokens(@, tokens, issued),
                   !.delegation = Put(@, key, issued + IF has THEN @[key] ELSE 0),
                   !.bondedPool = @ + IfBonded(Staking, v, tokens)]
<1>1. s = [t EXCEPT !.ledger = InitializeDelegation(hooked, d, v, StakeOf(t, d, v), h)]
  BY DEF Delegated
<1> HIDE DEF hooked, has
<1>2. /\ t.validator = [validator EXCEPT ![v] = AddTokens(validator[v], tokens, issued)]
      /\ t.powerIndex = powerIndex
      /\ DOMAIN t = {"validator", "delegation", "powerIndex", "bondedPool", "ledger"}
  BY DEF Staking
<1> HIDE DEF t
<1> QED
  BY <1>1, <1>2

LEMMA UnbondedStaking ==
    ASSUME NEW d, NEW v, NEW shares, NEW h
    PROVE  LET s == Unbonded(Staking, d, v, shares, h) IN
           /\ \E tokens, jail : s.validator = [validator EXCEPT ![v] =
                                    RemoveTokens(@, tokens, shares, jail)]
           /\ s.powerIndex \subseteq powerIndex
BY DEF Unbonded, Staking

LEMMA Replaced ==
    ASSUME Alone, NEW val, IsBonded(val), UNCHANGED <<operator, last>>,
           validator' = [validator EXCEPT ![operator] = val], powerIndex' \subseteq {operator}
    PROVE  Alone'
BY DEF Alone

LEMMA TransactionKeeps ==
    ASSUME Alone, UNCHANGED operator, Transaction
    PROVE  Alone' /\ stage = "delivering" /\ stage' = "ending"
<1>1. \A v \in DOMAIN validator : v = operator
  BY DEF Alone
<1>2. CASE \E d \in Accounts : Delegate(d, operator)
  <2>1. PICK d \in Accounts : Delegate(d, operator)
    BY <1>2
  <2> DEFINE s == Delegated(Staking, d, operator, 1, height)
             val == AddTokens(validator[operator], 1, SharesFromTokens(Staking, operator, 1))
  <2>2. /\ validator' = s.validator /\ powerIndex' = s.powerIndex
        /\ last' = last /\ stage = "delivering" /\ stage' = "ending"
    BY <2>1 DEF Delegate, Becomes, Deliver
  <2>3. validator' = [validator EXCEPT ![operator] = val] /\ powerIndex' = powerIndex
    <3> DEFINE n == SharesFromTokens(Staking, operator, 1)
    <3>1. s = Delegated(Staking, d, operator, 1, height) /\ val = AddTokens(validator[operator], 1, n)
      OBVIOUS
    <3>2. n = SharesFromTokens(Staking, operator, 1)
      OBVIOUS
    <3> HIDE DEF s, n, val
    <3> QED
      BY <2>2, <3>1, <3>2, DelegatedStaking
  <2>4. IsBonded(val)
    BY AddTokensBonded DEF Alone
  <2> QED
    BY <2>2, <2>3, <2>4, Replaced DEF Alone
<1>3. CASE \E d \in Accounts : Undelegate(d, operator)
  <2>1. PICK d \in Accounts : Undelegate(d, operator)
    BY <1>3
  <2>2. PICK n \in Undelegable(d, operator) :
            Becomes(Unbonded(Staking, d, operator, n, height))
    BY <2>1 DEF Undelegate
  <2> DEFINE s == Unbonded(Staking, d, operator, n, height)
  <2>3. /\ validator' = s.validator /\ powerIndex' = s.powerIndex
        /\ last' = last /\ stage = "delivering" /\ stage' = "ending"
    BY <2>1, <2>2 DEF Undelegate, Becomes, Deliver
  <2>4. PICK tokens, jail : validator' = [validator EXCEPT ![operator] =
                                RemoveTokens(@, tokens, n, jail)]
    BY <2>3, UnbondedStaking
  <2>5. powerIndex' \subseteq powerIndex
    BY <2>3, UnbondedStaking
  <2>6. IsBonded(RemoveTokens(validator[operator], tokens, n, jail))
    BY RemoveTokensBonded DEF Alone
  <2> QED
    BY <2>3, <2>4, <2>5, <2>6, Replaced DEF Alone
<1>4. CASE \E d \in Accounts : WithdrawDelegatorReward(d, operator)
  BY <1>4 DEF WithdrawDelegatorReward, Deliver, stakingVars, Alone
<1>5. CASE Unjail(operator)
  <2>1. /\ validator' = [validator EXCEPT ![operator].jailed = FALSE]
        /\ powerIndex' = powerIndex \union {operator}
        /\ last' = last /\ stage = "delivering" /\ stage' = "ending"
    BY <1>5 DEF Unjail, Deliver
  <2>2. IsBonded([validator[operator] EXCEPT !.jailed = FALSE])
    BY DEF Alone, IsBonded
  <2> QED
    BY <2>1, <2>2, Replaced DEF Alone
<1>6. ~ \E d \in Accounts, v, w \in DOMAIN validator : BeginRedelegate(d, v, w)
  BY <1>1 DEF BeginRedelegate
<1> QED
  BY <1>1, <1>2, <1>3, <1>4, <1>5, <1>6 DEF Transaction

LEMMA EndBlockKeeps ==
    ASSUME Alone, UNCHANGED operator, EndBlock
    PROVE  Alone' /\ powerIndex' = {operator} /\ stage' = "committed"
<1>1. Top(powerIndex, validator) # {} /\ Top(powerIndex, validator) \subseteq powerIndex
  BY DEF EndBlock, Top, Visited
<1>2. powerIndex = {operator} /\ Top(powerIndex, validator) = {operator}
  BY <1>1 DEF Alone
<1>3. /\ validator' = Applied(powerIndex, validator, height)
      /\ last' = {operator} /\ powerIndex' = powerIndex /\ stage' = "committed"
  BY <1>2 DEF EndBlock, ApplyAndReturnValidatorSetUpdates
<1>4. /\ DOMAIN validator' = {operator}
      /\ validator'[operator] = [validator[operator] EXCEPT !.status = "bonded"]
  BY <1>2, <1>3 DEF Applied, Alone
<1>5. IsBonded([validator[operator] EXCEPT !.status = "bonded"])
  BY DEF Alone, IsBonded
<1> QED
  BY <1>2, <1>3, <1>4, <1>5 DEF Alone

LEMMA BlockStaysInBlock ==
    ASSUME ChainStep
    PROVE  stage \in BlockStages /\ stage' \in BlockStages
<1>0. Block(horizon)
  BY DEF ChainStep
<1>1. CASE BeginBlock \/ NoOffence \/ EndBlock
  BY <1>1 DEF BeginBlock, NoOffence, EndBlock, BlockStages
<1>2. CASE \E v \in todo : AllocateTokensToValidator(v)
  BY <1>2 DEF AllocateTokensToValidator, BlockStages
<1>3. CASE \E v \in last : SlashAndJail(v)
  BY <1>3 DEF SlashAndJail, BlockStages
<1>4. CASE Transaction
  <2>1. ASSUME NEW d, NEW v,
               Delegate(d, v) \/ Undelegate(d, v) \/ WithdrawDelegatorReward(d, v)
        PROVE  Deliver
    BY <2>1 DEF Delegate, Undelegate, WithdrawDelegatorReward
  <2>2. ASSUME NEW d, NEW v, NEW w, BeginRedelegate(d, v, w) \/ Unjail(v)
        PROVE  Deliver
    BY <2>2 DEF BeginRedelegate, Unjail
  <2>3. Deliver
    BY <1>4, <2>1, <2>2 DEF Transaction
  <2> QED
    BY <2>3 DEF Deliver, BlockStages
<1> QED
  BY <1>0, <1>1, <1>2, <1>3, <1>4 DEF Block

LEMMA BlockKeeps ==
    ASSUME OInv, UNCHANGED operator, ChainStep
    PROVE  OInv'
<1>1. Block(horizon)
  BY DEF ChainStep
<1>2. stage \in BlockStages /\ stage' \in BlockStages
  BY BlockStaysInBlock
<1>3. CASE operator = NoOperator
  BY <1>2, <1>3 DEF OInv, Converted, Ours, CommandStages, BlockStages
<1>4. CASE operator # NoOperator
  <2>1. Alone
    BY <1>2, <1>4 DEF OInv, Converted
  <2>2. SUFFICES /\ Alone'
                 /\ stage' \in {"committed", "distributing", "slashing"}
                        => powerIndex' = {operator}
    BY <1>2, <1>4, <2>2 DEF OInv, Converted, Ours, CommandStages, BlockStages
  <2>3. CASE BeginBlock \/ (\E v \in todo : AllocateTokensToValidator(v)) \/ NoOffence
    <3>1. /\ UNCHANGED <<validator, powerIndex, last>>
          /\ stage \in {"committed", "distributing", "slashing"}
      BY <2>3 DEF BeginBlock, AllocateTokensToValidator, NoOffence, stakingVars
    <3> QED
      BY <1>2, <1>4, <2>1, <3>1 DEF OInv, Converted, Alone
  <2>4. CASE \E v \in last : SlashAndJail(v)
    <3>1. SlashAndJail(operator)
      BY <2>1, <2>4 DEF Alone
    <3> DEFINE val == [validator[operator] EXCEPT
                          !.jailed = TRUE, !.tokens = @ - Burned(operator)]
    <3>2. /\ validator' = [validator EXCEPT ![operator] = val]
          /\ powerIndex' = powerIndex \ {operator}
          /\ last' = last /\ stage' = "delivering"
      BY <2>1, <3>1 DEF SlashAndJail, Alone
    <3>3. IsBonded(val)
      BY <2>1 DEF Alone, IsBonded
    <3> QED
      BY <2>1, <3>2, <3>3, Replaced DEF Alone
  <2>5. CASE Transaction
    BY <2>1, <2>5, TransactionKeeps
  <2>6. CASE EndBlock
    BY <2>1, <2>6, EndBlockKeeps
  <2> QED
    BY <1>1, <2>3, <2>4, <2>5, <2>6 DEF Block
<1> QED
  BY <1>3, <1>4

----------------------------------------------------------------------------
\* Any ledger, whichever validators it has records of, and what a call on v's
\* rewards does to it.

Sane(l, v) ==
    /\ l = [rewards |-> l.rewards, start |-> l.start, pool |-> l.pool, balance |-> l.balance]
    /\ l.rewards = [u \in DOMAIN l.rewards |-> l.rewards[u]]
    /\ l.pool \in Int /\ l.balance \in Int
    /\ \A u \in DOMAIN l.rewards : RewardsOK(l.rewards[u])
    /\ v \in DOMAIN l.rewards /\ l.rewards[v].period \in Nat \ {0}

\* Coins move between the account, the pool and v's outstanding rewards.
Even(l, m, v) ==
    /\ DOMAIN m.rewards = DOMAIN l.rewards
    /\ \A u \in DOMAIN l.rewards \ {v} : m.rewards[u] = l.rewards[u]
    /\ m.balance - m.pool - m.rewards[v].outstanding
         = l.balance - l.pool - l.rewards[v].outstanding

LEMMA RewardsTypes ==
    ASSUME NEW r, RewardsOK(r)
    PROVE  /\ r.outstanding \in Int /\ r.commission \in Int /\ r.current \in Int
           /\ r.period \in Nat /\ r.slashes \in SUBSET SlashEvent
           /\ \A p : Record(r, p).ratio \in Int /\ Record(r, p).refs \in Nat
           /\ \A p : Record(r, p).refs > 0 => p \in DOMAIN r.historical /\ p \in Nat
BY DEF RewardsOK, IsPartial, Record

LEMMA EvenTwice ==
    ASSUME NEW l, NEW m, NEW n, NEW v, Even(l, m, v), Even(m, n, v)
    PROVE  Even(l, n, v)
BY DEF Even

\* One validator's rewards are written, and amounts with them.
Written(l, m, v, r) ==
    /\ m = [rewards |-> m.rewards, start |-> m.start, pool |-> m.pool, balance |-> m.balance]
    /\ m.rewards = [l.rewards EXCEPT ![v] = r]
    /\ m.pool \in Int /\ m.balance \in Int
    /\ RewardsOK(r) /\ r.period \in Nat \ {0}

LEMMA WrittenSane ==
    ASSUME NEW l, NEW v, Sane(l, v), NEW r, NEW m, Written(l, m, v, r)
    PROVE  /\ Sane(m, v) /\ m.rewards[v] = r
           /\ m.balance - m.pool - r.outstanding
                = l.balance - l.pool - l.rewards[v].outstanding => Even(l, m, v)
<1>1. /\ DOMAIN m.rewards = DOMAIN l.rewards /\ m.rewards[v] = r
      /\ \A u \in DOMAIN l.rewards \ {v} : m.rewards[u] = l.rewards[u]
      /\ m.rewards = [u \in DOMAIN m.rewards |-> m.rewards[u]]
  BY DEF Sane, Written
<1>2. \A u \in DOMAIN m.rewards : RewardsOK(m.rewards[u])
  BY <1>1 DEF Sane, Written
<1>3. v \in DOMAIN m.rewards
  BY <1>1 DEF Sane
<1> QED
  BY <1>1, <1>2, <1>3 DEF Sane, Even, Written

LEMMA EndPeriodType ==
    ASSUME NEW r, RewardsOK(r), r.period \in Nat \ {0}, MayDecrementRef(r, r.period - 1),
           NEW tokens \in Nat
    PROVE  LET s == EndPeriod(r, tokens) IN
           /\ RewardsOK(s) /\ s.period = r.period + 1 /\ s.slashes = r.slashes
           /\ s.outstanding = r.outstanding - Unclaimed(r, tokens)
           /\ Unclaimed(r, tokens) \in Int
<1> DEFINE t == DecrementRef(r, r.period - 1)
           s == EndPeriod(r, tokens)
<1>1. RewardsOK(t)
  <2>1. r.period - 1 \in Nat
    OBVIOUS
  <2> QED
    BY <2>1, DecrementRefCounts
<1>2. EndedRatio(r, tokens) \in Int /\ Unclaimed(r, tokens) \in Int
  BY RewardsTypes DEF EndedRatio, Unclaimed
<1>3. IsPartial(t.historical, Nat, [ratio : Int, refs : Nat])
  BY <1>1 DEF RewardsOK
<1> HIDE DEF t
<1>4. IsPartial(Put(t.historical, r.period, [ratio |-> EndedRatio(r, tokens), refs |-> 1]),
                Nat, [ratio : Int, refs : Nat])
  BY <1>2, <1>3 DEF IsPartial, Put
<1>5. s = [outstanding |-> r.outstanding - Unclaimed(r, tokens), commission |-> r.commission,
           current |-> 0, period |-> r.period + 1,
           historical |-> Put(t.historical, r.period,
                              [ratio |-> EndedRatio(r, tokens), refs |-> 1]),
           slashes |-> r.slashes]
  BY DEF EndPeriod, t
<1> HIDE DEF s
<1>6. /\ r.outstanding \in Int /\ r.commission \in Int /\ r.slashes \in SUBSET SlashEvent
  BY RewardsTypes
<1>7. RewardsOK(s)
  BY <1>2, <1>4, <1>5, <1>6 DEF RewardsOK
<1> QED
  BY <1>2, <1>5, <1>7 DEF s

LEMMA IncrementPeriodEven ==
    ASSUME NEW l, NEW v, Sane(l, v), MayIncrementPeriod(l, v), NEW tokens \in Nat,
           NEW m, m = IncrementPeriod(l, v, tokens)
    PROVE  /\ Sane(m, v) /\ Even(l, m, v)
           /\ m.rewards[v] = EndPeriod(l.rewards[v], tokens)
           /\ m.rewards[v].slashes = l.rewards[v].slashes
           /\ m.start = l.start
<1> DEFINE r == l.rewards[v]
           s == EndPeriod(r, tokens)
<1>1. RewardsOK(r) /\ r.period \in Nat \ {0} /\ MayDecrementRef(r, r.period - 1)
  BY DEF Sane, MayIncrementPeriod
<1>2. /\ RewardsOK(s) /\ s.period = r.period + 1 /\ s.slashes = r.slashes
      /\ s.outstanding = r.outstanding - Unclaimed(r, tokens)
      /\ Unclaimed(r, tokens) \in Int
  BY <1>1, EndPeriodType
<1>3. r.outstanding \in Int /\ l.pool \in Int /\ l.balance \in Int
  BY <1>1, RewardsTypes DEF Sane
<1>4. m = [l EXCEPT !.rewards[v] = s, !.pool = @ + Unclaimed(r, tokens)]
  BY DEF IncrementPeriod
<1> HIDE DEF s
<1>5. m = [rewards |-> [l.rewards EXCEPT ![v] = s], start |-> l.start,
           pool |-> l.pool + Unclaimed(r, tokens), balance |-> l.balance]
  BY <1>4 DEF Sane
<1>6. s.period \in Nat \ {0}
  BY <1>1, <1>2
<1>7. m.balance - m.pool - s.outstanding = l.balance - l.pool - l.rewards[v].outstanding
  BY <1>2, <1>3, <1>5
<1>8. Written(l, m, v, s)
  BY <1>2, <1>3, <1>5, <1>6 DEF Written
<1>9. Sane(m, v) /\ m.rewards[v] = s /\ Even(l, m, v)
  BY <1>7, <1>8, WrittenSane
<1> QED
  BY <1>2, <1>5, <1>9 DEF s

LEMMA InitializeDelegationEven ==
    ASSUME NEW l, NEW v, Sane(l, v), NEW d, NEW stake, NEW h,
           NEW m, m = InitializeDelegation(l, d, v, stake, h)
    PROVE  /\ Sane(m, v) /\ Even(l, m, v)
           /\ m.rewards[v].slashes = l.rewards[v].slashes
           /\ DOMAIN m.start = DOMAIN l.start \union {<<d, v>>}
<1> DEFINE r == l.rewards[v]
           s == IncrementRef(r, r.period - 1)
           info == [period |-> r.period - 1, stake |-> stake, height |-> h]
<1>1. RewardsOK(r) /\ r.period \in Nat \ {0} /\ r.period - 1 \in Nat
  BY DEF Sane
<1>2. /\ RewardsOK(s) /\ s.period = r.period /\ s.slashes = r.slashes
      /\ s.outstanding = r.outstanding
  BY <1>1, IncrementRefCounts
<1>3. m = [l EXCEPT !.rewards[v] = s, !.start = Put(@, <<d, v>>, info)]
  BY DEF InitializeDelegation
<1> HIDE DEF s, info
<1>4. m = [rewards |-> [l.rewards EXCEPT ![v] = s], start |-> Put(l.start, <<d, v>>, info),
           pool |-> l.pool, balance |-> l.balance]
  BY <1>3 DEF Sane
<1>5. Written(l, m, v, s)
  BY <1>1, <1>2, <1>4 DEF Written, Sane
<1>6. m.balance - m.pool - s.outstanding = l.balance - l.pool - l.rewards[v].outstanding
  BY <1>2, <1>4
<1>8. Sane(m, v) /\ m.rewards[v] = s /\ Even(l, m, v)
  BY <1>5, <1>6, WrittenSane
<1> QED
  BY <1>2, <1>4, <1>8 DEF Put

LEMMA WithdrawRewardsEven ==
    ASSUME NEW l, NEW v, Sane(l, v), NEW d, NEW tokens \in Nat, NEW h, NEW stake,
           MayWithdraw(l, d, v, tokens, h, stake),
           NEW m, m = WithdrawRewards(l, d, v, tokens, h, stake)
    PROVE  /\ Sane(m, v) /\ Even(l, m, v)
           /\ m.rewards[v].slashes = l.rewards[v].slashes
           /\ DOMAIN m.start = DOMAIN l.start \ {<<d, v>>}
<1> DEFINE n == IncrementPeriod(l, v, tokens)
           info == l.start[<<d, v>>]
           reward == Payable(n.rewards[v],
                       DelegationRewards(n.rewards[v], info, h, l.rewards[v].period, stake))
           q == DecrementRef(n.rewards[v], info.period)
           s == PaidOut(n.rewards[v], info.period, reward)
<1>1. MayIncrementPeriod(l, v) /\ MayDecrementRef(n.rewards[v], info.period)
  BY DEF MayWithdraw
<1>2. m = [n EXCEPT !.balance = @ - Truncate(reward),
                    !.pool = @ + (reward - Truncate(reward)),
                    !.rewards[v] = s,
                    !.start = Drop(@, <<d, v>>)]
  BY DEF WithdrawRewards
<1>3. /\ Sane(n, v) /\ Even(l, n, v) /\ n.start = l.start
      /\ n.rewards[v].slashes = l.rewards[v].slashes
  BY <1>1, IncrementPeriodEven
<1> HIDE DEF n
<1>4. RewardsOK(n.rewards[v]) /\ n.rewards[v].period \in Nat \ {0}
  BY <1>3 DEF Sane
<1>5. reward \in Int /\ Truncate(reward) \in Int
  BY <1>4, PayableType
<1>6. info.period \in Nat
  BY <1>1, <1>4, RewardsTypes DEF MayDecrementRef
<1>7. /\ RewardsOK(q) /\ q.period = n.rewards[v].period /\ q.slashes = n.rewards[v].slashes
      /\ q.outstanding = n.rewards[v].outstanding
  BY <1>1, <1>4, <1>6, DecrementRefCounts
<1>8. s = [q EXCEPT !.outstanding = q.outstanding - reward]
  BY DEF PaidOut
<1> HIDE DEF q, s, reward
<1>9. /\ RewardsOK(s) /\ s.period = q.period /\ s.slashes = q.slashes
      /\ s.outstanding = q.outstanding - reward
  <2>1. q.outstanding - reward \in Int
    BY <1>5, <1>7, RewardsTypes
  <2> QED
    BY <1>7, <1>8, <2>1 DEF RewardsOK
<1>10. m = [rewards |-> [n.rewards EXCEPT ![v] = s], start |-> Drop(n.start, <<d, v>>),
            pool |-> n.pool + (reward - Truncate(reward)),
            balance |-> n.balance - Truncate(reward)]
  BY <1>2, <1>3 DEF Sane
<1>11. n.pool \in Int /\ n.balance \in Int /\ n.rewards[v].outstanding \in Int
  BY <1>3, <1>4, RewardsTypes DEF Sane
<1>12. Written(n, m, v, s)
  BY <1>4, <1>5, <1>7, <1>9, <1>10, <1>11 DEF Written
<1>13. m.balance - m.pool - s.outstanding = n.balance - n.pool - n.rewards[v].outstanding
  BY <1>5, <1>7, <1>9, <1>10, <1>11
<1>14. Sane(m, v) /\ m.rewards[v] = s /\ Even(n, m, v)
  BY <1>3, <1>12, <1>13, WrittenSane
<1>15. Even(l, m, v)
  BY <1>3, <1>14, EvenTwice
<1>16. DOMAIN m.start = DOMAIN l.start \ {<<d, v>>}
  BY <1>3, <1>10 DEF Drop
<1> QED
  BY <1>3, <1>7, <1>9, <1>14, <1>15, <1>16

LEMMA AllocateTokensEven ==
    ASSUME NEW l, NEW v, Sane(l, v), NEW c \in Int, NEW a \in Int, NEW com \in Int,
           NEW m, m = AllocateTokens(l, v, c, a, com)
    PROVE  /\ Sane(m, v) /\ Even(l, m, v) /\ m.start = l.start
           /\ m.rewards[v].slashes = l.rewards[v].slashes
<1> DEFINE r == l.rewards[v]
           s == Earned(r, a, com)
           x == c * Precision
<1>1. RewardsOK(r) /\ r.period \in Nat \ {0}
  BY DEF Sane
<1>2. /\ RewardsOK(s) /\ s.period = r.period /\ s.slashes = r.slashes
      /\ s.outstanding = r.outstanding + a
  <2>1. s = [r EXCEPT !.outstanding = r.outstanding + a, !.commission = r.commission + com,
                      !.current = r.current + (a - com)]
    BY DEF Earned
  <2>2. /\ r.outstanding + a \in Int /\ r.commission + com \in Int
        /\ r.current + (a - com) \in Int
    BY <1>1, RewardsTypes
  <2> HIDE DEF s, r
  <2> QED
    BY <1>1, <2>1, <2>2 DEF RewardsOK
<1>3. x \in Int
  BY PrecisionAssumption
<1>4. m = [l EXCEPT !.balance = @ + x, !.pool = @ + (x - a), !.rewards[v] = s]
  BY DEF AllocateTokens
<1> HIDE DEF s, x
<1>5. m = [rewards |-> [l.rewards EXCEPT ![v] = s], start |-> l.start,
           pool |-> l.pool + (x - a), balance |-> l.balance + x]
  BY <1>4 DEF Sane
<1>6. l.pool \in Int /\ l.balance \in Int /\ r.outstanding \in Int
  BY <1>1, RewardsTypes DEF Sane
<1>7. Written(l, m, v, s)
  BY <1>1, <1>2, <1>3, <1>5, <1>6 DEF Written
<1>8. m.balance - m.pool - s.outstanding = l.balance - l.pool - l.rewards[v].outstanding
  BY <1>2, <1>3, <1>5, <1>6
<1>9. Sane(m, v) /\ m.rewards[v] = s /\ Even(l, m, v)
  BY <1>7, <1>8, WrittenSane
<1> QED
  BY <1>2, <1>5, <1>9

LEMMA WithdrawCommissionEven ==
    ASSUME NEW l, NEW v, Sane(l, v), NEW m, m = WithdrawCommission(l, v)
    PROVE  /\ Sane(m, v) /\ Even(l, m, v) /\ m.start = l.start
           /\ m.rewards[v].slashes = l.rewards[v].slashes
<1> DEFINE r == l.rewards[v]
           s == WithoutCommission(r)
           x == CommissionCoins(r)
<1>1. RewardsOK(r) /\ r.period \in Nat \ {0}
  BY DEF Sane
<1>2. x \in Int
  BY <1>1, RewardsTypes, CoinsLemma DEF CommissionCoins
<1>3. /\ RewardsOK(s) /\ s.period = r.period /\ s.slashes = r.slashes
      /\ s.outstanding = r.outstanding - x
  <2>1. s = [r EXCEPT !.commission = r.commission - x, !.outstanding = r.outstanding - x]
    BY DEF WithoutCommission
  <2>2. r.commission - x \in Int /\ r.outstanding - x \in Int
    BY <1>1, <1>2, RewardsTypes
  <2> HIDE DEF s, x, r
  <2> QED
    BY <1>1, <2>1, <2>2 DEF RewardsOK
<1>4. m = [l EXCEPT !.balance = @ - x, !.rewards[v] = s]
  BY DEF WithdrawCommission
<1> HIDE DEF s, x
<1>5. m = [rewards |-> [l.rewards EXCEPT ![v] = s], start |-> l.start,
           pool |-> l.pool, balance |-> l.balance - x]
  BY <1>4 DEF Sane
<1>6. l.pool \in Int /\ l.balance \in Int /\ r.outstanding \in Int
  BY <1>1, RewardsTypes DEF Sane
<1>7. Written(l, m, v, s)
  BY <1>1, <1>2, <1>3, <1>5, <1>6 DEF Written
<1>8. m.balance - m.pool - s.outstanding = l.balance - l.pool - l.rewards[v].outstanding
  BY <1>2, <1>3, <1>5, <1>6
<1>9. Sane(m, v) /\ m.rewards[v] = s /\ Even(l, m, v)
  BY <1>7, <1>8, WrittenSane
<1> QED
  BY <1>3, <1>5, <1>9

LEMMA RecordSlashEven ==
    ASSUME NEW l, NEW v, Sane(l, v), MayIncrementPeriod(l, v), NEW tokens \in Nat,
           NEW h \in Nat, NEW f \in Int, NEW m, m = RecordSlash(l, v, tokens, h, f)
    PROVE  /\ Sane(m, v) /\ Even(l, m, v) /\ m.start = l.start
           /\ m.rewards[v].slashes # {}
<1> DEFINE n == IncrementPeriod(l, v, tokens)
           r == n.rewards[v]
           q == IncrementRef(r, r.period - 1)
           e == [height |-> h, period |-> r.period - 1, fraction |-> f]
           s == WithSlash(r, h, f)
<1>1. m = [n EXCEPT !.rewards[v] = s]
  BY DEF RecordSlash
<1>2. Sane(n, v) /\ Even(l, n, v) /\ n.start = l.start
  BY IncrementPeriodEven
<1> HIDE DEF n
<1>3. RewardsOK(r) /\ r.period \in Nat \ {0} /\ r.period - 1 \in Nat
  BY <1>2 DEF Sane
<1>4. RewardsOK(q) /\ q.period = r.period /\ q.outstanding = r.outstanding
  BY <1>3, IncrementRefCounts
<1>5. s = [q EXCEPT !.slashes = @ \union {e}]
  BY DEF WithSlash
<1>6. e \in SlashEvent
  BY <1>3 DEF SlashEvent
<1> HIDE DEF s, q, e, r
<1>7. RewardsOK(s) /\ s.period = q.period /\ s.outstanding = q.outstanding /\ s.slashes # {}
  BY <1>4, <1>5, <1>6 DEF RewardsOK
<1>8. m = [rewards |-> [n.rewards EXCEPT ![v] = s], start |-> n.start,
           pool |-> n.pool, balance |-> n.balance]
  BY <1>1, <1>2 DEF Sane
<1>9. Written(n, m, v, s)
  BY <1>2, <1>3, <1>4, <1>7, <1>8 DEF Written, Sane
<1>10. m.balance - m.pool - s.outstanding = n.balance - n.pool - n.rewards[v].outstanding
  BY <1>4, <1>7, <1>8 DEF r
<1>11. Sane(m, v) /\ m.rewards[v] = s /\ Even(n, m, v)
  BY <1>2, <1>9, <1>10, WrittenSane
<1>12. Even(l, m, v)
  BY <1>2, <1>11, EvenTwice
<1> QED
  BY <1>2, <1>7, <1>8, <1>11, <1>12

----------------------------------------------------------------------------
\* A staking state whose only validator is v, and what the handlers of staking
\* make of it.

Lone(s, v) ==
    /\ s = [validator |-> s.validator, delegation |-> s.delegation,
            powerIndex |-> s.powerIndex, bondedPool |-> s.bondedPool, ledger |-> s.ledger]
    /\ s.validator \in [{v} -> Validator]
    /\ IsPartial(s.delegation, Accounts \X (Vals \union Operators), Nat)
    /\ v \in Operators
    /\ DOMAIN s.ledger.start = DOMAIN s.delegation
    /\ Sane(s.ledger, v)
    /\ s.bondedPool \in Nat

\* What the hooks before a delegation ask for.
Hookable(s, d, v, h) ==
    IF <<d, v>> \in DOMAIN s.delegation
    THEN MayWithdraw(s.ledger, d, v, s.validator[v].tokens, h, StakeOf(s, d, v))
    ELSE MayIncrementPeriod(s.ledger, v)

LEMMA LoneTypes ==
    ASSUME NEW s, NEW v, Lone(s, v)
    PROVE  /\ s.validator[v] \in Validator
           /\ s.validator[v].tokens \in Nat /\ s.validator[v].shares \in Nat
           /\ DOMAIN s.validator = {v}
           /\ \A d \in Accounts : <<d, v>> \in Accounts \X (Vals \union Operators)
           /\ \A k \in DOMAIN s.delegation : s.delegation[k] \in Nat
BY DEF Lone, Validator, IsPartial

LEMMA IssuedType ==
    ASSUME NEW s, NEW v, Lone(s, v), NEW n \in Nat,
           s.validator[v].tokens > 0 \/ s.validator[v].shares = 0
    PROVE  SharesFromTokens(s, v, n) \in Nat
<1>1. s.validator[v].tokens \in Nat /\ s.validator[v].shares \in Nat
  BY LoneTypes
<1>2. CASE s.validator[v].shares = 0
  BY <1>2, PrecisionAssumption, ProductType DEF SharesFromTokens
<1>3. CASE s.validator[v].shares # 0
  <2>1. s.validator[v].tokens \in Nat \ {0}
    BY <1>1, <1>3
  <2>2. s.validator[v].shares * n \in Nat
    BY <1>1, ProductType
  <2> QED
    BY <1>3, <2>1, <2>2, DivisionType DEF SharesFromTokens
<1> QED
  BY <1>2, <1>3

LEMMA HookedEven ==
    ASSUME NEW s, NEW v, Lone(s, v), NEW d, NEW h, Hookable(s, d, v, h),
           NEW m, m = Hooked(s, d, v, h)
    PROVE  /\ Sane(m, v) /\ Even(s.ledger, m, v)
           /\ m.rewards[v].slashes = s.ledger.rewards[v].slashes
           /\ DOMAIN m.start = DOMAIN s.delegation \ {<<d, v>>}
<1>1. Sane(s.ledger, v) /\ s.validator[v].tokens \in Nat /\ DOMAIN s.ledger.start = DOMAIN s.delegation
  BY LoneTypes DEF Lone
<1>2. CASE <<d, v>> \in DOMAIN s.delegation
  <2> DEFINE l == s.ledger
             tokens == s.validator[v].tokens
             stake == StakeOf(s, d, v)
  <2>1. m = WithdrawRewards(l, d, v, tokens, h, stake)
    BY <1>2 DEF Hooked, Withdrawn
  <2>2. MayWithdraw(l, d, v, tokens, h, stake)
    BY <1>2 DEF Hookable
  <2>3. Sane(l, v) /\ tokens \in Nat /\ DOMAIN l.start = DOMAIN s.delegation
    BY <1>1
  <2> HIDE DEF l, tokens, stake
  <2>4. /\ Sane(m, v) /\ Even(l, m, v)
        /\ m.rewards[v].slashes = l.rewards[v].slashes
        /\ DOMAIN m.start = DOMAIN l.start \ {<<d, v>>}
    BY <2>1, <2>2, <2>3, WithdrawRewardsEven
  <2> QED
    BY <2>3, <2>4 DEF l
<1>3. CASE <<d, v>> \notin DOMAIN s.delegation
  <2>1. m = IncrementPeriod(s.ledger, v, s.validator[v].tokens) /\ MayIncrementPeriod(s.ledger, v)
    BY <1>3 DEF Hooked, Hookable
  <2> QED
    BY <1>1, <1>3, <2>1, IncrementPeriodEven
<1> QED
  BY <1>2, <1>3

LEMMA DelegatedLone ==
    ASSUME NEW s, NEW v, Lone(s, v), NEW d \in Accounts, NEW n \in Nat, NEW h,
           s.validator[v].tokens > 0 \/ s.validator[v].shares = 0, Hookable(s, d, v, h),
           NEW u, u = Delegated(s, d, v, n, h)
    PROVE  /\ Lone(u, v) /\ Even(s.ledger, u.ledger, v)
           /\ u.ledger.rewards[v].slashes = s.ledger.rewards[v].slashes
           /\ u.validator[v] = AddTokens(s.validator[v], n, SharesFromTokens(s, v, n))
           /\ u.powerIndex = s.powerIndex
           /\ u.bondedPool = s.bondedPool + IfBonded(s, v, n)
<1> DEFINE k == <<d, v>>
           has == k \in DOMAIN s.delegation
           issued == SharesFromTokens(s, v, n)
           more == issued + IF has THEN s.delegation[k] ELSE 0
           val == AddTokens(s.validator[v], n, issued)
           hooked == Hooked(s, d, v, h)
           t == [s EXCEPT !.validator[v] = val, !.delegation = Put(@, k, more),
                          !.bondedPool = @ + IfBonded(s, v, n)]
           m == InitializeDelegation(hooked, d, v, StakeOf(t, d, v), h)
<1>1. u = [t EXCEPT !.ledger = m]
  BY DEF Delegated, Hooked
<1>2. issued \in Nat /\ val \in Validator /\ k \in Accounts \X (Vals \union Operators)
  BY IssuedType, LoneTypes, AddTokensType
<1>3. more \in Nat
  BY <1>2, LoneTypes
<1>4. /\ Sane(hooked, v) /\ Even(s.ledger, hooked, v)
      /\ hooked.rewards[v].slashes = s.ledger.rewards[v].slashes
      /\ DOMAIN hooked.start = DOMAIN s.delegation \ {k}
  BY HookedEven
<1> HIDE DEF hooked
<1>5. /\ Sane(m, v) /\ Even(hooked, m, v)
      /\ m.rewards[v].slashes = hooked.rewards[v].slashes
      /\ DOMAIN m.start = DOMAIN hooked.start \union {k}
  BY <1>4, InitializeDelegationEven
<1> HIDE DEF m, val, more
<1>6. u = [validator |-> [s.validator EXCEPT ![v] = val], delegation |-> Put(s.delegation, k, more),
           powerIndex |-> s.powerIndex, bondedPool |-> s.bondedPool + IfBonded(s, v, n),
           ledger |-> m]
  BY <1>1 DEF Lone
<1>7. IfBonded(s, v, n) \in Nat
  BY DEF IfBonded
<1>8. u.validator \in [{v} -> Validator] /\ u.validator[v] = val
  BY <1>2, <1>6 DEF Lone
<1>9. /\ IsPartial(u.delegation, Accounts \X (Vals \union Operators), Nat)
      /\ DOMAIN u.delegation = DOMAIN s.delegation \union {k}
  BY <1>2, <1>3, <1>6 DEF Lone, IsPartial, Put
<1>10. Even(s.ledger, m, v)
  BY <1>4, <1>5, EvenTwice
<1>11. Lone(u, v)
  <2>1. u = [validator |-> u.validator, delegation |-> u.delegation,
             powerIndex |-> u.powerIndex, bondedPool |-> u.bondedPool, ledger |-> u.ledger]
    BY <1>6
  <2>2. u.bondedPool \in Nat
    BY <1>6, <1>7 DEF Lone
  <2>3. Sane(u.ledger, v)
    BY <1>5, <1>6
  <2>4. DOMAIN u.ledger.start = DOMAIN u.delegation
    <3>1. u.ledger = m
      BY <1>6
    <3>2. DOMAIN m.start = (DOMAIN s.delegation \ {k}) \union {k}
      BY <1>4, <1>5
    <3> QED
      BY <1>9, <3>1, <3>2
  <2>5. v \in Operators
    BY DEF Lone
  <2> QED
    BY <1>8, <1>9, <2>1, <2>2, <2>3, <2>4, <2>5 DEF Lone
<1> QED
  BY <1>4, <1>5, <1>6, <1>8, <1>10, <1>11 DEF val

LEMMA UnbondedLone ==
    ASSUME NEW s, NEW v, Lone(s, v), NEW d \in Accounts, <<d, v>> \in DOMAIN s.delegation,
           NEW n \in Nat, n <= s.delegation[<<d, v>>], n <= s.validator[v].shares, NEW h,
           TokensRemoved(s, v, n) \in 1 .. s.validator[v].tokens, Hookable(s, d, v, h),
           IfBonded(s, v, TokensRemoved(s, v, n)) <= s.bondedPool,
           NEW u, u = Unbonded(s, d, v, n, h)
    PROVE  /\ Lone(u, v) /\ Even(s.ledger, u.ledger, v)
           /\ u.ledger.rewards[v].slashes = s.ledger.rewards[v].slashes
           /\ \E jail \in BOOLEAN :
                /\ u.validator[v] = RemoveTokens(s.validator[v], TokensRemoved(s, v, n), n, jail)
                /\ u.powerIndex = IF jail THEN s.powerIndex \ {v} ELSE s.powerIndex
           /\ u.bondedPool = s.bondedPool - IfBonded(s, v, TokensRemoved(s, v, n))
<1> DEFINE k == <<d, v>>
           left == s.delegation[k] - n
           removed == TokensRemoved(s, v, n)
           jail == d = v /\ Stake(s, v, left) < Precision
           val == RemoveTokens(s.validator[v], removed, n, jail)
           hooked == Withdrawn(s, d, v, h)
           again == InitializeDelegation(hooked, d, v, Stake(s, v, left), h)
           m == IF left = 0 THEN hooked ELSE again
           del == IF left = 0 THEN Drop(s.delegation, k) ELSE Put(s.delegation, k, left)
           index == IF jail THEN s.powerIndex \ {v} ELSE s.powerIndex
<1>1. u = [validator |-> [s.validator EXCEPT ![v] = val], delegation |-> del,
           powerIndex |-> index, bondedPool |-> s.bondedPool - IfBonded(s, v, removed),
           ledger |-> m]
  BY DEF Unbonded
<1>2. /\ s.delegation[k] \in Nat /\ left \in Nat /\ jail \in BOOLEAN
      /\ k \in Accounts \X (Vals \union Operators)
  BY LoneTypes
<1>3. val \in Validator
  <2>1. s.validator[v] \in Validator /\ n \in 0 .. s.validator[v].shares
    BY LoneTypes
  <2>2. removed \in 0 .. s.validator[v].tokens
    BY LoneTypes
  <2> QED
    BY <1>2, <2>1, <2>2, RemoveTokensType
<1>4. /\ Sane(hooked, v) /\ Even(s.ledger, hooked, v)
      /\ hooked.rewards[v].slashes = s.ledger.rewards[v].slashes
      /\ DOMAIN hooked.start = DOMAIN s.delegation \ {k}
  BY HookedEven DEF Hooked
<1> HIDE DEF hooked
<1>5. /\ Sane(again, v) /\ Even(hooked, again, v)
      /\ again.rewards[v].slashes = hooked.rewards[v].slashes
      /\ DOMAIN again.start = DOMAIN hooked.start \union {k}
  BY <1>4, InitializeDelegationEven
<1> HIDE DEF again
<1>6. Even(s.ledger, again, v)
  BY <1>4, <1>5, EvenTwice
<1>7. /\ Sane(m, v) /\ Even(s.ledger, m, v)
      /\ m.rewards[v].slashes = s.ledger.rewards[v].slashes
      /\ DOMAIN m.start = IF left = 0 THEN DOMAIN s.delegation \ {k} ELSE DOMAIN s.delegation
  BY <1>4, <1>5, <1>6
<1>8. /\ IsPartial(del, Accounts \X (Vals \union Operators), Nat)
      /\ DOMAIN del = IF left = 0 THEN DOMAIN s.delegation \ {k} ELSE DOMAIN s.delegation
  BY <1>2 DEF Lone, IsPartial, Put, Drop
<1>9. s.bondedPool - IfBonded(s, v, removed) \in Nat
  <2>1. IfBonded(s, v, removed) \in Nat
    BY LoneTypes DEF IfBonded
  <2> QED
    BY <2>1 DEF Lone
<1> HIDE DEF m, del, index, jail, left, removed, val
<1>10. u.validator \in [{v} -> Validator] /\ u.validator[v] = val
  <2>1. s.validator \in [{v} -> Validator] /\ u.validator = [s.validator EXCEPT ![v] = val]
    BY <1>1 DEF Lone
  <2> QED
    BY <1>3, <2>1
<1>11. Lone(u, v)
  BY <1>1, <1>7, <1>8, <1>9, <1>10 DEF Lone
<1>12. /\ u.powerIndex = index /\ u.ledger = m
       /\ u.bondedPool = s.bondedPool - IfBonded(s, v, removed)
  BY <1>1
<1>13. \E j \in BOOLEAN : /\ u.validator[v] = RemoveTokens(s.validator[v], removed, n, j)
                         /\ u.powerIndex = IF j THEN s.powerIndex \ {v} ELSE s.powerIndex
  BY <1>2, <1>10, <1>12 DEF val, index
<1> QED
  BY <1>7, <1>11, <1>12, <1>13 DEF removed

LEMMA AgainLone ==
    ASSUME NEW s, NEW v, Lone(s, v), NEW d \in Accounts, <<d, v>> \in DOMAIN s.delegation,
           NEW h, Hookable(s, d, v, h),
           NEW m, m = InitializeDelegation(Withdrawn(s, d, v, h), d, v, StakeOf(s, d, v), h)
    PROVE  /\ Sane(m, v) /\ Even(s.ledger, m, v)
           /\ m.rewards[v].slashes = s.ledger.rewards[v].slashes
           /\ DOMAIN m.start = DOMAIN s.delegation
<1> DEFINE hooked == Withdrawn(s, d, v, h)
<1>1. /\ Sane(hooked, v) /\ Even(s.ledger, hooked, v)
      /\ hooked.rewards[v].slashes = s.ledger.rewards[v].slashes
      /\ DOMAIN hooked.start = DOMAIN s.delegation \ {<<d, v>>}
  BY HookedEven DEF Hooked
<1> HIDE DEF hooked
<1>2. m = InitializeDelegation(hooked, d, v, StakeOf(s, d, v), h)
  BY DEF hooked
<1>3. /\ Sane(m, v) /\ Even(hooked, m, v)
      /\ m.rewards[v].slashes = hooked.rewards[v].slashes
      /\ DOMAIN m.start = DOMAIN hooked.start \union {<<d, v>>}
  BY <1>1, <1>2, InitializeDelegationEven
<1>4. Even(s.ledger, m, v)
  BY <1>1, <1>3, EvenTwice
<1> QED
  BY <1>1, <1>3, <1>4

----------------------------------------------------------------------------
\* What the module account holds more than the records say, for whichever
\* validators the ledger has records of.

OutstandingIn(l) == [u \in DOMAIN l.rewards |-> l.rewards[u].outstanding]

Surplus(l) == l.balance - l.pool - Sum(OutstandingIn(l), DOMAIN l.rewards)

LEMMA OutstandingAtTestnet ==
    Outstanding = Sum(OutstandingIn(ledger), DOMAIN ledger.rewards)
<1> DEFINE f == OutstandingIn(ledger)
           S == DOMAIN ledger.rewards
<1>1. \A v \in S : f[v] = ledger.rewards[v].outstanding
  BY DEF OutstandingIn
<1> HIDE DEF f
<1>2. ASSUME NEW T \in SUBSET S, T # {}
      PROVE  f[Chosen(T)] = ledger.rewards[Chosen(T)].outstanding
  BY <1>1, <1>2, ChosenIn
<1>3. \A it : OutstandingSummed(ledger.rewards, S, it) <=> Summed(f, S, it)
  <2> SUFFICES ASSUME NEW it
               PROVE  [T \in SUBSET S |->
                        IF T = {} THEN 0 ELSE ledger.rewards[Chosen(T)].outstanding
                                                + it[T \ {Chosen(T)}]]
                       = [T \in SUBSET S |->
                            IF T = {} THEN 0 ELSE f[Chosen(T)] + it[T \ {Chosen(T)}]]
    BY DEF OutstandingSummed, Summed
  <2> QED
    BY <1>2
<1>4. (CHOOSE it : OutstandingSummed(ledger.rewards, S, it)) = CHOOSE it : Summed(f, S, it)
  BY <1>3
<1> QED
  BY <1>4, OutstandingUnfolds, SumUnfolds DEF f

LEMMA SaneSum ==
    ASSUME NEW l, NEW v, Sane(l, v), IsFiniteSet(DOMAIN l.rewards)
    PROVE  /\ \A u \in DOMAIN l.rewards : OutstandingIn(l)[u] \in Int
           /\ Sum(OutstandingIn(l), DOMAIN l.rewards) \in Int /\ Surplus(l) \in Int
           /\ l.balance \in Int /\ l.pool \in Int
<1>1. \A u \in DOMAIN l.rewards : OutstandingIn(l)[u] \in Int
  BY RewardsTypes DEF Sane, OutstandingIn
<1>2. Sum(OutstandingIn(l), DOMAIN l.rewards) \in Int
  BY <1>1, SumType
<1> QED
  BY <1>1, <1>2 DEF Sane, Surplus

LEMMA EvenSurplus ==
    ASSUME NEW l, NEW v, Sane(l, v), IsFiniteSet(DOMAIN l.rewards),
           NEW m, Sane(m, v), Even(l, m, v)
    PROVE  Surplus(m) = Surplus(l)
<1> DEFINE S == DOMAIN l.rewards
           f == OutstandingIn(l)
           g == OutstandingIn(m)
<1>1. /\ DOMAIN m.rewards = S /\ v \in S
      /\ f[v] = l.rewards[v].outstanding /\ g[v] = m.rewards[v].outstanding
      /\ \A u \in S \ {v} : g[u] = f[u]
  BY DEF Even, Sane, OutstandingIn
<1>2. /\ \A u \in S : f[u] \in Int /\ g[u] \in Int
      /\ Sum(f, S) \in Int /\ Sum(g, S) \in Int
      /\ l.balance \in Int /\ l.pool \in Int /\ m.balance \in Int /\ m.pool \in Int
  BY <1>1, SaneSum
<1>3. m.balance - m.pool - g[v] = l.balance - l.pool - f[v]
  BY <1>1 DEF Even
<1>4. Surplus(l) = l.balance - l.pool - Sum(f, S) /\ Surplus(m) = m.balance - m.pool - Sum(g, S)
  BY <1>1 DEF Surplus
<1> HIDE DEF f, g, S
<1>5. /\ v \in S /\ \A u \in S : f[u] \in Int
      /\ g[v] \in Int /\ f[v] \in Int
      /\ \A u \in S \ {v} : g[u] = f[u]
  BY <1>1, <1>2
<1>6. IsFiniteSet(S)
  BY DEF S
<1>7. Sum(g, S) = Sum(f, S) + (g[v] - f[v])
  BY <1>5, <1>6, SumChange
<1> QED
  BY <1>2, <1>3, <1>4, <1>5, <1>7

\* Whose rewards change, and whose do not.
LEMMA SurplusSame ==
    ASSUME NEW l, NEW v, Sane(l, v), IsFiniteSet(DOMAIN l.rewards),
           NEW m, DOMAIN m.rewards = DOMAIN l.rewards, m.balance = l.balance, m.pool = l.pool,
           \A u \in DOMAIN l.rewards : m.rewards[u].outstanding = l.rewards[u].outstanding
    PROVE  Surplus(m) = Surplus(l)
<1>1. OutstandingIn(m) = OutstandingIn(l)
  BY DEF OutstandingIn
<1> QED
  BY <1>1 DEF Surplus

----------------------------------------------------------------------------
\* The calls that start a validator's records.

LEMMA InitializeValidatorEven ==
    ASSUME NEW l, NEW v, Sane(l, v), NEW m, m = InitializeValidator(DonateOutstanding(l, v), v)
    PROVE  /\ Sane(m, v) /\ Even(l, m, v) /\ m.start = l.start
           /\ m.rewards[v].outstanding = 0 /\ m.rewards[v].slashes = l.rewards[v].slashes
<1> DEFINE r == l.rewards[v]
           h == Put(r.historical, 0, [ratio |-> 0, refs |-> 1])
           s == [outstanding |-> 0, commission |-> 0, current |-> 0, period |-> 1,
                 historical |-> h, slashes |-> r.slashes]
<1>1. RewardsOK(r) /\ r.slashes \in SUBSET SlashEvent
  BY RewardsTypes DEF Sane
<1>2. IsPartial(h, Nat, [ratio : Int, refs : Nat])
  BY <1>1 DEF RewardsOK, IsPartial, Put
<1> HIDE DEF h
<1>3. RewardsOK(s) /\ s.period \in Nat \ {0} /\ s.outstanding = 0 /\ s.slashes = r.slashes
  BY <1>1, <1>2 DEF RewardsOK
<1>4. m = [l EXCEPT !.pool = @ + r.outstanding, !.rewards[v] = s]
  BY DEF InitializeValidator, DonateOutstanding, Sane, h
<1> HIDE DEF s
<1>5. m = [rewards |-> [l.rewards EXCEPT ![v] = s], start |-> l.start,
           pool |-> l.pool + r.outstanding, balance |-> l.balance]
  BY <1>4 DEF Sane
<1>6. l.pool \in Int /\ l.balance \in Int /\ r.outstanding \in Int
  BY <1>1, RewardsTypes DEF Sane
<1>7. Written(l, m, v, s)
  BY <1>3, <1>5, <1>6 DEF Written
<1>8. m.balance - m.pool - s.outstanding = l.balance - l.pool - l.rewards[v].outstanding
  BY <1>3, <1>5, <1>6
<1>9. Sane(m, v) /\ m.rewards[v] = s /\ Even(l, m, v)
  BY <1>7, <1>8, WrittenSane
<1> QED
  BY <1>3, <1>5, <1>9

\* Without anything outstanding there is nothing to donate.
LEMMA RestartedEven ==
    ASSUME NEW l, NEW v, Sane(l, v), l.rewards[v].outstanding = 0,
           NEW m, m = InitializeValidator(l, v)
    PROVE  /\ Sane(m, v) /\ Even(l, m, v) /\ m.start = l.start
           /\ m.rewards[v].outstanding = 0 /\ m.rewards[v].slashes = l.rewards[v].slashes
<1>1. DonateOutstanding(l, v) = l
  BY DEF Sane, DonateOutstanding
<1> QED
  BY <1>1, InitializeValidatorEven

----------------------------------------------------------------------------
\* The invariant of the stores.  Before the command they are those of the chain.
Ordinary == IInv /\ HInv /\ Covered /\ Whole /\ Active

\* What the command finds: it empties the validators of it.
TakenOver ==
    /\ LedgerOK(ledger) /\ Covers(ledger, DOMAIN delegation)
    /\ IsPartial(delegation, Pairs, Nat)
    /\ bondedPool \in Nat /\ height \in Nat
    /\ \A v \in Vals : ledger.rewards[v].outstanding >= 0
    /\ Surplus(ledger) = 0
    /\ stage = "replacing" => validator \in [Vals -> Validator]

\* The operator's validator is the set, and it is in the index until it is
\* jailed; an export jails it in its record only.
Seated ==
    /\ last = {operator} /\ powerIndex \subseteq {operator}
    /\ stage \in {"committed"} \union ExportStages =>
          powerIndex = {operator} /\ Power(operator, validator) > 0
    /\ stage \in IndexStages => (operator \in powerIndex <=> ~ validator[operator].jailed)
    /\ stage = "powers" => (validator[operator].jailed => Omitted(operator))

Looping ==
    /\ stage \in {"distributing"} \union ExportStages => todo \subseteq {operator}
    /\ stage \in {"rewards", "delegations"} => pending \subseteq DOMAIN delegation

Backed == Surplus(ledger) >= 0 /\ (Fresh => Surplus(ledger) = 0)

\* What the command leaves, and what blocks and exports make of it.
Owned ==
    /\ Lone(Staking, operator) /\ height \in Nat
    /\ DOMAIN ledger.rewards = Vals \union {operator}
    /\ stage = "recording" => ledger.rewards[operator].outstanding = 0
    /\ Backed /\ Seated /\ Looping

Late == operator # NoOperator /\ stage \notin {"replacing", "creating"}

Given ==
    /\ stage \in BlockStages \union CommandStages \union ExportStages \union EndStages
                 \union {"exited"}
    /\ operator \in Operators \union {NoOperator}
    /\ fundFlag \in Seq(Accounts \union {Malformed})
    /\ toFund \in Seq(Accounts \union {Malformed}) /\ Len(toFund) <= Len(Split(fundFlag))
    /\ funds \in [Accounts -> Nat]

Stores ==
    /\ operator = NoOperator => Ordinary
    /\ operator # NoOperator /\ stage \in {"replacing", "creating"} => TakenOver
    /\ Late => Owned

LEMMA EvenSame == ASSUME NEW l, NEW v PROVE Even(l, l, v)
BY DEF Even

LEMMA OwnedFields ==
    ASSUME Owned
    PROVE  /\ validator \in [{operator} -> Validator] /\ validator[operator] \in Validator
           /\ DOMAIN validator = {operator}
           /\ validator[operator].tokens \in Nat /\ validator[operator].shares \in Nat
           /\ IsPartial(delegation, Accounts \X (Vals \union Operators), Nat)
           /\ operator \in Operators /\ operator \in Accounts
           /\ DOMAIN ledger.start = DOMAIN delegation
           /\ Sane(ledger, operator) /\ bondedPool \in Nat
           /\ IsFiniteSet(DOMAIN ledger.rewards)
<1>1. Lone(Staking, operator)
  BY DEF Owned
<1>2. /\ validator \in [{operator} -> Validator] /\ operator \in Operators
      /\ IsPartial(delegation, Accounts \X (Vals \union Operators), Nat)
      /\ DOMAIN ledger.start = DOMAIN delegation
      /\ Sane(ledger, operator) /\ bondedPool \in Nat
  BY <1>1, StakingFields DEF Lone
<1>3. operator \in Accounts
  BY <1>2, TestnetAssumption
<1>4. IsFiniteSet(Vals \union {operator})
  BY FiniteLemma, FS_AddElement
<1> QED
  BY <1>2, <1>3, <1>4 DEF Owned, Validator

LEMMA LoneAfter ==
    ASSUME validator' \in [{operator} -> Validator],
           IsPartial(delegation', Accounts \X (Vals \union Operators), Nat),
           operator \in Operators, DOMAIN ledger'.start = DOMAIN delegation',
           Sane(ledger', operator), bondedPool' \in Nat, NEW t, t = Staking'
    PROVE  Lone(t, operator)
<1>1. t = [validator |-> validator', delegation |-> delegation', powerIndex |-> powerIndex',
           bondedPool |-> bondedPool', ledger |-> ledger']
  BY DEF Staking
<1> QED
  BY <1>1 DEF Lone

\* A step that keeps the surplus.
LEMMA StaysOwned ==
    ASSUME Owned, UNCHANGED operator, height' \in Nat, stage' # "recording",
           NEW t, t = Staking', Lone(t, operator),
           Even(ledger, ledger', operator), Seated', Looping'
    PROVE  Owned'
<1>1. Surplus(ledger') = Surplus(ledger) /\ DOMAIN ledger'.rewards = DOMAIN ledger.rewards
  <2>1. t.ledger = ledger'
    BY DEF Staking
  <2>2. Sane(ledger', operator)
    BY <2>1 DEF Lone
  <2> QED
    BY <2>2, OwnedFields, EvenSurplus DEF Even
<1>2. Lone(Staking, operator)'
  BY DEF Lone, Sane
<1> QED
  BY <1>1, <1>2 DEF Owned, Backed, Fresh

\* A step that leaves the validators alone.
LEMMA SameSeats ==
    ASSUME Owned, UNCHANGED <<operator, validator, powerIndex, last>>,
           stage' = "committed" => stage = "committed",
           stage' \in ExportStages => stage \in {"committed"} \union ExportStages,
           stage' \in IndexStages => stage \in IndexStages, stage' # "powers"
    PROVE  Seated'
BY DEF Owned, Seated

LEMMA SameStores ==
    ASSUME Owned, UNCHANGED <<operator, stakingVars>>,
           Sane(ledger', operator), DOMAIN ledger'.start = DOMAIN ledger.start,
           NEW t, t = Staking'
    PROVE  Lone(t, operator)
<1>1. UNCHANGED <<validator, delegation, bondedPool>>
  BY DEF stakingVars
<1> QED
  BY <1>1, OwnedFields, LoneAfter

----------------------------------------------------------------------------
\* Blocks of the testnet.

LEMMA BlockSets ==
    /\ \A x \in {"committed", "distributing", "slashing", "delivering", "ending"} :
          /\ x \in BlockStages /\ x \in IndexStages /\ x \notin ExportStages
          /\ x # "powers" /\ x # "recording"
    /\ "rewards" \notin BlockStages /\ "delegations" \notin BlockStages
BY DEF BlockStages, IndexStages, ExportStages

\* A step within a block, the set not being formed.
LEMMA InBlockOwned ==
    ASSUME Owned, UNCHANGED <<operator, last, height>>,
           stage' \in {"slashing", "delivering", "ending"},
           NEW t, t = Staking', Lone(t, operator), Even(ledger, ledger', operator),
           powerIndex' \subseteq {operator},
           operator \in powerIndex' <=> ~ validator'[operator].jailed
    PROVE  Owned'
<1>1. Seated' /\ Looping'
  BY BlockSets DEF Owned, Seated, Looping
<1> QED
  BY <1>1, StaysOwned, BlockSets DEF Owned

LEMMA BeginBlockOwned ==
    ASSUME Owned, UNCHANGED operator, BeginBlock
    PROVE  Owned'
<1> DEFINE t == Staking'
<1>1. /\ UNCHANGED <<stakingVars, ledger>> /\ stage = "committed" /\ height' = height + 1
      /\ \/ stage' = "distributing" /\ todo' = last
         \/ stage' = "slashing" /\ todo' = {}
  BY DEF BeginBlock, stakingVars
<1>2. UNCHANGED <<validator, powerIndex, last>>
  BY <1>1 DEF stakingVars
<1>3. Lone(t, operator) /\ Even(ledger, ledger', operator)
  BY <1>1, OwnedFields, SameStores, EvenSame
<1> HIDE DEF t
<1>4. Seated'
  BY <1>1, <1>2, SameSeats, BlockSets
<1>5. Looping'
  BY <1>1, <1>2, BlockSets DEF Looping, Owned, Seated
<1> QED
  BY <1>1, <1>3, <1>4, <1>5, StaysOwned, BlockSets DEF Owned, t

LEMMA AllocateOwned ==
    ASSUME Owned, UNCHANGED operator, NEW v \in todo, AllocateTokensToValidator(v)
    PROVE  Owned'
<1> DEFINE t == Staking'
<1>1. /\ stage = "distributing" /\ UNCHANGED <<height, stakingVars>>
      /\ ledger' = AllocateTokens(ledger, v, Fees, Earning, Commission)
      /\ todo' = todo \ {v} /\ stage' \in {"distributing", "slashing"}
  BY DEF AllocateTokensToValidator
<1>2. v = operator /\ todo' \subseteq {operator}
  BY <1>1 DEF Owned, Looping
<1>3. Fees \in Int /\ Earning \in Int /\ Commission \in Int
  BY ChainAssumption, PrecisionAssumption
<1>4. Sane(ledger', operator) /\ Even(ledger, ledger', operator) /\ ledger'.start = ledger.start
  <2> DEFINE m == ledger'
  <2>1. m = AllocateTokens(ledger, v, Fees, Earning, Commission) /\ Sane(ledger, v)
    BY <1>1, <1>2, OwnedFields
  <2> HIDE DEF m
  <2>2. Sane(m, v) /\ Even(ledger, m, v) /\ m.start = ledger.start
    BY <1>3, <2>1, AllocateTokensEven
  <2> QED
    BY <1>2, <2>2 DEF m
<1>5. Lone(t, operator)
  BY <1>1, <1>4, SameStores
<1> HIDE DEF t
<1>6. UNCHANGED <<validator, powerIndex, last>>
  BY <1>1 DEF stakingVars
<1>7. Seated'
  BY <1>1, <1>6, SameSeats, BlockSets
<1>8. Looping'
  BY <1>1, <1>2, BlockSets DEF Looping
<1> QED
  BY <1>1, <1>4, <1>5, <1>7, <1>8, StaysOwned, BlockSets DEF Owned, t

LEMMA NoOffenceOwned ==
    ASSUME Owned, UNCHANGED operator, NoOffence
    PROVE  Owned'
<1> DEFINE t == Staking'
<1>1. /\ stage = "slashing" /\ stage' = "delivering"
      /\ UNCHANGED <<height, stakingVars, ledger, validator, powerIndex, last>>
  BY DEF NoOffence, stakingVars
<1>2. Lone(t, operator) /\ Even(ledger, ledger', operator)
  BY <1>1, OwnedFields, SameStores, EvenSame
<1> HIDE DEF t
<1> QED
  BY <1>1, <1>2, InBlockOwned, BlockSets DEF Owned, Seated, t

LEMMA SlashOwned ==
    ASSUME Owned, UNCHANGED operator, NEW v \in last, SlashAndJail(v)
    PROVE  Owned'
<1> DEFINE t == Staking'
           val == [validator[v] EXCEPT !.jailed = TRUE, !.tokens = validator[v].tokens - Burned(v)]
<1>1. v = operator /\ validator[v] \in Validator /\ DOMAIN validator = {v}
  BY OwnedFields DEF Owned, Seated
<1>2. /\ stage' = "delivering" /\ UNCHANGED <<height, last, delegation>>
      /\ validator' = [validator EXCEPT ![v].jailed = TRUE, ![v].tokens = @ - Burned(v)]
      /\ powerIndex' = powerIndex \ {v} /\ bondedPool' = bondedPool - Burned(v)
      /\ Burned(v) <= bondedPool
      /\ Burned(v) = 0 \/ MayIncrementPeriod(ledger, v)
      /\ ledger' = IF Burned(v) = 0 THEN ledger
                   ELSE RecordSlash(ledger, v, validator[v].tokens, height, EffectiveFraction(v))
  BY DEF SlashAndJail
<1>3. /\ Burned(v) \in Nat /\ validator[v].tokens - Burned(v) \in Nat
      /\ Burned(v) # 0 => EffectiveFraction(v) \in Int
  BY <1>1, BurnedOfRecord
<1>4. val \in Validator /\ val.jailed
  BY <1>1, <1>3 DEF Validator
<1>5. validator' = [validator EXCEPT ![v] = val]
  BY <1>1, <1>2
<1> HIDE DEF val
<1>6. validator' \in [{operator} -> Validator] /\ validator'[operator].jailed
  BY <1>1, <1>4, <1>5, OwnedFields
<1>7. bondedPool' \in Nat
  BY <1>2, <1>3, OwnedFields
<1>8. Sane(ledger', operator) /\ Even(ledger, ledger', operator) /\ ledger'.start = ledger.start
  <2>1. CASE Burned(v) = 0
    BY <1>2, <2>1, OwnedFields, EvenSame
  <2>2. CASE Burned(v) # 0
    <3> DEFINE f == EffectiveFraction(v)
               tokens == validator[v].tokens
               m == ledger'
    <3>1. /\ m = RecordSlash(ledger, v, tokens, height, f) /\ f \in Int
          /\ tokens \in Nat /\ height \in Nat /\ MayIncrementPeriod(ledger, v)
          /\ Sane(ledger, v)
      BY <1>1, <1>2, <1>3, <2>2, OwnedFields DEF Owned
    <3> HIDE DEF f, tokens, m
    <3>2. Sane(m, v) /\ Even(ledger, m, v) /\ m.start = ledger.start
      BY <3>1, RecordSlashEven
    <3> QED
      BY <1>1, <3>2 DEF m
  <2> QED
    BY <2>1, <2>2
<1>9. Lone(t, operator)
  BY <1>2, <1>6, <1>7, <1>8, OwnedFields, LoneAfter
<1> HIDE DEF t
<1>10. powerIndex' \subseteq {operator} /\ operator \notin powerIndex'
  BY <1>1, <1>2 DEF Owned, Seated
<1> QED
  BY <1>2, <1>6, <1>8, <1>9, <1>10, InBlockOwned DEF t

\* A transaction on the only validator.
LEMMA BecomesOwned ==
    ASSUME Owned, UNCHANGED operator, Deliver, NEW u, Becomes(u), Lone(u, operator),
           Even(ledger, u.ledger, operator), u.powerIndex \subseteq {operator},
           operator \in u.powerIndex <=> ~ u.validator[operator].jailed
    PROVE  Owned'
<1> DEFINE t == Staking'
<1>1. /\ validator' = u.validator /\ delegation' = u.delegation /\ powerIndex' = u.powerIndex
      /\ bondedPool' = u.bondedPool /\ ledger' = u.ledger
  BY DEF Becomes
<1>2. t = u
  BY <1>1 DEF Staking, Lone
<1>3. stage' = "ending" /\ UNCHANGED <<height, last>>
  BY DEF Deliver
<1> HIDE DEF t
<1> QED
  BY <1>1, <1>2, <1>3, InBlockOwned DEF t

LEMMA SeatInBlock ==
    ASSUME Owned, Deliver
    PROVE  /\ powerIndex \subseteq {operator}
           /\ operator \in powerIndex <=> ~ validator[operator].jailed
           /\ Lone(Staking, operator)
BY BlockSets DEF Owned, Seated, Deliver

LEMMA HooksPassAre ==
    ASSUME NEW d, NEW v, HooksPass(d, v)
    PROVE  Hookable(Staking, d, v, height)
BY StakingFields DEF HooksPass, Hookable

LEMMA DelegateOwned ==
    ASSUME Owned, UNCHANGED operator, NEW d \in Accounts, Delegate(d, operator)
    PROVE  Owned'
<1> DEFINE v == operator
           u == Delegated(Staking, d, v, 1, height)
           s == Staking
<1>1. /\ Deliver
      /\ validator[v].tokens > 0 \/ validator[v].shares = 0
      /\ Hookable(s, d, v, height) /\ Becomes(u)
  BY HooksPassAre DEF Delegate
<1>2. /\ s.validator = validator /\ s.ledger = ledger /\ s.powerIndex = powerIndex
      /\ powerIndex \subseteq {v} /\ (v \in powerIndex <=> ~ validator[v].jailed)
      /\ Lone(s, v)
  <2>1. Deliver
    BY <1>1
  <2>2. /\ powerIndex \subseteq {v} /\ (v \in powerIndex <=> ~ validator[v].jailed)
        /\ Lone(s, v)
    BY <2>1, SeatInBlock
  <2> QED
    BY <2>2, StakingFields
<1> HIDE DEF u, s, v
<1>3. /\ Lone(u, v) /\ Even(s.ledger, u.ledger, v)
      /\ u.validator[v] = AddTokens(s.validator[v], 1, SharesFromTokens(s, v, 1))
      /\ u.powerIndex = s.powerIndex
  <2>1. s.validator[v].tokens > 0 \/ s.validator[v].shares = 0
    BY <1>1, <1>2
  <2>2. u = Delegated(s, d, v, 1, height)
    BY DEF u, s
  <2> QED
    BY <1>1, <1>2, <2>1, <2>2, DelegatedLone
<1>4. u.validator[v].jailed = validator[v].jailed
  BY <1>2, <1>3, LoneTypes DEF AddTokens, Validator
<1>5. Even(ledger, u.ledger, v) /\ u.powerIndex \subseteq {v}
      /\ (v \in u.powerIndex <=> ~ u.validator[v].jailed)
  BY <1>2, <1>3, <1>4
<1> QED
  BY <1>1, <1>3, <1>5, BecomesOwned DEF v

LEMMA UndelegateOwned ==
    ASSUME Owned, UNCHANGED operator, NEW d \in Accounts, Undelegate(d, operator)
    PROVE  Owned'
<1> DEFINE v == operator
           s == Staking
<1>1. /\ Deliver /\ <<d, v>> \in DOMAIN delegation /\ validator[v].tokens > 0
      /\ Hookable(s, d, v, height)
  BY HooksPassAre DEF Undelegate
<1>2. PICK n \in Undelegable(d, v) :
         /\ IfBonded(s, v, TokensRemoved(s, v, n)) <= bondedPool
         /\ Becomes(Unbonded(s, d, v, n, height))
  BY DEF Undelegate
<1> DEFINE u == Unbonded(s, d, v, n, height)
<1>3. /\ s.validator = validator /\ s.ledger = ledger /\ s.powerIndex = powerIndex
      /\ s.delegation = delegation /\ s.bondedPool = bondedPool
      /\ powerIndex \subseteq {v} /\ (v \in powerIndex <=> ~ validator[v].jailed)
      /\ Lone(s, v)
  <2>1. Deliver
    BY <1>1
  <2>2. /\ powerIndex \subseteq {v} /\ (v \in powerIndex <=> ~ validator[v].jailed)
        /\ Lone(s, v)
    BY <2>1, SeatInBlock
  <2> QED
    BY <2>2, StakingFields
<1>4. /\ n = s.delegation[<<d, v>>] \/ n = SharesFromTokens(s, v, 1)
      /\ n <= s.delegation[<<d, v>>] /\ n <= s.validator[v].shares
      /\ TokensRemoved(s, v, n) \in 1 .. s.validator[v].tokens
  BY <1>3 DEF Undelegable
<1>5. Becomes(u)
  BY <1>2
<1> HIDE DEF u, s, v
<1>6. n \in Nat
  <2>1. s.delegation[<<d, v>>] \in Nat
    BY <1>1, <1>3, LoneTypes
  <2>2. SharesFromTokens(s, v, 1) \in Nat
    BY <1>1, <1>3, IssuedType
  <2> QED
    BY <1>4, <2>1, <2>2
<1>7. /\ Lone(u, v) /\ Even(s.ledger, u.ledger, v)
      /\ \E jail \in BOOLEAN :
            /\ u.validator[v] = RemoveTokens(s.validator[v], TokensRemoved(s, v, n), n, jail)
            /\ u.powerIndex = IF jail THEN s.powerIndex \ {v} ELSE s.powerIndex
  <2>1. <<d, v>> \in DOMAIN s.delegation
    BY <1>1, <1>3
  <2>2. IfBonded(s, v, TokensRemoved(s, v, n)) <= s.bondedPool
    BY <1>2, <1>3
  <2>3. u = Unbonded(s, d, v, n, height)
    BY DEF u
  <2>4. Lone(s, v) /\ d \in Accounts /\ Hookable(s, d, v, height)
    BY <1>1, <1>3
  <2>5. /\ n <= s.delegation[<<d, v>>] /\ n <= s.validator[v].shares
        /\ TokensRemoved(s, v, n) \in 1 .. s.validator[v].tokens
    BY <1>4
  <2>6. ASSUME NEW x \in Nat, x <= s.delegation[<<d, v>>], x <= s.validator[v].shares,
               TokensRemoved(s, v, x) \in 1 .. s.validator[v].tokens,
               IfBonded(s, v, TokensRemoved(s, v, x)) <= s.bondedPool,
               NEW w, w = Unbonded(s, d, v, x, height)
        PROVE  /\ Lone(w, v) /\ Even(s.ledger, w.ledger, v)
               /\ \E jail \in BOOLEAN :
                     /\ w.validator[v] = RemoveTokens(s.validator[v], TokensRemoved(s, v, x), x, jail)
                     /\ w.powerIndex = IF jail THEN s.powerIndex \ {v} ELSE s.powerIndex
    BY <2>1, <2>4, <2>6, UnbondedLone
  <2> QED
    BY <1>6, <2>2, <2>3, <2>5, <2>6
<1>8. PICK jail \in BOOLEAN :
         /\ u.validator[v] = RemoveTokens(s.validator[v], TokensRemoved(s, v, n), n, jail)
         /\ u.powerIndex = IF jail THEN s.powerIndex \ {v} ELSE s.powerIndex
  BY <1>7
<1>9. u.validator[v].jailed = (validator[v].jailed \/ jail)
  <2>1. validator[v] \in Validator
    BY <1>3, LoneTypes
  <2> QED
    BY <1>3, <1>8, <2>1 DEF RemoveTokens, Validator
<1>10. /\ Even(ledger, u.ledger, v) /\ u.powerIndex \subseteq {v}
       /\ (v \in u.powerIndex <=> ~ u.validator[v].jailed)
  BY <1>3, <1>7, <1>8, <1>9
<1> QED
  BY <1>1, <1>5, <1>7, <1>10, BecomesOwned DEF v

LEMMA WithdrawRewardOwned ==
    ASSUME Owned, UNCHANGED operator, NEW d \in Accounts, WithdrawDelegatorReward(d, operator)
    PROVE  Owned'
<1> DEFINE v == operator
           s == Staking
           m == ledger'
           t == Staking'
<1>1. /\ Deliver /\ <<d, v>> \in DOMAIN delegation /\ Hookable(s, d, v, height)
      /\ m = InitializeDelegation(Withdrawn(s, d, v, height), d, v, StakeOf(s, d, v), height)
      /\ UNCHANGED stakingVars
  BY HooksPassAre DEF WithdrawDelegatorReward
<1>2. Lone(s, v) /\ s.ledger = ledger /\ s.delegation = delegation
  BY <1>1, SeatInBlock, StakingFields
<1>3. /\ powerIndex \subseteq {v} /\ (v \in powerIndex <=> ~ validator[v].jailed)
  BY <1>1, SeatInBlock
<1> HIDE DEF m, s, v
<1>4. Sane(m, v) /\ Even(ledger, m, v) /\ DOMAIN m.start = DOMAIN delegation
  <2>1. <<d, v>> \in DOMAIN s.delegation
    BY <1>1, <1>2
  <2> QED
    BY <1>1, <1>2, <2>1, AgainLone
<1>5. Lone(t, v)
  BY <1>1, <1>4, OwnedFields, SameStores DEF m, v
<1> HIDE DEF t
<1>6. stage' = "ending" /\ UNCHANGED <<height, last, validator, powerIndex>>
  BY <1>1 DEF Deliver, stakingVars
<1> QED
  BY <1>3, <1>4, <1>5, <1>6, InBlockOwned DEF t, m, v

LEMMA UnjailOwned ==
    ASSUME Owned, UNCHANGED operator, Unjail(operator)
    PROVE  Owned'
<1> DEFINE t == Staking'
           val == [validator[operator] EXCEPT !.jailed = FALSE]
<1>1. /\ Deliver /\ powerIndex' = powerIndex \union {operator}
      /\ validator' = [validator EXCEPT ![operator] = val]
      /\ UNCHANGED <<delegation, last, bondedPool, ledger>>
  BY DEF Unjail
<1>2. val \in Validator /\ val.jailed = FALSE
  BY OwnedFields DEF Validator
<1> HIDE DEF val
<1>3. validator' \in [{operator} -> Validator] /\ ~ validator'[operator].jailed
  BY <1>1, <1>2, OwnedFields
<1>4. Lone(t, operator) /\ Even(ledger, ledger', operator)
  BY <1>1, <1>3, OwnedFields, LoneAfter, EvenSame
<1>5. powerIndex' \subseteq {operator} /\ operator \in powerIndex'
  BY <1>1, SeatInBlock
<1> HIDE DEF t
<1>6. stage' = "ending" /\ UNCHANGED height
  BY <1>1 DEF Deliver
<1> QED
  BY <1>1, <1>3, <1>4, <1>5, <1>6, InBlockOwned DEF t

LEMMA TransactionOwned ==
    ASSUME Owned, UNCHANGED operator, Transaction
    PROVE  Owned'
<1>1. \A v \in DOMAIN validator : v = operator
  BY OwnedFields
<1>2. CASE \E d \in Accounts : Delegate(d, operator)
  BY <1>2, DelegateOwned
<1>3. CASE \E d \in Accounts : Undelegate(d, operator)
  BY <1>3, UndelegateOwned
<1>4. CASE \E d \in Accounts : WithdrawDelegatorReward(d, operator)
  BY <1>4, WithdrawRewardOwned
<1>5. CASE Unjail(operator)
  BY <1>5, UnjailOwned
<1>6. ~ \E d \in Accounts, v, w \in DOMAIN validator : BeginRedelegate(d, v, w)
  BY <1>1 DEF BeginRedelegate
<1> QED
  BY <1>1, <1>2, <1>3, <1>4, <1>5, <1>6 DEF Transaction

\* Nobody joins or leaves a set that stays as it is.
LEMMA NoTokens == ASSUME NEW val PROVE TokensOfSet({}, val) = 0
<1> DEFINE f == [v \in {} |-> 0]
           g(v) == val[v].tokens
<1>1. IsFiniteSet({})
  BY FS_EmptySet
<1>2. TokensOfSet({}, val)
        = (CHOOSE it : it = [T \in SUBSET {} |->
              IF T = {} THEN 0 ELSE val[Chosen(T)].tokens + it[T \ {Chosen(T)}]])[{}]
  BY DEF TokensOfSet, MapThenSumSet, MapThenFoldSet, Chosen
<1>3. \A it : it = [T \in SUBSET {} |->
                IF T = {} THEN 0 ELSE val[Chosen(T)].tokens + it[T \ {Chosen(T)}]]
              <=> Summed(f, {}, it)
  <2> SUFFICES ASSUME NEW it
               PROVE  [T \in SUBSET {} |->
                        IF T = {} THEN 0 ELSE val[Chosen(T)].tokens + it[T \ {Chosen(T)}]]
                       = [T \in SUBSET {} |->
                            IF T = {} THEN 0 ELSE f[Chosen(T)] + it[T \ {Chosen(T)}]]
    BY DEF Summed
  <2>1. \A T \in SUBSET {} : T = {}
    OBVIOUS
  <2> QED
    BY <2>1
<1>4. (CHOOSE it : it = [T \in SUBSET {} |->
              IF T = {} THEN 0 ELSE val[Chosen(T)].tokens + it[T \ {Chosen(T)}]])
      = CHOOSE it : Summed(f, {}, it)
  BY <1>3
<1> QED
  BY <1>2, <1>4, SumUnfolds, SumEmpty

\* The set is formed: it is as it was.
LEMMA AppliedOwned ==
    ASSUME Owned, NEW h \in Nat, ApplyAndReturnValidatorSetUpdates(validator, h),
           Top(powerIndex, validator) = {operator}
    PROVE  /\ last' = {operator} /\ bondedPool' = bondedPool
           /\ validator' \in [{operator} -> Validator]
           /\ validator'[operator].tokens = validator[operator].tokens
           /\ validator'[operator].jailed = validator[operator].jailed
           /\ Power(operator, validator) > 0 /\ operator \in powerIndex
<1> DEFINE val == [validator[operator] EXCEPT !.status = "bonded"]
<1>1. last = {operator} /\ validator[operator] \in Validator /\ DOMAIN validator = {operator}
  BY OwnedFields DEF Owned, Seated
<1>2. last' = {operator} /\ validator' = Applied(powerIndex, validator, h)
  BY DEF ApplyAndReturnValidatorSetUpdates
<1>3. bondedPool' = bondedPool + TokensOfSet({}, validator) - TokensOfSet({}, validator)
  <2>1. {operator} \ last = {} /\ last \ {operator} = {}
    BY <1>1
  <2> QED
    BY <2>1 DEF ApplyAndReturnValidatorSetUpdates
<1>4. validator' = [v \in {operator} |-> val]
  BY <1>1, <1>2 DEF Applied
<1>5. val \in Validator /\ val.tokens = validator[operator].tokens
      /\ val.jailed = validator[operator].jailed
  BY <1>1 DEF Validator, Statuses
<1> HIDE DEF val
<1>6. bondedPool' = bondedPool
  <2>1. bondedPool \in Nat
    BY OwnedFields
  <2> QED
    BY <1>3, <2>1, NoTokens
<1>7. Power(operator, validator) > 0 /\ operator \in powerIndex
  BY DEF Top, Visited
<1> QED
  BY <1>2, <1>4, <1>5, <1>6, <1>7

LEMMA EndBlockOwned ==
    ASSUME Owned, UNCHANGED operator, EndBlock
    PROVE  Owned'
<1> DEFINE t == Staking'
<1>1. /\ stage \in {"delivering", "ending"} /\ stage' = "committed"
      /\ Top(powerIndex, validator) # {}
      /\ ApplyAndReturnValidatorSetUpdates(validator, height)
      /\ UNCHANGED <<height, todo, delegation, powerIndex, ledger>>
  BY DEF EndBlock
<1>2. Top(powerIndex, validator) = {operator} /\ powerIndex = {operator}
  BY <1>1 DEF Top, Visited, Owned, Seated
<1>3. /\ last' = {operator} /\ bondedPool' = bondedPool
      /\ validator' \in [{operator} -> Validator]
      /\ Power(operator, validator') > 0
      /\ validator'[operator].jailed = validator[operator].jailed
  BY <1>1, <1>2, AppliedOwned DEF Owned, Power
<1>4. Lone(t, operator) /\ Even(ledger, ledger', operator)
  BY <1>1, <1>3, OwnedFields, LoneAfter, EvenSame
<1> HIDE DEF t
<1>5. Seated'
  BY <1>1, <1>2, <1>3, BlockSets DEF Seated, Owned
<1>6. Looping'
  BY <1>1, BlockSets DEF Looping
<1> QED
  BY <1>1, <1>4, <1>5, <1>6, StaysOwned, BlockSets DEF Owned, t

LEMMA ChainStepOwned ==
    ASSUME Owned, UNCHANGED operator, ChainStep
    PROVE  Owned'
<1>1. Block(horizon)
  BY DEF ChainStep
<1>2. CASE BeginBlock
  BY <1>2, BeginBlockOwned
<1>3. CASE \E v \in todo : AllocateTokensToValidator(v)
  BY <1>3, AllocateOwned
<1>4. CASE NoOffence
  BY <1>4, NoOffenceOwned
<1>5. CASE \E v \in last : SlashAndJail(v)
  BY <1>5, SlashOwned
<1>6. CASE Transaction
  BY <1>6, TransactionOwned
<1>7. CASE EndBlock
  BY <1>7, EndBlockOwned
<1> QED
  BY <1>1, <1>2, <1>3, <1>4, <1>5, <1>6, <1>7 DEF Block

----------------------------------------------------------------------------
\* Exports of the testnet.

LEMMA ZeroSets ==
    /\ \A x \in {"commissions", "rewards", "validators", "delegations", "resetting"} :
          /\ x \in ExportStages /\ x \in IndexStages /\ x # "powers" /\ x # "recording"
    /\ \A x \in {"powers", "infos", "writing"} :
          x \in ExportStages /\ x \notin IndexStages /\ x # "recording"
    /\ \A x \in {"panicked", "exported"} :
          x \notin ExportStages /\ x \notin IndexStages /\ x # "recording"
BY DEF ExportStages, IndexStages, ZeroStages, BlockStages

\* A loop over the ledger, and a step that panics.
LEMMA InExportOwned ==
    ASSUME Owned, UNCHANGED <<operator, stakingVars, height>>, stage \in ExportStages,
           stage' \in ExportStages =>
               \/ stage' \in IndexStages /\ stage \in IndexStages
               \/ stage' = "writing",
           stage' \in IndexStages => stage \in IndexStages, stage' # "powers",
           stage' \in ExportStages \union EndStages,
           Sane(ledger', operator), Even(ledger, ledger', operator),
           DOMAIN ledger'.start = DOMAIN ledger.start, Looping'
    PROVE  Owned'
<1> DEFINE t == Staking'
<1>1. Lone(t, operator)
  BY SameStores
<1> HIDE DEF t
<1>2. stage' # "committed" /\ stage' # "recording"
  BY DEF ExportStages, EndStages
<1>3. UNCHANGED <<validator, powerIndex, last>>
  BY DEF stakingVars
<1>4. Seated'
  BY <1>2, <1>3, SameSeats
<1> QED
  BY <1>1, <1>2, <1>4, StaysOwned DEF Owned, t

LEMMA BeginExportOwned ==
    ASSUME Owned, UNCHANGED operator, NEW zero, NEW list, BeginExport(zero, list)
    PROVE  Owned'
<1> DEFINE t == Staking'
<1>1. /\ stage = "committed" /\ stage' \in {"writing", "panicked", "commissions"}
      /\ UNCHANGED <<stakingVars, ledger, height>> /\ todo' = DOMAIN validator
  BY DEF BeginExport
<1>2. UNCHANGED <<validator, powerIndex, last>>
  BY <1>1 DEF stakingVars
<1>3. Lone(t, operator) /\ Even(ledger, ledger', operator)
  BY <1>1, OwnedFields, SameStores, EvenSame
<1> HIDE DEF t
<1>4. Seated'
  BY <1>1, <1>2, SameSeats, BlockSets, ZeroSets
<1>5. Looping'
  BY <1>1, OwnedFields DEF Looping
<1> QED
  BY <1>1, <1>3, <1>4, <1>5, StaysOwned DEF Owned, t

LEMMA PanicsOwned ==
    ASSUME Owned, UNCHANGED operator, ExportStep(stage), stage \in ExportStages, Panics
    PROVE  Owned'
<1>1. /\ stage' = "panicked" /\ UNCHANGED <<height, stakingVars, ledger>>
  BY DEF ExportStep, Panics
<1>2. Looping'
  BY <1>1, ZeroSets DEF Looping
<1> QED
  BY <1>1, <1>2, InExportOwned, OwnedFields, EvenSame, ZeroSets DEF EndStages

LEMMA CommissionOwned ==
    ASSUME Owned, UNCHANGED operator, NEW v \in todo, WithdrawAllCommission(v)
    PROVE  Owned'
<1>1. ExportStep(stage) /\ stage = "commissions"
  BY DEF WithdrawAllCommission, ExportStep
<1>2. CASE ~ MayWithdrawCommission(ledger, v)
  <2>1. Panics
    BY <1>2 DEF WithdrawAllCommission
  <2> QED
    BY <1>1, <2>1, PanicsOwned, ZeroSets
<1>3. CASE MayWithdrawCommission(ledger, v)
  <2> DEFINE m == ledger'
  <2>1. /\ m = WithdrawCommission(ledger, v) /\ todo' = todo \ {v}
        /\ \/ stage' = "rewards" /\ pending' = DOMAIN delegation
           \/ stage' = "commissions" /\ pending' = pending
        /\ UNCHANGED <<height, stakingVars>>
    BY <1>1, <1>3 DEF WithdrawAllCommission, ExportStep
  <2>2. v = operator /\ todo' \subseteq {operator}
    BY <1>1, <2>1, ZeroSets DEF Owned, Looping
  <2> HIDE DEF m
  <2>3. Sane(m, v) /\ Even(ledger, m, v) /\ m.start = ledger.start
    BY <2>1, <2>2, OwnedFields, WithdrawCommissionEven
  <2>4. Looping'
    BY <2>1, <2>2 DEF Looping, stakingVars
  <2> QED
    BY <1>1, <2>1, <2>2, <2>3, <2>4, InExportOwned, ZeroSets DEF m
<1> QED
  BY <1>2, <1>3

LEMMA RewardsOwned ==
    ASSUME Owned, UNCHANGED operator, NEW k \in pending, WithdrawAllRewards(k[1], k[2])
    PROVE  Owned'
<1> DEFINE d == k[1]
           v == k[2]
           s == Staking
<1>1. ExportStep(stage) /\ stage = "rewards" /\ todo \subseteq {operator}
      /\ pending \subseteq DOMAIN delegation /\ k \in DOMAIN delegation
  <2>1. stage = "rewards" /\ ExportStep(stage)
    BY DEF WithdrawAllRewards, ExportStep
  <2> QED
    BY <2>1, ZeroSets DEF Owned, Looping
<1>2. k = <<d, v>> /\ d \in Accounts
  BY <1>1, OwnedFields DEF IsPartial
<1>3. CASE v \notin DOMAIN validator
  <2>1. /\ pending' = pending \ {<<d, v>>}
        /\ UNCHANGED <<stage, todo, stakingVars, ledger, height>>
    BY <1>1, <1>3 DEF WithdrawAllRewards, ExportStep
  <2>2. Looping'
    BY <1>1, <2>1 DEF Looping, stakingVars
  <2> QED
    BY <1>1, <2>1, <2>2, InExportOwned, OwnedFields, EvenSame, ZeroSets
<1>4. CASE /\ v \in DOMAIN validator
           /\ ~ MayWithdraw(ledger, d, v, validator[v].tokens, height, StakeOf(Staking, d, v))
  <2>1. Panics
    BY <1>4 DEF WithdrawAllRewards
  <2> QED
    BY <1>1, <2>1, PanicsOwned, ZeroSets
<1>5. CASE /\ v \in DOMAIN validator
           /\ MayWithdraw(ledger, d, v, validator[v].tokens, height, StakeOf(Staking, d, v))
  <2> DEFINE m == ledger'
  <2>1. /\ m = InitializeDelegation(Withdrawn(s, d, v, height), d, v, StakeOf(s, d, v), height)
        /\ pending' = pending \ {<<d, v>>}
        /\ UNCHANGED <<height, stage, todo, stakingVars>>
    BY <1>1, <1>5 DEF WithdrawAllRewards, ExportStep
  <2>2. v = operator
    BY <1>5, OwnedFields
  <2>3. Lone(s, v) /\ s.ledger = ledger /\ s.delegation = delegation
    BY <2>2, StakingFields DEF Owned
  <2>4. <<d, v>> \in DOMAIN s.delegation /\ Hookable(s, d, v, height)
    BY <1>1, <1>2, <1>5, StakingFields DEF Hookable
  <2> HIDE DEF m, s, d, v
  <2>5. Sane(m, v) /\ Even(ledger, m, v) /\ DOMAIN m.start = DOMAIN delegation
    BY <1>2, <2>1, <2>3, <2>4, AgainLone
  <2>6. Looping'
    BY <1>1, <2>1 DEF Looping, stakingVars
  <2>7. Sane(ledger', operator) /\ Even(ledger, ledger', operator)
        /\ DOMAIN ledger'.start = DOMAIN ledger.start
    BY <2>2, <2>5, OwnedFields DEF m
  <2> QED
    BY <1>1, <2>1, <2>6, <2>7, InExportOwned, ZeroSets
<1> QED
  BY <1>3, <1>4, <1>5

\* The periods and slash events of everyone go, whoever has a validator.
LEMMA ClearedSane ==
    ASSUME NEW l, NEW v, Sane(l, v), NEW m, m = DeleteHistoricalRewards(DeleteSlashEvents(l))
    PROVE  /\ Sane(m, v) /\ m.start = l.start /\ DOMAIN m.rewards = DOMAIN l.rewards
           /\ m.balance = l.balance /\ m.pool = l.pool
           /\ \A u \in DOMAIN l.rewards : m.rewards[u] = Wiped(l.rewards[u])
           /\ \A u \in DOMAIN l.rewards : m.rewards[u].outstanding = l.rewards[u].outstanding
<1>1. m = [rewards |-> [u \in DOMAIN l.rewards |-> Wiped(l.rewards[u])], start |-> l.start,
           pool |-> l.pool, balance |-> l.balance]
  BY DEF Sane, DeleteHistoricalRewards, DeleteSlashEvents, Wiped
<1>2. ASSUME NEW r, RewardsOK(r)
      PROVE  /\ RewardsOK(Wiped(r)) /\ Wiped(r).outstanding = r.outstanding
             /\ Wiped(r).period = r.period
  BY <1>2 DEF RewardsOK, Wiped, IsPartial, Empty
<1>3. \A u \in DOMAIN l.rewards : RewardsOK(l.rewards[u])
  BY DEF Sane
<1>4. /\ m.rewards = [u \in DOMAIN m.rewards |-> m.rewards[u]]
      /\ DOMAIN m.rewards = DOMAIN l.rewards
      /\ \A u \in DOMAIN l.rewards : m.rewards[u] = Wiped(l.rewards[u])
  BY <1>1
<1>5. \A u \in DOMAIN l.rewards : RewardsOK(m.rewards[u])
        /\ m.rewards[u].outstanding = l.rewards[u].outstanding
        /\ m.rewards[u].period = l.rewards[u].period
  BY <1>2, <1>3, <1>4
<1> QED
  BY <1>1, <1>4, <1>5 DEF Sane

LEMMA ClearPeriodsOwned ==
    ASSUME Owned, UNCHANGED operator, ClearPeriods
    PROVE  Owned'
<1> DEFINE m == ledger'
           t == Staking'
<1>1. /\ m = DeleteHistoricalRewards(DeleteSlashEvents(ledger))
      /\ stage = "rewards" /\ stage' = "validators" /\ todo' = DOMAIN validator
      /\ UNCHANGED <<height, stakingVars>>
  BY DEF ClearPeriods, ExportStep
<1> HIDE DEF m
<1>2. /\ Sane(m, operator) /\ m.start = ledger.start /\ DOMAIN m.rewards = DOMAIN ledger.rewards
      /\ m.balance = ledger.balance /\ m.pool = ledger.pool
      /\ \A u \in DOMAIN ledger.rewards : m.rewards[u].outstanding = ledger.rewards[u].outstanding
  BY <1>1, OwnedFields, ClearedSane
<1>3. Surplus(m) = Surplus(ledger)
  BY <1>2, OwnedFields, SurplusSame
<1>4. Lone(t, operator)
  BY <1>1, <1>2, SameStores DEF m
<1>5. Lone(Staking, operator)'
  BY <1>4 DEF Lone, Sane
<1>6. UNCHANGED <<validator, powerIndex, last>>
  BY <1>1 DEF stakingVars
<1>7. Seated'
  BY <1>1, <1>6, SameSeats, ZeroSets
<1>8. Looping'
  BY <1>1, OwnedFields DEF Looping
<1>9. Backed' /\ DOMAIN ledger'.rewards = Vals \union {operator}
  BY <1>2, <1>3 DEF Owned, Backed, Fresh, m
<1> QED
  BY <1>1, <1>5, <1>7, <1>8, <1>9 DEF Owned

LEMMA ReinitializeValidatorOwned ==
    ASSUME Owned, UNCHANGED operator, NEW v \in todo, ReinitializeValidator(v)
    PROVE  Owned'
<1> DEFINE m == ledger'
<1>1. /\ stage = "validators"
      /\ m = InitializeValidator(DonateOutstanding(ledger, v), v) /\ todo' = todo \ {v}
      /\ \/ stage' = "delegations" /\ pending' = DOMAIN delegation
         \/ stage' = "validators" /\ pending' = pending
      /\ UNCHANGED <<height, stakingVars>>
  BY DEF ReinitializeValidator, ExportStep
<1>2. v = operator /\ todo' \subseteq {operator}
  BY <1>1, ZeroSets DEF Owned, Looping
<1> HIDE DEF m
<1>3. Sane(m, v) /\ Even(ledger, m, v) /\ m.start = ledger.start
  BY <1>1, <1>2, OwnedFields, InitializeValidatorEven
<1>4. Looping'
  BY <1>1, <1>2 DEF Looping, stakingVars
<1> QED
  BY <1>1, <1>2, <1>3, <1>4, InExportOwned, ZeroSets DEF m

LEMMA ReinitializeDelegationOwned ==
    ASSUME Owned, UNCHANGED operator, NEW k \in pending, ReinitializeDelegation(k[1], k[2])
    PROVE  Owned'
<1> DEFINE d == k[1]
           v == k[2]
<1>1. ExportStep(stage) /\ stage = "delegations" /\ todo \subseteq {operator}
      /\ pending \subseteq DOMAIN delegation /\ k \in DOMAIN delegation
  <2>1. stage = "delegations" /\ ExportStep(stage)
    BY DEF ReinitializeDelegation, ExportStep
  <2> QED
    BY <2>1, ZeroSets DEF Owned, Looping
<1>2. k = <<d, v>>
  BY <1>1, OwnedFields DEF IsPartial
<1>3. CASE ~ MayBeforeDelegationCreated(v)
  <2>1. Panics
    BY <1>3 DEF ReinitializeDelegation
  <2> QED
    BY <1>1, <2>1, PanicsOwned, ZeroSets
<1>4. CASE MayBeforeDelegationCreated(v)
  <2> DEFINE m == ledger'
             tokens == validator[v].tokens
             l == IncrementPeriod(ledger, v, tokens)
             stake == StakeOf(Staking, d, v)
  <2>1. /\ m = InitializeDelegation(l, d, v, stake, 0)
        /\ pending' = pending \ {<<d, v>>}
        /\ UNCHANGED <<height, stage, todo, stakingVars>>
    BY <1>1, <1>4 DEF ReinitializeDelegation, ExportStep
  <2>2. v = operator /\ MayIncrementPeriod(ledger, v)
    BY <1>4, OwnedFields DEF MayBeforeDelegationCreated
  <2>3. Sane(ledger, v) /\ tokens \in Nat /\ DOMAIN ledger.start = DOMAIN delegation
    BY <2>2, OwnedFields
  <2>4. l = IncrementPeriod(ledger, v, tokens)
    OBVIOUS
  <2> HIDE DEF m, l, tokens, stake, d, v
  <2>5. Sane(l, v) /\ Even(ledger, l, v) /\ l.start = ledger.start
    BY <2>2, <2>3, <2>4, IncrementPeriodEven
  <2>6. Sane(m, v) /\ Even(l, m, v) /\ DOMAIN m.start = DOMAIN l.start \union {<<d, v>>}
    BY <2>1, <2>5, InitializeDelegationEven
  <2>7. Even(ledger, m, v) /\ DOMAIN m.start = DOMAIN ledger.start
    BY <1>1, <1>2, <2>3, <2>5, <2>6, EvenTwice
  <2>8. Looping'
    BY <1>1, <2>1 DEF Looping, stakingVars
  <2>9. Sane(ledger', operator) /\ Even(ledger, ledger', operator)
        /\ DOMAIN ledger'.start = DOMAIN ledger.start
    BY <2>2, <2>6, <2>7 DEF m
  <2> QED
    BY <1>1, <2>1, <2>8, <2>9, InExportOwned, ZeroSets
<1> QED
  BY <1>3, <1>4

LEMMA ResetEntriesOwned ==
    ASSUME Owned, UNCHANGED operator, ResetEntries
    PROVE  Owned'
<1> DEFINE t == Staking'
<1>1. /\ stage = "delegations" /\ stage' = "resetting"
      /\ UNCHANGED <<height, todo, pending, validator, delegation, powerIndex, last,
                     bondedPool, ledger>>
  BY DEF ResetEntries, ExportStep
<1>2. Lone(t, operator) /\ Even(ledger, ledger', operator)
  BY <1>1, OwnedFields, LoneAfter, EvenSame
<1> HIDE DEF t
<1>3. Seated'
  BY <1>1, SameSeats, ZeroSets
<1>4. Looping'
  BY <1>1, ZeroSets DEF Looping, Owned
<1> QED
  BY <1>1, <1>2, <1>3, <1>4, StaysOwned DEF Owned, t

LEMMA ResetValidatorsOwned ==
    ASSUME Owned, UNCHANGED operator, ResetValidators
    PROVE  Owned'
<1> DEFINE t == Staking'
           val == [validator[operator] EXCEPT !.unbondingHeight = 0,
                       !.jailed = validator[operator].jailed \/ Omitted(operator)]
<1>1. /\ stage = "resetting" /\ stage' = "powers"
      /\ validator' = [v \in DOMAIN validator |->
            [validator[v] EXCEPT !.unbondingHeight = 0, !.jailed = @ \/ Omitted(v)]]
      /\ UNCHANGED <<height, todo, pending, delegation, powerIndex, last, bondedPool, ledger,
                     allowed>>
  BY DEF ResetValidators, ExportStep
<1>2. validator' = [v \in {operator} |-> val]
  BY <1>1, OwnedFields
<1>3. /\ val \in Validator /\ val.tokens = validator[operator].tokens
      /\ val.jailed = (validator[operator].jailed \/ Omitted(operator))
  <2>1. validator[operator] \in Validator /\ Omitted(operator) \in BOOLEAN
    BY OwnedFields DEF Omitted
  <2> QED
    BY <2>1 DEF Validator
<1> HIDE DEF val
<1>4. Lone(t, operator) /\ Even(ledger, ledger', operator)
  <2>1. validator' \in [{operator} -> Validator]
    BY <1>2, <1>3
  <2> QED
    BY <1>1, <2>1, OwnedFields, LoneAfter, EvenSame
<1> HIDE DEF t
<1>5. Seated'
  <2>1. /\ last = {operator} /\ powerIndex = {operator} /\ Power(operator, validator) > 0
        /\ ~ validator[operator].jailed
    BY <1>1, ZeroSets DEF Owned, Seated
  <2>2. validator'[operator] = val
    BY <1>2
  <2>4. Power(operator, validator') = Power(operator, validator)
    BY <1>3, <2>2 DEF Power
  <2>3. validator'[operator].jailed => Omitted(operator)'
    BY <1>1, <1>3, <2>1, <2>2 DEF Omitted
  <2> QED
    BY <1>1, <2>1, <2>3, <2>4, ZeroSets DEF Seated
<1>6. Looping'
  BY <1>1, ZeroSets DEF Looping, Owned
<1> QED
  BY <1>1, <1>4, <1>5, <1>6, StaysOwned DEF Owned, t

\* The only validator of the index is the top of it.
LEMMA TopOfOne ==
    ASSUME Owned, powerIndex = {operator}, Power(operator, validator) > 0
    PROVE  Top(powerIndex, validator) = {operator}
<1>0. Power(operator, validator) \in Nat
  BY OwnedFields, PowerType
<1>1. ~ Ahead(operator, operator, validator)
  <2>1. operator \in Nat
    BY OwnedFields, TestnetAssumption
  <2> QED
    BY <1>0, <2>1 DEF Ahead
<1>2. {u \in powerIndex : Ahead(u, operator, validator)} = {}
  BY <1>1
<1>3. Rank(operator, powerIndex, validator) = 0
  BY <1>2, FS_EmptySet DEF Rank
<1>4. operator \in Visited(powerIndex, validator)
  BY <1>0, <1>3, ChainAssumption DEF Visited
<1> QED
  BY <1>4 DEF Top, Visited

LEMMA ApplyPowersOwned ==
    ASSUME Owned, UNCHANGED operator, ApplyPowers
    PROVE  Owned'
<1> DEFINE t == Staking'
<1>1. /\ stage = "powers" /\ UNCHANGED <<height, todo, delegation, powerIndex, ledger>>
      /\ \/ stage' = "infos" /\ ApplyAndReturnValidatorSetUpdates(validator, height)
         \/ stage' = "panicked" /\ UNCHANGED <<validator, last, bondedPool>>
  BY DEF ApplyPowers
<1>2. powerIndex = {operator} /\ last = {operator} /\ Power(operator, validator) > 0
  BY <1>1, ZeroSets DEF Owned, Seated
<1>3. /\ last' = {operator} /\ bondedPool' = bondedPool
      /\ validator' \in [{operator} -> Validator]
      /\ validator'[operator].tokens = validator[operator].tokens
  <2>1. Top(powerIndex, validator) = {operator}
    BY <1>2, TopOfOne
  <2> QED
    BY <1>1, <1>2, <2>1, AppliedOwned, OwnedFields DEF Owned
<1>4. Lone(t, operator) /\ Even(ledger, ledger', operator)
  BY <1>1, <1>3, OwnedFields, LoneAfter, EvenSame
<1> HIDE DEF t
<1>5. Seated'
  <2>1. Power(operator, validator') = Power(operator, validator)
    BY <1>3 DEF Power
  <2> QED
    BY <1>1, <1>2, <1>3, <2>1, ZeroSets DEF Seated
<1>6. Looping'
  BY <1>1, ZeroSets DEF Looping, Owned
<1> QED
  BY <1>1, <1>4, <1>5, <1>6, StaysOwned, ZeroSets DEF Owned, t

LEMMA LastStepsOwned ==
    ASSUME Owned, UNCHANGED operator, ResetSigningInfos \/ WriteGenesis
    PROVE  Owned'
<1>1. /\ \/ stage = "infos" /\ stage' = "writing" /\ todo' = todo
         \/ stage = "writing" /\ stage' = "exported" /\ todo' = {}
      /\ UNCHANGED <<height, stakingVars, ledger>>
  BY DEF ResetSigningInfos, WriteGenesis
<1>2. Looping'
  BY <1>1, ZeroSets DEF Looping, Owned
<1> QED
  BY <1>1, <1>2, InExportOwned, OwnedFields, EvenSame, ZeroSets DEF EndStages

LEMMA PrepOwned ==
    ASSUME Owned, UNCHANGED operator, PrepForZeroHeightGenesis
    PROVE  Owned'
<1>1. CASE \E v \in todo : WithdrawAllCommission(v)
  BY <1>1, CommissionOwned
<1>2. CASE \E k \in pending : WithdrawAllRewards(k[1], k[2])
  BY <1>2, RewardsOwned
<1>3. CASE ClearPeriods
  BY <1>3, ClearPeriodsOwned
<1>4. CASE \E v \in todo : ReinitializeValidator(v)
  BY <1>4, ReinitializeValidatorOwned
<1>5. CASE \E k \in pending : ReinitializeDelegation(k[1], k[2])
  BY <1>5, ReinitializeDelegationOwned
<1>6. CASE ResetEntries
  BY <1>6, ResetEntriesOwned
<1>7. CASE ResetValidators
  BY <1>7, ResetValidatorsOwned
<1>8. CASE ApplyPowers
  BY <1>8, ApplyPowersOwned
<1>9. CASE ResetSigningInfos
  BY <1>9, LastStepsOwned
<1> QED
  BY <1>1, <1>2, <1>3, <1>4, <1>5, <1>6, <1>7, <1>8, <1>9 DEF PrepForZeroHeightGenesis

----------------------------------------------------------------------------
\* The command.

\* The records of the operator's validator are started over whatever there is.
LEMMA OurRecords ==
    ASSUME NEW l, LedgerOK(l), NEW op,
           NEW n, n = [l EXCEPT !.rewards = Put(@, op, RecordsOf(l, op))],
           NEW m, m = InitializeValidator(n, op)
    PROVE  /\ Sane(m, op) /\ m.start = l.start /\ DOMAIN m.rewards = Vals \union {op}
           /\ m.balance = l.balance /\ m.pool = l.pool
           /\ m.rewards[op].outstanding = 0
           /\ \A u \in Vals \ {op} : m.rewards[u] = l.rewards[u]
<1> DEFINE r == RecordsOf(l, op)
           s == [outstanding |-> 0, commission |-> 0, current |-> 0, period |-> 1,
                 historical |-> Put(r.historical, 0, [ratio |-> 0, refs |-> 1]),
                 slashes |-> r.slashes]
           f == Put(l.rewards, op, r)
<1>1. DOMAIN l.rewards = Vals /\ \A u \in Vals : RewardsOK(l.rewards[u])
  BY LedgerTypes
<1>2. RewardsOK(r)
  <2>1. RewardsOK(NoRecords)
    BY DEF RewardsOK, NoRecords, Empty, IsPartial
  <2> QED
    BY <1>1, <2>1 DEF RecordsOf
<1>3. RewardsOK(s) /\ s.period = 1 /\ s.outstanding = 0
  <2> HIDE DEF r
  <2>1. IsPartial(Put(r.historical, 0, [ratio |-> 0, refs |-> 1]), Nat, [ratio : Int, refs : Nat])
    BY <1>2 DEF RewardsOK, IsPartial, Put
  <2>2. r.slashes \in SUBSET SlashEvent
    BY <1>2 DEF RewardsOK
  <2> QED
    BY <2>1, <2>2 DEF RewardsOK
<1>4. l = [rewards |-> l.rewards, start |-> l.start, pool |-> l.pool, balance |-> l.balance]
  BY DEF LedgerOK
<1>5. n = [rewards |-> f, start |-> l.start, pool |-> l.pool, balance |-> l.balance]
  <2> HIDE DEF f, r
  <2>1. n = [l EXCEPT !.rewards = f]
    BY DEF f, r
  <2> QED
    BY <1>4, <2>1
<1>6. DOMAIN f = Vals \union {op} /\ f[op] = r /\ \A u \in Vals \ {op} : f[u] = l.rewards[u]
  BY <1>1 DEF Put
<1>7. m = [n EXCEPT !.rewards[op] = s]
  BY <1>5, <1>6 DEF InitializeValidator
<1>8. f = [u \in DOMAIN f |-> f[u]]
  BY DEF Put
<1> HIDE DEF f, s, r
<1>9. m = [rewards |-> [f EXCEPT ![op] = s], start |-> l.start, pool |-> l.pool,
           balance |-> l.balance]
  <2> DEFINE k == [rewards |-> f, start |-> l.start, pool |-> l.pool, balance |-> l.balance]
  <2>1. m = [k EXCEPT !.rewards[op] = s]
    BY <1>5, <1>7
  <2>2. k.rewards = f /\ [k EXCEPT !.rewards = [f EXCEPT ![op] = s]]
                         = [rewards |-> [f EXCEPT ![op] = s], start |-> l.start,
                            pool |-> l.pool, balance |-> l.balance]
    OBVIOUS
  <2> HIDE DEF k
  <2> QED
    BY <2>1, <2>2
<1>10. /\ DOMAIN m.rewards = Vals \union {op} /\ m.rewards[op] = s
       /\ m.rewards = [u \in DOMAIN m.rewards |-> m.rewards[u]]
       /\ \A u \in Vals \ {op} : m.rewards[u] = l.rewards[u]
  BY <1>6, <1>8, <1>9
<1>11. \A u \in DOMAIN m.rewards : RewardsOK(m.rewards[u])
  BY <1>1, <1>3, <1>10
<1>12. l.pool \in Int /\ l.balance \in Int
  BY LedgerTypes
<1>13. /\ m.start = l.start /\ m.pool = l.pool /\ m.balance = l.balance
       /\ m = [rewards |-> m.rewards, start |-> m.start, pool |-> m.pool, balance |-> m.balance]
  BY <1>9
<1> QED
  BY <1>3, <1>10, <1>11, <1>12, <1>13 DEF Sane

\* What an old validator had outstanding is forgotten, and nobody else's.
LEMMA OursIsBacked ==
    ASSUME NEW l, LedgerOK(l), Surplus(l) = 0, \A u \in Vals : l.rewards[u].outstanding >= 0,
           NEW op, NEW m, Sane(m, op), DOMAIN m.rewards = Vals \union {op},
           m.balance = l.balance, m.pool = l.pool, m.rewards[op].outstanding = 0,
           \A u \in Vals \ {op} : m.rewards[u] = l.rewards[u]
    PROVE  Surplus(m) >= 0 /\ (op \notin Vals => Surplus(m) = 0)
<1> DEFINE f == OutstandingIn(l)
           g == OutstandingIn(m)
<1>1. /\ DOMAIN l.rewards = Vals /\ l.pool \in Int /\ l.balance \in Int
      /\ \A u \in Vals : l.rewards[u].outstanding \in Int
  BY LedgerTypes
<1>2. /\ \A u \in Vals : f[u] = l.rewards[u].outstanding
      /\ \A u \in Vals \union {op} : g[u] = m.rewards[u].outstanding
  BY <1>1 DEF OutstandingIn
<1>3. l.balance - l.pool - Sum(f, Vals) = 0
  BY <1>1 DEF Surplus
<1>4. Surplus(m) = l.balance - l.pool - Sum(g, Vals \union {op})
  BY DEF Surplus
<1> HIDE DEF f, g
<1>5. /\ \A u \in Vals : f[u] \in Int
      /\ g[op] = 0 /\ \A u \in Vals \ {op} : g[u] = f[u]
      /\ IsFiniteSet(Vals)
  BY <1>1, <1>2, FiniteLemma
<1>6. Sum(f, Vals) \in Int
  BY <1>5, SumType
<1>7. CASE op \in Vals
  <2> DEFINE S == Vals
  <2>1. /\ op \in S /\ IsFiniteSet(S) /\ \A u \in S : f[u] \in Int
        /\ g[op] \in Int /\ \A u \in S \ {op} : g[u] = f[u]
    BY <1>5, <1>7
  <2> HIDE DEF S
  <2>2. Sum(g, S) = Sum(f, S) + (g[op] - f[op])
    BY ONLY <2>1, SumChange
  <2> USE DEF S
  <2>3. Vals \union {op} = Vals /\ f[op] \in Int /\ f[op] >= 0
    BY <1>2, <1>5, <1>7
  <2>4. Surplus(m) = l.balance - l.pool - Sum(g, Vals)
    BY <1>4, <2>3
  <2> QED
    BY <1>1, <1>3, <1>5, <1>6, <1>7, <2>2, <2>3, <2>4
<1>8. CASE op \notin Vals
  <2>1. \A u \in Vals : g[u] = f[u]
    BY <1>5, <1>8
  <2>2. Sum(g, Vals) = Sum(f, Vals)
    BY <1>5, <2>1, SumSame
  <2>3. \A u \in Vals \union {op} : g[u] \in Int
    BY <1>5, <2>1
  <2>4. Sum(g, Vals \union {op}) = g[op] + Sum(g, Vals)
    BY <1>5, <1>8, <2>3, SumAdd
  <2> QED
    BY <1>1, <1>3, <1>4, <1>5, <1>6, <2>2, <2>4
<1> QED
  BY <1>7, <1>8

LEMMA OrdinaryTypes ==
    ASSUME Ordinary
    PROVE  /\ LedgerOK(ledger) /\ DOMAIN ledger.start = DOMAIN delegation
           /\ IsPartial(delegation, Pairs, Nat) /\ validator \in [Vals -> Validator]
           /\ bondedPool \in Nat /\ height \in Nat
<1>1. /\ LedgerOK(ledger) /\ DOMAIN ledger.start = DOMAIN delegation /\ height \in Nat
      /\ IsPartial(delegation, Pairs, Nat) /\ validator \in [Vals -> Validator]
  BY LedgerTyped DEF Ordinary, IInv, OthersOK, CountsOK, Covers
<1>2. \A v \in Vals : BondedOf(validator)[v] \in Nat
  BY <1>1, BondedType DEF BondedOf
<1>3. Sum(BondedOf(validator), Vals) \in Nat
  BY <1>2, FiniteLemma, SumOfNaturals
<1> QED
  BY <1>1, <1>3 DEF Ordinary, Active, Agrees

LEMMA OwedType ==
    ASSUME LedgerOK(ledger)
    PROVE  /\ OutstandingIn(ledger) = OutstandingOf(ledger)
           /\ Sum(OutstandingIn(ledger), DOMAIN ledger.rewards) \in Int
           /\ ledger.balance \in Int /\ ledger.pool \in Int
<1>1. /\ DOMAIN ledger.rewards = Vals /\ ledger.pool \in Int /\ ledger.balance \in Int
      /\ \A v \in Vals : ledger.rewards[v].outstanding \in Int
  BY LedgerTypes
<1>2. OutstandingIn(ledger) = OutstandingOf(ledger)
  BY <1>1 DEF OutstandingIn, OutstandingOf
<1>3. \A v \in Vals : OutstandingOf(ledger)[v] \in Int
  BY <1>1 DEF OutstandingOf
<1>4. Sum(OutstandingOf(ledger), Vals) \in Int
  BY <1>3, FiniteLemma, SumType
<1> QED
  BY <1>1, <1>2, <1>4

LEMMA OrdinarySurplus ==
    ASSUME Ordinary
    PROVE  Surplus(ledger) = 0
<1>1. LedgerOK(ledger) /\ DOMAIN ledger.rewards = Vals
  BY OrdinaryTypes, LedgerTypes
<1>2. ledger.balance = ledger.pool + Sum(OutstandingIn(ledger), DOMAIN ledger.rewards)
  BY <1>1, OwedType DEF Ordinary, Whole, Balanced
<1> QED
  BY <1>1, <1>2, OwedType DEF Surplus

\* The committed state that the command is run on.
LEMMA TakeOver ==
    ASSUME Ordinary, operator = NoOperator,
           NEW op \in Operators, NEW flag, getCommandArgs(op, flag)
    PROVE  TakenOver'
<1>1. /\ stage = "committed" /\ stage' = "replacing"
      /\ UNCHANGED <<height, validator, delegation, bondedPool, ledger>>
  BY DEF getCommandArgs, stakingVars
<1>2. /\ LedgerOK(ledger) /\ Covers(ledger, DOMAIN delegation) /\ height \in Nat
      /\ IsPartial(delegation, Pairs, Nat) /\ validator \in [Vals -> Validator]
      /\ bondedPool \in Nat
  BY OrdinaryTypes DEF Covers
<1>3. \A v \in Vals : ledger.rewards[v].outstanding >= 0
  <2> SUFFICES ASSUME NEW v \in Vals PROVE ledger.rewards[v].outstanding >= 0
    OBVIOUS
  <2> DEFINE r == ledger.rewards[v]
  <2>1. LedgerSound(ledger, Counting, CapsOf(Staking), Latest(AfterSlashes))
    BY <1>1 DEF Ordinary, Covered
  <2>2. Paid(r)
    BY <2>1, SoundIsPaid
  <2>3. r.outstanding \in Int /\ r.commission \in Int /\ r.current \in Int
    BY <1>2, LedgerTypes
  <2> QED
    BY <2>2, <2>3 DEF Paid, Margin
<1>4. Surplus(ledger) = 0
  BY OrdinarySurplus
<1> QED
  BY <1>1, <1>2, <1>3, <1>4 DEF TakenOver

LEMMA RemoveAllTaken ==
    ASSUME TakenOver, RemoveAllValidators
    PROVE  TakenOver'
<1>1. stage' = "creating" /\ UNCHANGED <<height, delegation, bondedPool, ledger>>
  BY DEF RemoveAllValidators, CommandStep
<1> QED
  BY <1>1 DEF TakenOver

\* What the command makes of the operator's validator is ready for a block.
Equipped ==
    stage \in Ours => /\ powerIndex = {operator} /\ Power(operator, validator) > 0
                      /\ ~ validator[operator].jailed

LEMMA OurSets ==
    /\ \A x \in Ours : /\ x \notin {"committed"} \union ExportStages
                       /\ x \notin IndexStages /\ x # "powers"
                       /\ x \notin {"distributing"} \union ExportStages
                       /\ x \notin {"rewards", "delegations"}
                       /\ x \notin {"replacing", "creating"}
    /\ "committed" \in IndexStages
    /\ "committed" \notin {"distributing"} \union ExportStages
    /\ "committed" # "powers" /\ "committed" \notin Ours
BY DEF Ours, IndexStages, ZeroStages, ExportStages, BlockStages

LEMMA AddOurValidatorOwned ==
    ASSUME TakenOver, OInv, operator \in Operators, AddOurValidator
    PROVE  Owned' /\ Equipped'
<1> DEFINE t == Staking'
           val == newVal
           n == [ledger EXCEPT !.rewards = Put(@, operator, RecordsOf(ledger, operator))]
           m == InitializeValidator(n, operator)
<1>1. /\ stage = "creating" /\ stage' = "recording" /\ stage' \in Ours
      /\ validator' = Put(validator, operator, val)
      /\ powerIndex' = powerIndex \union {operator} /\ last' = last \union {operator}
      /\ ledger' = m
      /\ UNCHANGED <<height, todo, pending, operator, delegation, bondedPool>>
  BY DEF AddOurValidator, CommandStep, exportVars, Ours
<1>2. validator = Empty /\ powerIndex = {} /\ last = {}
  BY <1>1 DEF OInv
<1>3. /\ val \in Validator /\ ~ val.jailed /\ val.tokens = VotingPower
  <2>1. VotingPower \in Nat /\ InitialShares \in Nat
    BY TestnetAssumption
  <2> QED
    BY <2>1 DEF newVal, Validator, Statuses
<1> HIDE DEF val
<1>4. validator' = [v \in {operator} |-> val]
  BY <1>1, <1>2 DEF Put, Empty
<1>5. /\ Sane(m, operator) /\ m.start = ledger.start
      /\ DOMAIN m.rewards = Vals \union {operator}
      /\ m.balance = ledger.balance /\ m.pool = ledger.pool
      /\ m.rewards[operator].outstanding = 0
      /\ \A u \in Vals \ {operator} : m.rewards[u] = ledger.rewards[u]
  <2>1. LedgerOK(ledger)
    BY DEF TakenOver
  <2> QED
    BY <2>1, OurRecords
<1> HIDE DEF m, n
<1>6. Surplus(m) >= 0 /\ (operator \notin Vals => Surplus(m) = 0)
  <2>1. /\ LedgerOK(ledger) /\ Surplus(ledger) = 0
        /\ \A u \in Vals : ledger.rewards[u].outstanding >= 0
    BY DEF TakenOver
  <2> QED
    BY <1>5, <2>1, OursIsBacked
<1>7. Lone(t, operator)
  <2>1. /\ validator' \in [{operator} -> Validator]
        /\ IsPartial(delegation', Accounts \X (Vals \union Operators), Nat)
        /\ DOMAIN ledger'.start = DOMAIN delegation' /\ bondedPool' \in Nat
    BY <1>1, <1>3, <1>4, <1>5 DEF TakenOver, Covers, IsPartial, Pairs
  <2>2. Sane(ledger', operator)
    BY <1>1, <1>5
  <2> QED
    BY <2>1, <2>2, LoneAfter
<1> HIDE DEF t
<1>8. Seated' /\ Looping'
  BY <1>1, <1>2, OurSets DEF Seated, Looping
<1>9. Equipped'
  <2>1. Power(operator, validator') = VotingPower \div PowerReduction
    BY <1>3, <1>4 DEF Power
  <2>2. VotingPower \div PowerReduction > 0
    BY TestnetAssumption, ChainAssumption
  <2> QED
    BY <1>1, <1>2, <1>3, <1>4, <2>1, <2>2 DEF Equipped
<1>10. Backed'
  BY <1>1, <1>6 DEF Backed, Fresh
<1>11. DOMAIN ledger'.rewards = (Vals \union {operator})' /\ ledger'.rewards[operator'].outstanding = 0
  BY <1>1, <1>5
<1>12. height' \in Nat
  BY <1>1 DEF TakenOver
<1> QED
  BY <1>1, <1>7, <1>8, <1>9, <1>10, <1>11, <1>12 DEF Owned, t

\* A step of the command that leaves the validator alone.
LEMMA CommandOwned ==
    ASSUME Owned, Equipped, UNCHANGED <<operator, stakingVars, height>>,
           stage \in Ours,
           \/ stage' \in {"registering", "funding", "exited"}
           \/ stage' = "committed",
           Sane(ledger', operator), Even(ledger, ledger', operator),
           DOMAIN ledger'.start = DOMAIN ledger.start
    PROVE  Owned' /\ Equipped'
<1> DEFINE t == Staking'
<1>1. /\ powerIndex = {operator} /\ Power(operator, validator) > 0
      /\ ~ validator[operator].jailed /\ last = {operator}
  BY DEF Equipped, Owned, Seated
<1>2. UNCHANGED <<validator, powerIndex, last>>
  BY DEF stakingVars
<1>3. Lone(t, operator)
  BY SameStores
<1> HIDE DEF t
<1>4. "exited" \notin {"committed"} \union ExportStages \union IndexStages \union Ours
  BY DEF ExportStages, IndexStages, ZeroStages, BlockStages, Ours
<1>5. Seated'
  BY <1>1, <1>2 DEF Seated
<1>6. Looping' /\ stage' # "recording"
  BY <1>4, OurSets DEF Looping, Ours, ExportStages
<1>7. Equipped'
  BY <1>1, <1>2 DEF Equipped
<1>8. height' \in Nat
  BY DEF Owned
<1> QED
  BY <1>3, <1>5, <1>6, <1>7, <1>8, StaysOwned DEF t

LEMMA InitializeRecordsOwned ==
    ASSUME Owned, Equipped, InitializeRecords
    PROVE  Owned' /\ Equipped'
<1>1. /\ stage = "recording" /\ stage' = "registering"
      /\ UNCHANGED <<operator, stakingVars, height>>
      /\ ledger' = InitializeValidator(ledger, operator)
  BY DEF InitializeRecords, CommandStep
<1>2. Sane(ledger, operator) /\ ledger.rewards[operator].outstanding = 0
  BY <1>1, OwnedFields DEF Owned
<1> DEFINE m == ledger'
<1>3. m = InitializeValidator(ledger, operator)
  BY <1>1
<1> HIDE DEF m
<1>4. Sane(m, operator) /\ Even(ledger, m, operator) /\ m.start = ledger.start
  BY <1>2, <1>3, RestartedEven
<1> QED
  BY <1>1, <1>4, CommandOwned DEF m, Ours

LEMMA LaterCommandOwned ==
    ASSUME Owned, Equipped, SetSigningInfo \/ FundAccount \/ StartNode
    PROVE  Owned' /\ Equipped'
<1>1. /\ stage \in Ours /\ stage' \in {"registering", "funding", "exited", "committed"}
      /\ UNCHANGED <<operator, stakingVars, height, ledger>>
  BY DEF SetSigningInfo, FundAccount, StartNode, CommandStep, Ours, testnetVars
<1>2. Sane(ledger', operator) /\ Even(ledger, ledger', operator)
  BY <1>1, OwnedFields, EvenSame
<1> QED
  BY <1>1, <1>2, CommandOwned

----------------------------------------------------------------------------
\* The stores through every step.

LEMMA NextOrdinary ==
    ASSUME Ordinary, [Next]_vars
    PROVE  Ordinary'
<1>1. IInv /\ HInv /\ Covered /\ Whole /\ Active
  BY DEF Ordinary
<1>2. IInv'
  BY <1>1, NextInvariant
<1>3. HInv' /\ Covered' /\ Whole' /\ Active'
  BY <1>1, <1>2, NextHeights, NextWhole, NextActive
<1> QED
  BY <1>2, <1>3 DEF Ordinary

LEMMA InitOrdinary == Init => Ordinary
BY InitInvariant, InitHeights, InitCovered, InitActive DEF Ordinary

LEMMA CommandSets ==
    /\ \A x \in BlockStages \union ExportStages \union EndStages :
          x \notin CommandStages /\ x \notin Ours /\ x \notin {"replacing", "creating"}
    /\ CommandStages = {"replacing", "creating"} \union Ours
    /\ "exited" \notin BlockStages \union ExportStages \union CommandStages
    /\ "committed" \in BlockStages
BY DEF BlockStages, ExportStages, EndStages, CommandStages, Ours

TInv == Given /\ OInv /\ Stores /\ Equipped

LEMMA ChainGiven ==
    ASSUME Given, UNCHANGED testnetVars,
           stage' \in BlockStages \union ExportStages \union EndStages
    PROVE  Given'
BY DEF Given, testnetVars

LEMMA ChainStores ==
    ASSUME TInv, UNCHANGED testnetVars, ChainStep \/ ExportMoves
    PROVE  TInv'
<1>1. /\ stage \in BlockStages \union ExportStages
      /\ stage' \in BlockStages \union ExportStages \union EndStages
      /\ operator' = operator
  BY BlockStaysInBlock, ExportStaysInExport, CommandSets DEF testnetVars
<1>2. Given'
  BY <1>1, ChainGiven DEF TInv
<1>3. OInv'
  BY <1>1, BlockKeeps, ExportLeaves DEF TInv
<1>4. stage' \notin {"replacing", "creating"} /\ Equipped'
  BY <1>1, CommandSets DEF Equipped
<1>5. operator = NoOperator => Ordinary'
  <2> SUFFICES ASSUME operator = NoOperator PROVE Ordinary'
    OBVIOUS
  <2>1. Ordinary
    BY DEF TInv, Stores
  <2>2. Next
    BY DEF Next, ExportMoves
  <2> QED
    BY <2>1, <2>2, NextOrdinary
<1>6. operator # NoOperator => Owned'
  <2> SUFFICES ASSUME operator # NoOperator PROVE Owned'
    OBVIOUS
  <2>1. Owned
    BY <1>1, CommandSets DEF TInv, Stores, Late
  <2> QED
    BY <1>1, <2>1, ChainStepOwned, BeginExportOwned, PrepOwned, LastStepsOwned DEF ExportMoves
<1> QED
  BY <1>1, <1>2, <1>3, <1>4, <1>5, <1>6 DEF TInv, Stores, Late

\* What strings.Split makes of a flag.
LEMMA SplitType ==
    ASSUME NEW A, NEW f \in Seq(A), Malformed \in A
    PROVE  Split(f) \in Seq(A) /\ Len(Split(f)) \in Nat
<1>1. CASE f = <<>>
  <2>1. Split(f) = <<Malformed>>
    BY <1>1 DEF Split
  <2>2. <<Malformed>> \in Seq(A) /\ Len(<<Malformed>>) \in Nat
    OBVIOUS
  <2> QED
    BY <2>1, <2>2
<1>2. CASE f # <<>>
  BY <1>2 DEF Split
<1> QED
  BY <1>1, <1>2

LEMMA CommandTInv ==
    ASSUME TInv, OInv',
           NEW op \in Operators, NEW flag \in FundFlags, getCommandArgs(op, flag)
    PROVE  TInv'
<1>1. /\ stage' = "replacing" /\ operator = NoOperator /\ operator' = op
      /\ fundFlag' = flag /\ toFund' = Split(flag) /\ funds' = funds
  BY DEF getCommandArgs
<1>2. TakenOver'
  BY <1>1, TakeOver DEF TInv, Stores
<1>3. op \in Nat /\ op # NoOperator
  <2>1. op \in Nat
    BY TestnetAssumption
  <2> QED
    BY <2>1 DEF NoOperator
<1>4. /\ fundFlag' \in Seq(Accounts \union {Malformed})
      /\ toFund' \in Seq(Accounts \union {Malformed}) /\ Len(toFund') <= Len(Split(fundFlag'))
  <2>1. flag \in Seq(Accounts \union {Malformed})
    BY TestnetAssumption
  <2>2. Split(flag) \in Seq(Accounts \union {Malformed}) /\ Len(Split(flag)) \in Nat
    BY <2>1, SplitType
  <2>3. Split(fundFlag') = Split(flag)
    BY <1>1
  <2>4. Len(toFund') <= Len(Split(fundFlag'))
    BY <1>1, <2>2, <2>3
  <2> QED
    BY <1>1, <2>1, <2>2, <2>4
<1>5. Given'
  BY <1>1, <1>4 DEF TInv, Given, CommandStages
<1>6. Equipped'
  BY <1>1 DEF Equipped, Ours
<1> QED
  BY <1>1, <1>2, <1>3, <1>5, <1>6 DEF TInv, Stores, Late

\* A step of the command, its flags aside.
LEMMA StepGiven ==
    ASSUME Given, stage' \in CommandStages \union {"committed"},
           UNCHANGED <<operator, fundFlag, toFund, funds>>
    PROVE  Given'
BY CommandSets DEF Given

LEMMA FundGiven ==
    ASSUME Given, FundAccount
    PROVE  Given'
<1> DEFINE A == Accounts \union {Malformed}
<1>1. /\ stage = "funding" /\ toFund # <<>> /\ UNCHANGED <<operator, fundFlag>>
      /\ toFund \in Seq(A) /\ funds \in [Accounts -> Nat]
      /\ Len(toFund) <= Len(Split(fundFlag))
  BY DEF FundAccount, Given
<1>2. CASE Head(toFund) = Malformed
  <2>1. stage' = "exited" /\ UNCHANGED <<toFund, funds>>
    BY <1>2 DEF FundAccount
  <2> QED
    BY <1>1, <2>1 DEF Given
<1>3. CASE Head(toFund) # Malformed
  <2>1. /\ funds' = [funds EXCEPT ![Head(toFund)] = @ + 1]
        /\ toFund' = Tail(toFund) /\ stage' = stage
    BY <1>3 DEF FundAccount
  <2>2. Head(toFund) \in A /\ Tail(toFund) \in Seq(A) /\ Len(Tail(toFund)) = Len(toFund) - 1
        /\ Len(toFund) \in Nat
    BY <1>1
  <2>3. Head(toFund) \in Accounts
    BY <1>3, <2>2
  <2>4. funds' \in [Accounts -> Nat]
    BY <1>1, <2>1, <2>3
  <2>5. fundFlag' = fundFlag
    BY <1>1
  <2>6. Len(toFund') <= Len(Split(fundFlag'))
    <3>1. Len(toFund) - 1 <= Len(Split(fundFlag))
      <4> DEFINE n == Len(Split(fundFlag))
      <4>1. n \in Int
        BY SplitType DEF Given
      <4> QED
        BY <1>1, <2>2, <4>1
    <3> QED
      BY <2>1, <2>2, <2>5, <3>1
  <2> QED
    BY <1>1, <2>1, <2>2, <2>4, <2>6 DEF Given
<1> QED
  BY <1>2, <1>3

LEMMA CommandStepsTInv ==
    ASSUME TInv, OInv', initAppForTestnet \/ StartNode
    PROVE  TInv'
<1>1. /\ stage \in CommandStages /\ operator' = operator /\ operator # NoOperator
      /\ operator \in Operators
  <2>1. stage \in CommandStages /\ operator' = operator
    BY DEF initAppForTestnet, RemoveAllValidators, AddOurValidator, InitializeRecords,
           SetSigningInfo, FundAccount, StartNode, CommandStep, CommandStages, testnetVars
  <2> QED
    BY <2>1 DEF TInv, OInv, Given
<1>2. Given'
  <2>1. CASE FundAccount
    BY <2>1, FundGiven DEF TInv
  <2>2. CASE ~ FundAccount
    <3>1. /\ stage' \in CommandStages \union {"committed"}
          /\ UNCHANGED <<operator, fundFlag, toFund, funds>>
      BY <2>2 DEF initAppForTestnet, RemoveAllValidators, AddOurValidator, InitializeRecords,
           SetSigningInfo, StartNode, CommandStep, CommandStages, testnetVars
    <3> QED
      BY <3>1, StepGiven DEF TInv
  <2> QED
    BY <2>1, <2>2
<1>3. CASE RemoveAllValidators
  <2>1. stage = "replacing" /\ stage' = "creating"
    BY <1>3 DEF RemoveAllValidators, CommandStep
  <2>2. TakenOver'
    BY <1>1, <1>3, <2>1, RemoveAllTaken DEF TInv, Stores
  <2> QED
    BY <1>1, <1>2, <2>1, <2>2 DEF TInv, Stores, Late, Equipped, Ours
<1>4. CASE AddOurValidator
  <2>1. stage = "creating" /\ stage' = "recording"
    BY <1>4 DEF AddOurValidator, CommandStep
  <2>2. Owned' /\ Equipped'
    BY <1>1, <1>4, <2>1, AddOurValidatorOwned DEF TInv, Stores
  <2> QED
    BY <1>1, <1>2, <2>1, <2>2 DEF TInv, Stores, Late
<1>5. CASE InitializeRecords \/ SetSigningInfo \/ FundAccount \/ StartNode
  <2>1. /\ stage \in Ours
        /\ stage' \notin {"replacing", "creating"}
    BY <1>5 DEF InitializeRecords, SetSigningInfo, FundAccount, StartNode, CommandStep, Ours
  <2>2. Owned /\ Equipped
    BY <1>1, <2>1, CommandSets DEF TInv, Stores, Late, Ours
  <2>3. Owned' /\ Equipped'
    BY <1>5, <2>2, InitializeRecordsOwned, LaterCommandOwned
  <2> QED
    BY <1>1, <1>2, <2>1, <2>3 DEF TInv, Stores, Late
<1> QED
  BY <1>3, <1>4, <1>5 DEF initAppForTestnet

LEMMA StutterTInv ==
    ASSUME TInv, UNCHANGED allVars
    PROVE  TInv'
<1>1. UNCHANGED vars /\ UNCHANGED testnetVars
  BY DEF allVars
<1>2. Ordinary => Ordinary'
  BY <1>1, NextOrdinary
<1>3. TakenOver => TakenOver'
  BY <1>1 DEF TakenOver, vars, chainVars, stakingVars
<1>4. Owned => Owned'
  BY <1>1 DEF Owned, Staking, Backed, Fresh, Seated, Looping, Omitted,
              vars, chainVars, stakingVars, exportVars, testnetVars
<1>5. Given' /\ OInv' /\ Equipped'
  BY <1>1 DEF TInv, Given, OInv, Equipped, Converted, Alone,
              vars, chainVars, stakingVars, exportVars, testnetVars
<1> QED
  BY <1>1, <1>2, <1>3, <1>4, <1>5
     DEF TInv, Stores, Late, vars, chainVars, testnetVars

LEMMA InitTInv == TestnetInit => TInv
<1> SUFFICES ASSUME TestnetInit PROVE TInv
  OBVIOUS
<1>1. Init /\ operator = NoOperator /\ stage = "committed"
  BY DEF TestnetInit, Init, InitChain
<1>2. Given
  <2>1. <<>> \in Seq(Accounts \union {Malformed}) /\ Len(<<>>) = 0 /\ Len(<<Malformed>>) = 1
    OBVIOUS
  <2> QED
    BY <1>1, <2>1, CommandSets DEF TestnetInit, Given, Split
<1>3. OInv /\ Equipped
  BY <1>1, CommandSets DEF OInv, Equipped, Converted, CommandStages, Ours
<1>4. Stores
  BY <1>1, InitOrdinary DEF Stores, Late
<1> QED
  BY <1>2, <1>3, <1>4 DEF TInv

LEMMA TestnetInvariance == TestnetSpec => []TInv
<1>1. TestnetInit => TInv
  BY InitTInv
<1>2. TInv /\ [TestnetNext]_allVars => TInv'
  <2> SUFFICES ASSUME TInv, [TestnetNext]_allVars PROVE TInv'
    OBVIOUS
  <2>1. CASE UNCHANGED testnetVars /\ (ChainStep \/ ExportMoves)
    BY <2>1, ChainStores
  <2>2. CASE \E op \in Operators, flag \in FundFlags : getCommandArgs(op, flag)
    <3>1. OInv'
      BY <2>2, CommandKeeps DEF TInv
    <3> QED
      BY <2>2, <3>1, CommandTInv
  <2>3. CASE initAppForTestnet \/ StartNode
    <3>1. OInv'
      BY <2>3, CommandKeeps DEF TInv
    <3> QED
      BY <2>3, <3>1, CommandStepsTInv
  <2>4. CASE UNCHANGED allVars
    BY <2>4, StutterTInv
  <2> QED
    BY <2>1, <2>2, <2>3, <2>4 DEF TestnetNext, ExportMoves
<1> QED
  BY <1>1, <1>2, PTL DEF TestnetSpec

----------------------------------------------------------------------------
\* In every committed state of the testnet the operator's validator is the only
\* one in the validators, the power index and the last set, and it is bonded:
\* nothing of the chain that was replaced brings a validator back
\* (testnet.go:115-154).
THEOREM TestnetHasOneValidator == TestnetSpec => []OneValidator
<1>1. TestnetInit => OInv
  BY DEF TestnetInit, Init, InitChain, OInv, Converted, Ours, CommandStages, BlockStages
<1>2. OInv /\ [TestnetNext]_allVars => OInv'
  <2> SUFFICES ASSUME OInv, [TestnetNext]_allVars PROVE OInv'
    OBVIOUS
  <2>1. CASE ChainStep /\ UNCHANGED testnetVars
    BY <2>1, BlockKeeps DEF testnetVars
  <2>2. CASE ExportMoves /\ UNCHANGED testnetVars
    BY <2>2, ExportLeaves DEF testnetVars
  <2>3. CASE \/ \E op \in Operators, flag \in FundFlags : getCommandArgs(op, flag)
             \/ initAppForTestnet \/ StartNode
    BY <2>3, CommandKeeps
  <2>4. CASE UNCHANGED allVars
    BY <2>4 DEF allVars, vars, chainVars, stakingVars, testnetVars, OInv, Converted, Alone
  <2> QED
    BY <2>1, <2>2, <2>3, <2>4 DEF TestnetNext, ExportMoves
<1>3. OInv => OneValidator
  BY OneOfInv
<1> QED
  BY <1>1, <1>2, <1>3, PTL DEF TestnetSpec

\* Every variable keeps its type through the command, which replaces the
\* validators under the delegations, the entries and the rewards of the chain:
\* no block, transaction or export of the testnet meets a validator, a
\* delegation, a period or an amount out of its type (testnet.go:113-184).
THEOREM TestnetTypesHold == TestnetSpec => []TestnetTypeOK
<1>1. TInv => TestnetTypeOK
  <2> SUFFICES ASSUME TInv PROVE TestnetTypeOK
    OBVIOUS
  <2> DEFINE Types ==
        /\ validator \in [DOMAIN validator -> Validator]
        /\ IsPartial(delegation, Accounts \X (Vals \union Operators), Nat)
        /\ DOMAIN delegation = DOMAIN ledger.start
        /\ \A v \in DOMAIN ledger.rewards : RewardsOK(ledger.rewards[v])
        /\ DOMAIN validator \subseteq DOMAIN ledger.rewards
        /\ bondedPool \in Nat
  <2>1. Given
    BY DEF TInv
  <2>2. CASE operator = NoOperator
    <3>1. Ordinary
      BY <2>2 DEF TInv, Stores
    <3>2. /\ LedgerOK(ledger) /\ DOMAIN ledger.start = DOMAIN delegation
          /\ IsPartial(delegation, Pairs, Nat) /\ validator \in [Vals -> Validator]
          /\ bondedPool \in Nat
      BY <3>1, OrdinaryTypes
    <3>3. Types
      BY <3>2, LedgerTypes DEF IsPartial, Pairs
    <3> QED
      BY <2>1, <3>3 DEF Given, TestnetTypeOK
  <2>3. CASE operator # NoOperator /\ stage \in {"replacing", "creating"}
    <3>1. TakenOver
      BY <2>3 DEF TInv, Stores
    <3>2. /\ LedgerOK(ledger) /\ DOMAIN ledger.start = DOMAIN delegation
          /\ IsPartial(delegation, Pairs, Nat) /\ bondedPool \in Nat
      BY <3>1 DEF TakenOver, Covers
    <3>3. validator \in [DOMAIN validator -> Validator] /\ DOMAIN validator \subseteq Vals
      BY <2>3, <3>1 DEF TakenOver, TInv, OInv, Empty
    <3>4. Types
      BY <3>2, <3>3, LedgerTypes DEF IsPartial, Pairs
    <3> QED
      BY <2>1, <3>4 DEF Given, TestnetTypeOK
  <2>4. CASE Late
    <3>1. Owned
      BY <2>4 DEF TInv, Stores
    <3>2. Types
      BY <3>1, OwnedFields DEF Sane
    <3> QED
      BY <2>1, <3>2 DEF Given, TestnetTypeOK
  <2> QED
    BY <2>2, <2>3, <2>4 DEF Late
<1> QED
  BY <1>1, TestnetInvariance, PTL

\* The command forgets rewards of an operator that was a validator before and
\* never invents any: at every step of it, and of the blocks and exports after
\* it, the module account covers all that is recorded, exactly so when the
\* operator is new (testnet.go:135-174, export.go:52-255).
THEOREM RewardsStayBacked == TestnetSpec => []RewardsBacked
<1>1. TInv => RewardsBacked
  <2> SUFFICES ASSUME TInv PROVE RewardsBacked
    OBVIOUS
  <2> DEFINE due == Sum(OutstandingIn(ledger), DOMAIN ledger.rewards)
  <2>1. Outstanding = due /\ Surplus(ledger) = ledger.balance - ledger.pool - due
    BY OutstandingAtTestnet DEF Surplus
  <2>2. CASE operator = NoOperator \/ stage \in {"replacing", "creating"}
    <3>1. LedgerOK(ledger) /\ Surplus(ledger) = 0
      <4>1. CASE operator = NoOperator
        <5>1. Ordinary
          BY <4>1 DEF TInv, Stores
        <5> QED
          BY <5>1, OrdinaryTypes, OrdinarySurplus
      <4>2. CASE operator # NoOperator
        BY <2>2, <4>2 DEF TInv, Stores, TakenOver
      <4> QED
        BY <4>1, <4>2
    <3>2. ledger.balance \in Int /\ ledger.pool \in Int /\ due \in Int
      BY <3>1, OwedType
    <3> HIDE DEF due
    <3> QED
      BY <2>1, <3>1, <3>2 DEF RewardsBacked
  <2>3. CASE Late
    <3>1. Owned
      BY <2>3 DEF TInv, Stores
    <3>2. ledger.balance \in Int /\ ledger.pool \in Int /\ due \in Int
      BY <3>1, OwnedFields, SaneSum
    <3>3. Surplus(ledger) >= 0 /\ (Fresh => Surplus(ledger) = 0)
      BY <3>1 DEF Owned, Backed
    <3> HIDE DEF due
    <3> QED
      BY <2>1, <3>2, <3>3 DEF RewardsBacked
  <2> QED
    BY <2>2, <2>3 DEF Late
<1> QED
  BY <1>1, TestnetInvariance, PTL

----------------------------------------------------------------------------
\* What a new operator's validator owes to its delegations.

WorthOf(f, t, n) == [d \in Accounts |-> Worth(f[d], t, n)]

\* Its t tokens stand for n shares: those that the command gave to nobody, and
\* those of its delegations, f.
Issued(f, t, n) ==
    /\ t \in Nat /\ n \in Nat /\ f \in [Accounts -> Nat]
    /\ Sum(f, Accounts) + InitialShares = n

\* Its rewards r are counted, and cover what its delegations have earned.
Serves(r, infos, f, t, n, h) ==
    /\ Issued(f, t, n) /\ h \in Nat
    /\ Counted(r, Periods(infos))
    /\ Sound(Accounts, r, infos, WorthOf(f, t, n), h)

LEMMA IssuedTypes ==
    ASSUME NEW f, NEW t, NEW n, Issued(f, t, n)
    PROVE  /\ t \in Nat /\ n \in Nat \ {0} /\ f \in [Accounts -> Nat]
           /\ IsFiniteSet(Accounts) /\ Sum(f, Accounts) \in Nat
           /\ \A d \in Accounts : f[d] \in Nat /\ f[d] < n
           /\ WorthOf(f, t, n) \in [Accounts -> Nat]
           /\ \A d \in Accounts : WorthOf(f, t, n)[d] = Worth(f[d], t, n)
<1>1. InitialShares \in Nat \ {0}
  BY TestnetAssumption
<1>2. t \in Nat /\ n \in Nat /\ f \in [Accounts -> Nat] /\ Sum(f, Accounts) + InitialShares = n
  BY DEF Issued
<1>3. Sum(f, Accounts) \in Nat /\ \A d \in Accounts : f[d] <= Sum(f, Accounts)
  <2>1. \A d \in Accounts : f[d] \in Nat
    BY <1>2
  <2> QED
    BY <2>1, FiniteLemma, SumOfNaturals
<1>4. n \in Nat \ {0} /\ \A d \in Accounts : f[d] \in Nat /\ f[d] < n
  <2> DEFINE x == Sum(f, Accounts)
  <2>1. x \in Nat /\ x + InitialShares = n /\ \A d \in Accounts : f[d] <= x /\ f[d] \in Nat
    BY <1>2, <1>3
  <2> HIDE DEF x
  <2> QED
    BY <1>1, <1>2, <2>1
<1>5. \A d \in Accounts : Worth(f[d], t, n) \in Nat
  BY <1>2, <1>4, WorthLemma
<1> QED
  BY <1>2, <1>3, <1>4, <1>5, FiniteLemma DEF WorthOf

\* All stakes together are worth no more than the tokens.
LEMMA WorthBound ==
    ASSUME NEW f, NEW t, NEW n, Issued(f, t, n)
    PROVE  Sum(WorthOf(f, t, n), Accounts) <= t * Precision
<1> DEFINE cap == WorthOf(f, t, n)
           total == Sum(cap, Accounts)
           sum == Sum(f, Accounts)
           c == t * Precision
           zero == [d \in Accounts |-> 0]
           scaled == [d \in Accounts |-> n * cap[d]]
<1>1. /\ t \in Nat /\ n \in Nat \ {0} /\ IsFiniteSet(Accounts) /\ sum \in Nat /\ sum <= n
      /\ \A d \in Accounts : f[d] \in Nat /\ cap[d] \in Nat /\ cap[d] = Worth(f[d], t, n)
      /\ c \in Nat
  <2>1. InitialShares \in Nat
    BY TestnetAssumption
  <2>2. sum + InitialShares = n
    BY DEF Issued
  <2>3. /\ t \in Nat /\ n \in Nat \ {0} /\ IsFiniteSet(Accounts) /\ sum \in Nat
        /\ \A d \in Accounts : f[d] \in Nat /\ cap[d] \in Nat /\ cap[d] = Worth(f[d], t, n)
    BY IssuedTypes
  <2>4. c \in Nat
    BY <2>3, ProductType, PrecisionAssumption
  <2> HIDE DEF sum, cap, c
  <2> QED
    BY <2>1, <2>2, <2>3, <2>4
<1> HIDE DEF cap
<1>2. \A d \in Accounts : n * cap[d] \in Nat /\ n * cap[d] <= c * f[d] /\ c * f[d] \in Nat
  <2> SUFFICES ASSUME NEW d \in Accounts
               PROVE  n * cap[d] \in Nat /\ n * cap[d] <= c * f[d] /\ c * f[d] \in Nat
    OBVIOUS
  <2>1. n * Worth(f[d], t, n) <= (f[d] * Precision) * t
    BY <1>1, WorthLemma
  <2> DEFINE y == f[d]
  <2>2. y \in Nat
    BY <1>1
  <2> HIDE DEF y
  <2>3. (y * Precision) * t = c * y
    BY <1>1, <2>2, PrecisionAssumption
  <2> QED
    BY <1>1, <2>1, <2>3, ProductType DEF y
<1>3. Sum(zero, Accounts) = 0 /\ total \in Int
  BY <1>1, SumOfZeros, SumType
<1> HIDE DEF c, zero, scaled
<1>4. Sum(scaled, Accounts) <= Sum(zero, Accounts) + c * sum
  <2>1. \A d \in Accounts : zero[d] \in Int /\ scaled[d] \in Int /\ f[d] \in Int
    BY <1>1, <1>2 DEF zero, scaled
  <2>2. \A d \in Accounts : scaled[d] <= zero[d] + c * f[d]
    BY <1>1, <1>2 DEF zero, scaled
  <2> QED
    BY <1>1, <2>1, <2>2, SumBound
<1>5. Sum(scaled, Accounts) = Sum(zero, Accounts) + n * total
  <2>1. \A d \in Accounts : zero[d] \in Int /\ scaled[d] \in Int /\ cap[d] \in Int
    BY <1>1, <1>2 DEF zero, scaled
  <2>2. \A d \in Accounts : scaled[d] = zero[d] + n * cap[d]
    BY <1>1, <1>2 DEF zero, scaled
  <2>3. n \in Int /\ IsFiniteSet(Accounts)
    BY <1>1
  <2>4. Sum(scaled, Accounts) = Sum(zero, Accounts) + n * Sum(cap, Accounts)
    BY ONLY <2>1, <2>2, <2>3, SumCombined
  <2> QED
    BY <2>4
<1> HIDE DEF sum, total
<1>6. n * total <= c * sum
  BY <1>1, <1>3, <1>4, <1>5
<1>7. c * sum <= n * c /\ c * sum \in Int /\ n * c \in Int /\ n * total \in Int
  BY <1>1, <1>3, Grows
<1>8. total <= c
  <2>1. n * total <= n * c
    BY <1>6, <1>7
  <2> QED
    BY <1>1, <1>3, <2>1, Cancels
<1> QED
  BY <1>8 DEF total, cap, c

LEMMA ServesFacts ==
    ASSUME NEW r, NEW infos, NEW f, NEW t, NEW n, NEW h, Serves(r, infos, f, t, n, h),
           NEW cap, cap = WorthOf(f, t, n)
    PROVE  /\ IsFiniteSet(Accounts) /\ cap \in [Accounts -> Nat] /\ h \in Nat /\ t \in Nat
           /\ Counted(r, Periods(infos)) /\ Sound(Accounts, r, infos, cap, h)
           /\ Sum(cap, Accounts) <= t * Precision
           /\ RewardsOK(r) /\ r.period \in Nat \ {0} /\ DOMAIN infos \subseteq Accounts
           /\ r.outstanding \in Int /\ r.commission \in Int /\ r.current \in Int
<1>1. Issued(f, t, n)
  BY DEF Serves
<1>2. /\ IsFiniteSet(Accounts) /\ cap \in [Accounts -> Nat] /\ t \in Nat
      /\ Sum(cap, Accounts) <= t * Precision
  BY <1>1, IssuedTypes, WorthBound
<1>3. h \in Nat /\ Counted(r, Periods(infos)) /\ Sound(Accounts, r, infos, cap, h)
  BY DEF Serves
<1>4. RewardsOK(r) /\ r.period \in Nat \ {0} /\ DOMAIN infos \subseteq Accounts
  BY <1>3 DEF Counted, Sound
<1>5. r.outstanding \in Int /\ r.commission \in Int /\ r.current \in Int
  BY <1>3, KnownType
<1> QED
  BY <1>2, <1>3, <1>4, <1>5

LEMMA ServesIs ==
    ASSUME NEW r, NEW infos, NEW f, NEW t, NEW n, NEW h \in Nat, Issued(f, t, n),
           Counted(r, Periods(infos)), Sound(Accounts, r, infos, WorthOf(f, t, n), h)
    PROVE  Serves(r, infos, f, t, n, h)
  BY DEF Serves

\* The period in progress can end.
LEMMA ServesEnded ==
    ASSUME NEW r, NEW infos, NEW f, NEW t, NEW n, NEW h, Serves(r, infos, f, t, n, h),
           NEW s, s = EndPeriod(r, t)
    PROVE  /\ Serves(s, infos, f, t, n, h) /\ Untouched(s, Periods(infos))
           /\ MayDecrementRef(r, r.period - 1) /\ s.period = r.period + 1
<1> DEFINE cap == WorthOf(f, t, n)
<1>1. /\ IsFiniteSet(Accounts) /\ cap \in [Accounts -> Nat] /\ h \in Nat /\ t \in Nat
      /\ Counted(r, Periods(infos)) /\ Sound(Accounts, r, infos, cap, h)
      /\ Sum(cap, Accounts) <= t * Precision /\ r.period \in Nat \ {0}
  BY ServesFacts
<1>2. Issued(f, t, n)
  BY DEF Serves
<1>3. Counted(s, Periods(infos)) /\ Untouched(s, Periods(infos)) /\ s.period = r.period + 1
  BY <1>1, EndPeriodCounts
<1>4. Sound(Accounts, s, infos, cap, h)
  <2> HIDE DEF cap
  <2> QED
    BY <1>1, EndPeriodSound
<1>5. Serves(s, infos, f, t, n, h)
  BY <1>1, <1>2, <1>3, <1>4, ServesIs
<1>6. MayDecrementRef(r, r.period - 1)
  <2>1. r.period - 1 \in Nat
    BY <1>1
  <2>2. r.period - 1 \in DOMAIN r.historical
    BY <1>1, KnownPeriods
  <2>3. \A p \in DOMAIN r.historical : r.historical[p].refs > 0
    BY <1>1 DEF Counted
  <2> QED
    BY <2>2, <2>3 DEF MayDecrementRef, Record
<1> QED
  BY <1>3, <1>5, <1>6

\* A delegation withdraws: its rewards are there, and it counts no longer.
LEMMA ServesPaid ==
    ASSUME NEW r, NEW infos, NEW f, NEW t, NEW n, NEW h, Serves(r, infos, f, t, n, h),
           NEW s, s = EndPeriod(r, t), NEW d \in DOMAIN infos,
           NEW raw, raw = DelegationRewards(s, infos[d], h, r.period, WorthOf(f, t, n)[d]),
           NEW x, x = PaidOut(s, infos[d].period, Payable(s, raw)),
           NEW others, others = Drop(infos, d)
    PROVE  /\ Serves(x, others, f, t, n, h) /\ Untouched(x, Periods(others))
           /\ infos[d].period <= r.period
           /\ Accrued(s, infos[d], h, r.period).stake <= WorthOf(f, t, n)[d] + RoundingMargin
           /\ \A p, q \in {infos[d].period, r.period} \union {e.period : e \in s.slashes} :
                infos[d].period <= p /\ p <= q /\ q <= r.period
                    => Record(s, p).ratio <= Record(s, q).ratio
           /\ MayDecrementRef(s, infos[d].period)
<1> DEFINE cap == WorthOf(f, t, n)
           reward == Payable(s, raw)
           st == Periods(infos)
           y == DecrementRef(s, infos[d].period)
<1>1. /\ IsFiniteSet(Accounts) /\ cap \in [Accounts -> Nat] /\ h \in Nat /\ t \in Nat
      /\ Counted(r, st) /\ Sound(Accounts, r, infos, cap, h)
      /\ Sum(cap, Accounts) <= t * Precision /\ r.period \in Nat \ {0}
  BY ServesFacts
<1>2. Issued(f, t, n)
  BY DEF Serves
<1>3. Serves(s, infos, f, t, n, h) /\ Untouched(s, st) /\ s.period = r.period + 1
  BY ServesEnded
<1>4. /\ Counted(s, st) /\ Sound(Accounts, s, infos, cap, h) /\ RewardsOK(s)
      /\ s.outstanding \in Int
  BY <1>3, ServesFacts
<1>5. raw = DelegationRewards(s, infos[d], h, s.period - 1, cap[d])
  BY <1>1, <1>3
<1>6. /\ infos[d].period <= r.period
      /\ Accrued(s, infos[d], h, r.period).stake <= cap[d] + RoundingMargin
      /\ \A p, q \in {infos[d].period, r.period} \union {e.period : e \in s.slashes} :
            infos[d].period <= p /\ p <= q /\ q <= r.period
                => Record(s, p).ratio <= Record(s, q).ratio
      /\ MayDecrementRef(s, infos[d].period)
  <2> HIDE DEF cap, st
  <2> QED
    BY <1>1, WithdrawalAllowed DEF st
<1>7. raw \in Nat /\ Precision * raw <= Value(s, infos[d], h) /\ reward = raw
  <2> HIDE DEF cap, st
  <2> QED
    BY <1>1, <1>4, <1>5, RewardsBound DEF st
<1> HIDE DEF reward
<1>8. /\ st[d] = infos[d].period /\ d \in DOMAIN st /\ Periods(others) = Drop(st, d)
      /\ infos[d].period \in DOMAIN s.historical /\ infos[d].period \in Nat
  <2>1. st[d] = infos[d].period /\ d \in DOMAIN st /\ Periods(others) = Drop(st, d)
    BY DEF Periods, Drop
  <2>2. infos[d].period \in DOMAIN s.historical /\ infos[d].period \in Nat
    BY <1>4, KnownPeriods
  <2> QED
    BY <2>1, <2>2
<1>9. Counted(y, Periods(others)) /\ Untouched(y, Periods(others))
  <2>1. Counted(DecrementRef(s, st[d]), Drop(st, d)) /\ Untouched(DecrementRef(s, st[d]), Drop(st, d))
    BY <1>3, <1>4, <1>8, StopCounts
  <2> QED
    BY <1>8, <2>1
<1>10. /\ RewardsOK(y) /\ y.outstanding = s.outstanding
  BY <1>4, <1>6, <1>8, DecrementRefCounts
<1>11. /\ x = [y EXCEPT !.outstanding = @ - reward]
       /\ RewardsOK(x) /\ x.period = y.period /\ x.historical = y.historical
       /\ x.slashes = y.slashes
  <2>1. x = [y EXCEPT !.outstanding = @ - reward]
    BY DEF PaidOut, reward
  <2>2. y.outstanding - reward \in Int
    BY <1>4, <1>7, <1>10
  <2> HIDE DEF y
  <2> QED
    BY <1>10, <2>1, <2>2 DEF RewardsOK
<1>12. Counted(x, Periods(others)) /\ Untouched(x, Periods(others))
  <2> HIDE DEF y
  <2> QED
    BY <1>9, <1>11, CountedOfSame
<1>13. Sound(Accounts, x, others, cap, h)
  <2>1. reward \in Int /\ Precision * reward <= Value(s, infos[d], h)
    BY <1>7
  <2>2. x = PaidOut(s, infos[d].period, reward)
    BY DEF reward
  <2> HIDE DEF cap, st, y
  <2> QED
    BY <1>1, <1>4, <1>12, <2>1, <2>2, StopSound DEF st
<1>14. Serves(x, others, f, t, n, h)
  BY <1>1, <1>2, <1>12, <1>13, ServesIs
<1> QED
  BY <1>6, <1>12, <1>14

\* A delegation starts after the period that has just ended.
LEMMA ServesStarted ==
    ASSUME NEW r, NEW infos, NEW f, NEW t, NEW n, NEW h, Serves(r, infos, f, t, n, h),
           Untouched(r, Periods(infos)), NEW d \in Accounts \ DOMAIN infos,
           NEW stake \in Nat, stake <= WorthOf(f, t, n)[d],
           NEW info, info = [period |-> r.period - 1, stake |-> stake, height |-> h],
           NEW s, s = IncrementRef(r, r.period - 1),
           NEW others, others = Put(infos, d, info)
    PROVE  Serves(s, others, f, t, n, h)
<1> DEFINE cap == WorthOf(f, t, n)
           st == Periods(infos)
<1>1. /\ IsFiniteSet(Accounts) /\ cap \in [Accounts -> Nat] /\ h \in Nat
      /\ Counted(r, st) /\ Sound(Accounts, r, infos, cap, h)
  BY ServesFacts
<1>2. Issued(f, t, n)
  BY DEF Serves
<1>3. Periods(others) = Put(st, d, r.period - 1) /\ d \notin DOMAIN st
  BY DEF Periods, Put
<1>4. Counted(s, Periods(others))
  BY <1>1, <1>3, StartCounts
<1>5. stake \in Nat /\ stake <= cap[d]
  OBVIOUS
<1>6. Sound(Accounts, s, others, cap, h)
  <2> HIDE DEF cap
  <2> QED
    BY <1>1, <1>4, <1>5, StartSound
<1> QED
  BY <1>1, <1>2, <1>4, <1>6, ServesIs

\* Stakes that are worth more, amounts that move, and later blocks.
LEMMA ServesKept ==
    ASSUME NEW r, NEW infos, NEW f, NEW t, NEW n, NEW h, Serves(r, infos, f, t, n, h),
           NEW g, NEW u, NEW m, Issued(g, u, m), NEW i \in Nat, h <= i,
           \A d \in DOMAIN infos : Worth(f[d], t, n) <= Worth(g[d], u, m),
           NEW s, RewardsOK(s), s.period = r.period, s.historical = r.historical,
           s.slashes = r.slashes, s.commission >= 0, s.current >= 0, Margin(s) >= Margin(r)
    PROVE  /\ Serves(s, infos, g, u, m, i)
           /\ Untouched(r, Periods(infos)) => Untouched(s, Periods(infos))
<1> DEFINE cap == WorthOf(f, t, n)
           more == WorthOf(g, u, m)
<1>1. /\ IsFiniteSet(Accounts) /\ cap \in [Accounts -> Nat] /\ h \in Nat
      /\ Counted(r, Periods(infos)) /\ Sound(Accounts, r, infos, cap, h)
      /\ DOMAIN infos \subseteq Accounts
  BY ServesFacts
<1>2. Issued(f, t, n)
  BY DEF Serves
<1>3. /\ more \in [Accounts -> Nat]
      /\ \A d \in Accounts : cap[d] = Worth(f[d], t, n) /\ more[d] = Worth(g[d], u, m)
  BY <1>2, IssuedTypes
<1>4. \A d \in DOMAIN infos : cap[d] <= more[d]
  BY <1>1, <1>3
<1>5. /\ Counted(s, Periods(infos))
      /\ Untouched(r, Periods(infos)) => Untouched(s, Periods(infos))
  BY <1>1, CountedOfSame
<1>6. Sound(Accounts, s, infos, more, i)
  <2> HIDE DEF cap, more
  <2> QED
    BY <1>1, <1>3, <1>4, <1>5, SoundWhenKept
<1> QED
  BY <1>5, <1>6, ServesIs

\* Rewards come in.
LEMMA ServesEarned ==
    ASSUME NEW r, NEW infos, NEW f, NEW t, NEW n, NEW h, Serves(r, infos, f, t, n, h),
           NEW a \in Nat, NEW com \in 0 .. a, NEW s, s = Earned(r, a, com)
    PROVE  Serves(s, infos, f, t, n, h)
<1>1. /\ RewardsOK(r) /\ h \in Nat /\ Sound(Accounts, r, infos, WorthOf(f, t, n), h)
      /\ r.outstanding \in Int /\ r.commission \in Int /\ r.current \in Int
  BY ServesFacts
<1>2. Issued(f, t, n)
  BY DEF Serves
<1>3. r.commission >= 0 /\ r.current >= 0
  BY <1>1 DEF Sound
<1>4. /\ s.period = r.period /\ s.historical = r.historical /\ s.slashes = r.slashes
      /\ s.outstanding = r.outstanding + a /\ s.commission = r.commission + com
      /\ s.current = r.current + (a - com) /\ RewardsOK(s)
  <2>1. s = [r EXCEPT !.outstanding = r.outstanding + a, !.commission = r.commission + com,
                      !.current = r.current + (a - com)]
    BY DEF Earned
  <2>2. /\ r.outstanding + a \in Int /\ r.commission + com \in Int
        /\ r.current + (a - com) \in Int
    BY <1>1
  <2> QED
    BY <1>1, <2>1, <2>2 DEF RewardsOK
<1>5. s.commission >= 0 /\ s.current >= 0 /\ Margin(s) >= Margin(r)
  <2>1. com \in Nat /\ com <= a
    OBVIOUS
  <2> QED
    BY <1>1, <1>3, <1>4, <2>1 DEF Margin
<1>6. \A d \in DOMAIN infos : Worth(f[d], t, n) <= Worth(f[d], t, n)
  <2>1. /\ DOMAIN infos \subseteq Accounts
        /\ WorthOf(f, t, n) \in [Accounts -> Nat]
        /\ \A d \in Accounts : WorthOf(f, t, n)[d] = Worth(f[d], t, n)
    BY <1>2, ServesFacts, IssuedTypes
  <2>2. \A d \in Accounts : Worth(f[d], t, n) \in Nat
    BY <2>1
  <2> QED
    BY <2>1, <2>2
<1> QED
  BY <1>1, <1>2, <1>4, <1>5, <1>6, ServesKept

\* The operator takes its commission, and may.
LEMMA ServesCommission ==
    ASSUME NEW r, NEW infos, NEW f, NEW t, NEW n, NEW h, Serves(r, infos, f, t, n, h),
           NEW s, s = WithoutCommission(r)
    PROVE  Serves(s, infos, f, t, n, h) /\ CommissionCoins(r) <= r.outstanding
<1>1. /\ RewardsOK(r) /\ h \in Nat /\ Sound(Accounts, r, infos, WorthOf(f, t, n), h)
      /\ r.outstanding \in Int /\ r.commission \in Int /\ r.current \in Int
      /\ IsFiniteSet(Accounts) /\ Counted(r, Periods(infos))
  BY ServesFacts
<1>2. Issued(f, t, n)
  BY DEF Serves
<1>3. r.commission >= 0 /\ r.current >= 0
  BY <1>1 DEF Sound
<1> DEFINE c == CommissionCoins(r)
<1>4. c \in Nat /\ c <= r.commission
  <2>1. r.commission \in Nat
    BY <1>1, <1>3
  <2> QED
    BY <2>1, TruncateLemma DEF CommissionCoins
<1> HIDE DEF c
<1>5. /\ s.period = r.period /\ s.historical = r.historical /\ s.slashes = r.slashes
      /\ s.outstanding = r.outstanding - c /\ s.commission = r.commission - c
      /\ s.current = r.current /\ RewardsOK(s)
  <2>1. s = [r EXCEPT !.commission = r.commission - c, !.outstanding = r.outstanding - c]
    BY DEF WithoutCommission, c
  <2>2. r.commission - c \in Int /\ r.outstanding - c \in Int
    BY <1>1, <1>4
  <2> QED
    BY <1>1, <2>1, <2>2 DEF RewardsOK
<1>6. s.commission >= 0 /\ s.current >= 0 /\ Margin(s) >= Margin(r)
  BY <1>1, <1>3, <1>4, <1>5 DEF Margin
<1>7. \A d \in DOMAIN infos : Worth(f[d], t, n) <= Worth(f[d], t, n)
  <2>1. /\ DOMAIN infos \subseteq Accounts
        /\ WorthOf(f, t, n) \in [Accounts -> Nat]
        /\ \A d \in Accounts : WorthOf(f, t, n)[d] = Worth(f[d], t, n)
    BY <1>2, ServesFacts, IssuedTypes
  <2>2. \A d \in Accounts : Worth(f[d], t, n) \in Nat
    BY <2>1
  <2> QED
    BY <2>1, <2>2
<1>8. Serves(s, infos, f, t, n, h)
  BY <1>1, <1>2, <1>5, <1>6, <1>7, ServesKept
<1>9. Margin(r) \in Nat
  BY <1>1, MarginIsNat
<1>10. c <= r.outstanding
  BY <1>1, <1>3, <1>4, <1>9 DEF Margin
<1> QED
  BY <1>8, <1>10 DEF c

\* A slash burns b of the tokens; f is at least the fraction they are.
LEMMA ServesSlashed ==
    ASSUME NEW r, NEW infos, NEW f, NEW t, NEW n, NEW h, Serves(r, infos, f, t, n, h),
           NEW b \in Nat \ {0}, b <= t, NEW frac, frac = (b * Precision + t - 1) \div t,
           NEW s, s = WithSlash(EndPeriod(r, t), h, frac)
    PROVE  Serves(s, infos, f, t - b, n, h) /\ frac \in 0 .. Precision
<1> DEFINE e == EndPeriod(r, t)
           cap == WorthOf(f, t, n)
           less == WorthOf(f, t - b, n)
<1>1. Serves(e, infos, f, t, n, h) /\ Untouched(e, Periods(infos))
  BY ServesEnded
<1> HIDE DEF e
<1>2. /\ IsFiniteSet(Accounts) /\ cap \in [Accounts -> Nat] /\ h \in Nat /\ t \in Nat
      /\ Counted(e, Periods(infos)) /\ Sound(Accounts, e, infos, cap, h)
      /\ DOMAIN infos \subseteq Accounts
  BY <1>1, ServesFacts
<1>3. Issued(f, t, n) /\ Issued(f, t - b, n)
  <2>1. Issued(f, t, n) /\ t - b \in Nat
    BY <1>2 DEF Serves
  <2> QED
    BY <2>1 DEF Issued
<1>4. frac \in 0 .. Precision /\ b * Precision <= frac * t
  BY <1>2, FractionLemma
<1>5. /\ less \in [Accounts -> Nat] /\ n \in Nat /\ f \in [Accounts -> Nat]
      /\ \A d \in Accounts : cap[d] = Worth(f[d], t, n) /\ less[d] = Worth(f[d], t - b, n)
  BY <1>3, IssuedTypes
<1>6. \A d \in DOMAIN infos : (cap[d] * (Precision - frac)) \div Precision <= less[d]
  <2> SUFFICES ASSUME NEW d \in DOMAIN infos
               PROVE  (cap[d] * (Precision - frac)) \div Precision <= less[d]
    OBVIOUS
  <2>1. f[d] \in Nat /\ b \in 0 .. t /\ d \in Accounts
    BY <1>2, <1>5
  <2>2. (Worth(f[d], t, n) * (Precision - frac)) \div Precision <= Worth(f[d], t - b, n)
    BY <1>2, <1>4, <1>5, <2>1, WorthAfterSlash
  <2> QED
    BY <1>5, <2>1, <2>2
<1>7. s = WithSlash(e, h, frac)
  BY DEF e
<1>8. Counted(s, Periods(infos))
  <2>1. frac \in Int
    BY <1>4, PrecisionAssumption
  <2> QED
    BY <1>1, <1>2, <1>7, <2>1, SlashCounts
<1>9. Sound(Accounts, s, infos, less, h)
  <2> HIDE DEF cap, less
  <2> QED
    BY <1>1, <1>2, <1>4, <1>5, <1>6, <1>7, <1>8, SlashSound
<1> QED
  BY <1>2, <1>3, <1>4, <1>8, <1>9, ServesIs

\* What initializeValidator writes of a validator that nobody delegates to.
LEMMA ServesFresh ==
    ASSUME NEW x, x.historical = Empty, x.slashes = {}, NEW f, NEW t, NEW n, Issued(f, t, n),
           NEW h \in Nat,
           NEW r, r = [outstanding |-> 0, commission |-> 0, current |-> 0, period |-> 1,
                       historical  |-> Put(x.historical, 0, [ratio |-> 0, refs |-> 1]),
                       slashes     |-> x.slashes]
    PROVE  Serves(r, Empty, f, t, n, h)
<1>1. Periods(Empty) = Empty
  BY DEF Periods, Empty
<1>2. Counted(r, Periods(Empty))
  BY <1>1, FreshCounts
<1>3. /\ r.outstanding = 0 /\ r.commission = 0 /\ r.current = 0 /\ r.slashes = {}
      /\ DOMAIN r.historical = {0} /\ r.historical[0].ratio \in Int
  BY DEF Put, Empty
<1>4. IsFiniteSet(Accounts)
  BY FiniteLemma
<1>5. Sound(Accounts, r, Empty, WorthOf(f, t, n), h)
  BY <1>3, <1>4, FreshSound
<1> QED
  BY <1>2, <1>5, ServesIs

----------------------------------------------------------------------------
\* The same in a ledger: live are the delegations that count.

Served(l, live, v, f, t, n, h) == Serves(l.rewards[v], Infos(l, live, v), f, t, n, h)

Idle(l, live, v) == Untouched(l.rewards[v], Periods(Infos(l, live, v)))

LEMMA InfosAre ==
    ASSUME NEW l, NEW live, NEW v
    PROVE  /\ DOMAIN Infos(l, live, v) = {a \in Accounts : <<a, v>> \in live}
           /\ \A d \in DOMAIN Infos(l, live, v) : Infos(l, live, v)[d] = l.start[<<d, v>>]
  BY DEF Infos

LEMMA InfosStarted ==
    ASSUME NEW l, NEW live, live \subseteq DOMAIN l.start, NEW d \in Accounts, NEW v,
           <<d, v>> \notin live, NEW info, NEW m, m.start = Put(l.start, <<d, v>>, info)
    PROVE  Infos(m, live \union {<<d, v>>}, v) = Put(Infos(l, live, v), d, info)
<1> DEFINE A == {a \in Accounts : <<a, v>> \in live}
<1>1. {a \in Accounts : <<a, v>> \in live \union {<<d, v>>}} = A \union {d}
  OBVIOUS
<1>2. Infos(m, live \union {<<d, v>>}, v) = [a \in A \union {d} |-> m.start[<<a, v>>]]
  BY <1>1 DEF Infos
<1>3. Put(Infos(l, live, v), d, info)
        = [a \in A \union {d} |-> IF a = d THEN info ELSE Infos(l, live, v)[a]]
  BY DEF Put, Infos
<1>4. \A a \in A \union {d} :
         m.start[<<a, v>>] = IF a = d THEN info ELSE Infos(l, live, v)[a]
  <2> SUFFICES ASSUME NEW a \in A \union {d}
               PROVE  m.start[<<a, v>>] = IF a = d THEN info ELSE Infos(l, live, v)[a]
    OBVIOUS
  <2>1. CASE a = d
    BY <2>1 DEF Put
  <2>2. CASE a # d
    <3>1. a \in A /\ <<a, v>> \in DOMAIN l.start /\ <<a, v>> # <<d, v>>
      BY <2>2
    <3>2. m.start[<<a, v>>] = l.start[<<a, v>>]
      BY <3>1 DEF Put
    <3> QED
      BY <2>2, <3>1, <3>2 DEF Infos
  <2> QED
    BY <2>1, <2>2
<1> QED
  BY <1>2, <1>3, <1>4

LEMMA InfosStopped ==
    ASSUME NEW l, NEW live, live \subseteq DOMAIN l.start, NEW d \in Accounts, NEW v,
           NEW m, m.start = Drop(l.start, <<d, v>>)
    PROVE  Infos(m, live \ {<<d, v>>}, v) = Drop(Infos(l, live, v), d)
<1> DEFINE A == {a \in Accounts : <<a, v>> \in live}
<1>1. {a \in Accounts : <<a, v>> \in live \ {<<d, v>>}} = A \ {d}
  OBVIOUS
<1>2. \A a \in A \ {d} : m.start[<<a, v>>] = l.start[<<a, v>>]
  BY DEF Drop
<1> QED
  BY <1>1, <1>2 DEF Infos, Drop

\* What the calls write, by field.
PaidFrom(r, info, tokens, h, stake) ==
    LET s == EndPeriod(r, tokens) IN
    PaidOut(s, info.period, Payable(s, DelegationRewards(s, info, h, r.period, stake)))

LEMMA StartWrites ==
    ASSUME NEW l, NEW v, Sane(l, v), NEW d, NEW stake, NEW h,
           NEW m, m = InitializeDelegation(l, d, v, stake, h)
    PROVE  /\ m.rewards[v] = IncrementRef(l.rewards[v], l.rewards[v].period - 1)
           /\ m.start = Put(l.start, <<d, v>>, [period |-> l.rewards[v].period - 1,
                                                stake |-> stake, height |-> h])
<1> DEFINE s == IncrementRef(l.rewards[v], l.rewards[v].period - 1)
           info == [period |-> l.rewards[v].period - 1, stake |-> stake, height |-> h]
<1>1. m = [l EXCEPT !.rewards[v] = s, !.start = Put(@, <<d, v>>, info)]
  BY DEF InitializeDelegation
<1> HIDE DEF s, info
<1>2. m = [rewards |-> [l.rewards EXCEPT ![v] = s], start |-> Put(l.start, <<d, v>>, info),
           pool |-> l.pool, balance |-> l.balance]
  BY <1>1 DEF Sane
<1>3. m.rewards[v] = s /\ m.start = Put(l.start, <<d, v>>, info)
  BY <1>2 DEF Sane
<1> QED
  BY <1>3 DEF s, info

LEMMA PeriodWrites ==
    ASSUME NEW l, NEW v, Sane(l, v), NEW tokens, NEW m, m = IncrementPeriod(l, v, tokens)
    PROVE  m.rewards[v] = EndPeriod(l.rewards[v], tokens) /\ m.start = l.start
<1> DEFINE s == EndPeriod(l.rewards[v], tokens)
           x == Unclaimed(l.rewards[v], tokens)
<1>1. m = [l EXCEPT !.rewards[v] = s, !.pool = @ + x]
  BY DEF IncrementPeriod
<1> HIDE DEF s, x
<1>2. m = [rewards |-> [l.rewards EXCEPT ![v] = s], start |-> l.start,
           pool |-> l.pool + x, balance |-> l.balance]
  BY <1>1 DEF Sane
<1>3. m.rewards[v] = s /\ m.start = l.start
  BY <1>2 DEF Sane
<1> QED
  BY <1>3 DEF s

LEMMA PeriodShape ==
    ASSUME NEW l, NEW v, Sane(l, v), NEW tokens, NEW m, m = IncrementPeriod(l, v, tokens)
    PROVE  /\ m = [rewards |-> m.rewards, start |-> m.start, pool |-> m.pool,
                   balance |-> m.balance]
           /\ m.rewards = [u \in DOMAIN l.rewards |-> m.rewards[u]]
<1> DEFINE s == EndPeriod(l.rewards[v], tokens)
           x == Unclaimed(l.rewards[v], tokens)
<1>1. m = [l EXCEPT !.rewards[v] = s, !.pool = @ + x]
  BY DEF IncrementPeriod
<1> HIDE DEF s, x
<1>2. m = [rewards |-> [l.rewards EXCEPT ![v] = s], start |-> l.start,
           pool |-> l.pool + x, balance |-> l.balance]
  BY <1>1 DEF Sane
<1>3. m = [rewards |-> m.rewards, start |-> m.start, pool |-> m.pool, balance |-> m.balance]
  BY <1>2
<1>4. m.rewards = [u \in DOMAIN l.rewards |-> m.rewards[u]]
  BY <1>2 DEF Sane
<1> QED
  BY <1>3, <1>4

LEMMA StopWrites ==
    ASSUME NEW l, NEW v, Sane(l, v), NEW d, NEW tokens, NEW h, NEW stake,
           NEW m, m = WithdrawRewards(l, d, v, tokens, h, stake)
    PROVE  /\ m.rewards[v] = PaidFrom(l.rewards[v], l.start[<<d, v>>], tokens, h, stake)
           /\ m.start = Drop(l.start, <<d, v>>)
<1> DEFINE n == IncrementPeriod(l, v, tokens)
           info == l.start[<<d, v>>]
           ended == l.rewards[v].period
           reward == Payable(n.rewards[v], DelegationRewards(n.rewards[v], info, h, ended, stake))
           s == PaidOut(n.rewards[v], info.period, reward)
           x == Truncate(reward)
           y == reward - Truncate(reward)
<1>1. m = [n EXCEPT !.balance = @ - x, !.pool = @ + y, !.rewards[v] = s,
                    !.start = Drop(@, <<d, v>>)]
  BY DEF WithdrawRewards
<1>2. /\ n.rewards[v] = EndPeriod(l.rewards[v], tokens) /\ n.start = l.start
      /\ n = [rewards |-> n.rewards, start |-> n.start, pool |-> n.pool, balance |-> n.balance]
      /\ n.rewards = [u \in DOMAIN l.rewards |-> n.rewards[u]] /\ v \in DOMAIN l.rewards
  <2>1. v \in DOMAIN l.rewards
    BY DEF Sane
  <2> HIDE DEF n
  <2> QED
    BY <2>1, PeriodWrites, PeriodShape DEF n
<1>3. s = PaidFrom(l.rewards[v], info, tokens, h, stake)
  <2> DEFINE e == EndPeriod(l.rewards[v], tokens)
  <2>1. n.rewards[v] = e
    BY <1>2
  <2> HIDE DEF e, n
  <2>2. s = PaidOut(e, info.period, Payable(e, DelegationRewards(e, info, h, ended, stake)))
    BY <2>1
  <2> QED
    BY <2>2 DEF PaidFrom, e
<1> HIDE DEF n, s, x, y, reward
<1>4. m = [rewards |-> [n.rewards EXCEPT ![v] = s], start |-> Drop(n.start, <<d, v>>),
           pool |-> n.pool + y, balance |-> n.balance - x]
  BY <1>1, <1>2
<1>5. m.rewards[v] = s /\ m.start = Drop(n.start, <<d, v>>)
  BY <1>2, <1>4
<1> QED
  BY <1>2, <1>3, <1>5

LEMMA PeriodServed ==
    ASSUME NEW l, NEW v, Sane(l, v), NEW live, NEW f, NEW t, NEW n, NEW h,
           Served(l, live, v, f, t, n, h), NEW m, m = IncrementPeriod(l, v, t)
    PROVE  /\ MayIncrementPeriod(l, v) /\ Served(m, live, v, f, t, n, h) /\ Idle(m, live, v)
           /\ m.start = l.start
<1> DEFINE r == l.rewards[v]
           infos == Infos(l, live, v)
<1>1. m.rewards[v] = EndPeriod(r, t) /\ m.start = l.start
  <2>1. m.rewards[v] = EndPeriod(l.rewards[v], t) /\ m.start = l.start
    BY PeriodWrites
  <2> QED
    BY <2>1
<1>2. Serves(r, infos, f, t, n, h)
  BY DEF Served
<1>3. Infos(m, live, v) = infos
  BY <1>1 DEF Infos
<1> HIDE DEF r, infos
<1>4. /\ Serves(m.rewards[v], infos, f, t, n, h) /\ Untouched(m.rewards[v], Periods(infos))
      /\ MayDecrementRef(r, r.period - 1)
  BY <1>1, <1>2, ServesEnded
<1> QED
  BY <1>1, <1>3, <1>4 DEF Served, Idle, MayIncrementPeriod, r

LEMMA StartServed ==
    ASSUME NEW l, NEW v, Sane(l, v), NEW live, live \subseteq DOMAIN l.start,
           NEW f, NEW t, NEW n, NEW h, Served(l, live, v, f, t, n, h), Idle(l, live, v),
           NEW d \in Accounts, <<d, v>> \notin live,
           NEW stake \in Nat, stake <= WorthOf(f, t, n)[d],
           NEW m, m = InitializeDelegation(l, d, v, stake, h)
    PROVE  Served(m, live \union {<<d, v>>}, v, f, t, n, h)
<1> DEFINE r == l.rewards[v]
           infos == Infos(l, live, v)
           info == [period |-> r.period - 1, stake |-> stake, height |-> h]
           others == Infos(m, live \union {<<d, v>>}, v)
<1>1. m.rewards[v] = IncrementRef(r, r.period - 1) /\ m.start = Put(l.start, <<d, v>>, info)
  BY StartWrites
<1>2. Serves(r, infos, f, t, n, h) /\ Untouched(r, Periods(infos))
  BY DEF Served, Idle
<1>3. others = Put(infos, d, info)
  <2> HIDE DEF info
  <2> QED
    BY <1>1, InfosStarted
<1>4. d \in Accounts \ DOMAIN infos
  BY DEF Infos
<1>5. info = [period |-> r.period - 1, stake |-> stake, height |-> h]
  OBVIOUS
<1> HIDE DEF r, infos, info, others
<1>6. Serves(m.rewards[v], others, f, t, n, h)
  BY <1>1, <1>2, <1>3, <1>4, <1>5, ServesStarted
<1> QED
  BY <1>6 DEF Served, others

LEMMA StopServed ==
    ASSUME NEW l, NEW v, Sane(l, v), NEW live, live \subseteq DOMAIN l.start,
           NEW f, NEW t, NEW n, NEW h, Served(l, live, v, f, t, n, h),
           NEW d \in Accounts, <<d, v>> \in live, NEW stake, stake = WorthOf(f, t, n)[d],
           NEW m, m = WithdrawRewards(l, d, v, t, h, stake)
    PROVE  /\ MayWithdraw(l, d, v, t, h, stake)
           /\ Served(m, live \ {<<d, v>>}, v, f, t, n, h) /\ Idle(m, live \ {<<d, v>>}, v)
           /\ m.start = Drop(l.start, <<d, v>>)
<1> DEFINE r == l.rewards[v]
           infos == Infos(l, live, v)
           info == l.start[<<d, v>>]
           others == Infos(m, live \ {<<d, v>>}, v)
           s == EndPeriod(r, t)
           raw == DelegationRewards(s, infos[d], h, r.period, WorthOf(f, t, n)[d])
<1>1. m.rewards[v] = PaidFrom(r, info, t, h, stake) /\ m.start = Drop(l.start, <<d, v>>)
  BY StopWrites
<1>2. Serves(r, infos, f, t, n, h)
  BY DEF Served
<1>3. others = Drop(infos, d)
  BY <1>1, InfosStopped
<1>4. d \in DOMAIN infos /\ infos[d] = info
  BY DEF Infos
<1>5. m.rewards[v] = PaidOut(s, infos[d].period, Payable(s, raw))
  BY <1>1, <1>4 DEF PaidFrom
<1>6. s = EndPeriod(r, t) /\ raw = DelegationRewards(s, infos[d], h, r.period, WorthOf(f, t, n)[d])
  OBVIOUS
<1> HIDE DEF r, infos, info, others, s, raw
<1>7. /\ Serves(m.rewards[v], others, f, t, n, h) /\ Untouched(m.rewards[v], Periods(others))
      /\ infos[d].period <= r.period
      /\ Accrued(s, infos[d], h, r.period).stake <= WorthOf(f, t, n)[d] + RoundingMargin
      /\ \A p, q \in {infos[d].period, r.period} \union {e.period : e \in s.slashes} :
           infos[d].period <= p /\ p <= q /\ q <= r.period
               => Record(s, p).ratio <= Record(s, q).ratio
      /\ MayDecrementRef(s, infos[d].period)
  BY <1>2, <1>3, <1>4, <1>5, <1>6, ServesPaid
<1>8. MayDecrementRef(r, r.period - 1)
  BY <1>2, <1>6, ServesEnded
<1>9. IncrementPeriod(l, v, t).rewards[v] = s
  <2> DEFINE w == IncrementPeriod(l, v, t)
  <2>1. w = IncrementPeriod(l, v, t)
    OBVIOUS
  <2> HIDE DEF w
  <2>2. w.rewards[v] = EndPeriod(l.rewards[v], t)
    BY <2>1, PeriodWrites
  <2> QED
    BY <1>6, <2>2 DEF r, w
<1>10. MayWithdraw(l, d, v, t, h, stake)
  <2> DEFINE next == IncrementPeriod(l, v, t).rewards[v]
  <2>1. next = s
    BY <1>9
  <2>2. MayIncrementPeriod(l, v)
    BY <1>8 DEF MayIncrementPeriod, r
  <2> HIDE DEF next
  <2>3. /\ info.height # h =>
              /\ info.period <= r.period
              /\ Accrued(next, info, h, r.period).stake <= stake + RoundingMargin
              /\ \A p, q \in {info.period, r.period} \union {e.period : e \in next.slashes} :
                    info.period <= p /\ p <= q /\ q <= r.period
                        => Record(next, p).ratio <= Record(next, q).ratio
        /\ MayDecrementRef(next, info.period)
    BY <1>4, <1>7, <2>1
  <2> QED
    BY <2>2, <2>3 DEF MayWithdraw, next, info, r
<1> QED
  BY <1>1, <1>7, <1>10 DEF Served, Idle, others

\* The shares change hands: every stake that counts is worth as much or more.
LEMMA ReshareServed ==
    ASSUME NEW l, NEW v, NEW live, NEW f, NEW t, NEW n, NEW h,
           Served(l, live, v, f, t, n, h), Idle(l, live, v),
           NEW g, NEW u, NEW m, Issued(g, u, m), NEW i \in Nat, h <= i,
           \A a \in Accounts : <<a, v>> \in live => Worth(f[a], t, n) <= Worth(g[a], u, m)
    PROVE  Served(l, live, v, g, u, m, i)
<1> DEFINE r == l.rewards[v]
           infos == Infos(l, live, v)
<1>1. Serves(r, infos, f, t, n, h)
  BY DEF Served
<1>2. \A a \in DOMAIN infos : Worth(f[a], t, n) <= Worth(g[a], u, m)
  <2>1. DOMAIN infos = {a \in Accounts : <<a, v>> \in live}
    BY DEF Infos
  <2> HIDE DEF infos
  <2> QED
    BY <2>1
<1> HIDE DEF infos, r
<1>3. /\ RewardsOK(r) /\ Sound(Accounts, r, infos, WorthOf(f, t, n), h)
      /\ r.outstanding \in Int /\ r.commission \in Int /\ r.current \in Int
  BY <1>1, ServesFacts
<1>4. r.commission >= 0 /\ r.current >= 0 /\ Margin(r) >= Margin(r)
  BY <1>3 DEF Sound, Margin
<1>5. Serves(r, infos, g, u, m, i)
  BY <1>1, <1>2, <1>3, <1>4, ServesKept
<1> QED
  BY <1>5 DEF Served, r, infos

\* A later block.
LEMMA LaterServed ==
    ASSUME NEW l, NEW v, NEW live, NEW f, NEW t, NEW n, NEW h,
           Served(l, live, v, f, t, n, h), NEW i \in Nat, h <= i
    PROVE  Served(l, live, v, f, t, n, i)
<1> DEFINE r == l.rewards[v]
           infos == Infos(l, live, v)
<1>1. Serves(r, infos, f, t, n, h)
  BY DEF Served
<1>2. Issued(f, t, n)
  BY DEF Served, Serves
<1> HIDE DEF infos, r
<1>3. /\ RewardsOK(r) /\ Sound(Accounts, r, infos, WorthOf(f, t, n), h)
      /\ r.outstanding \in Int /\ r.commission \in Int /\ r.current \in Int
      /\ DOMAIN infos \subseteq Accounts
  BY <1>1, ServesFacts
<1>4. r.commission >= 0 /\ r.current >= 0 /\ Margin(r) >= Margin(r)
  BY <1>3 DEF Sound, Margin
<1>5. \A a \in Accounts : Worth(f[a], t, n) \in Nat
  BY <1>2, IssuedTypes
<1>6. \A a \in DOMAIN infos : Worth(f[a], t, n) <= Worth(f[a], t, n)
  BY <1>3, <1>5
<1>7. Serves(r, infos, f, t, n, i)
  BY <1>1, <1>2, <1>3, <1>4, <1>6, ServesKept
<1> QED
  BY <1>7 DEF Served, r, infos

----------------------------------------------------------------------------
\* Arithmetic of shares.

LEMMA IssueArithmetic ==
    ASSUME NEW t \in Nat \ {0}, NEW n \in Nat, NEW k \in Nat, NEW i, i = (n * k) \div t
    PROVE  i \in Nat /\ (n + i) * t <= n * (t + k)
<1> DEFINE a == n * k
<1>1. a \in Nat
  BY ProductType
<1> HIDE DEF a
<1>2. i \in Int /\ t * i <= a /\ i >= 0
  BY <1>1, Quotient DEF a
<1>3. (n + i) * t = n * t + t * i /\ n * (t + k) = n * t + a /\ n * t \in Int /\ t * i \in Int
  BY <1>2 DEF a
<1> QED
  BY <1>1, <1>2, <1>3

LEMMA RemoveArithmetic ==
    ASSUME NEW t \in Nat, NEW n \in Nat \ {0}, NEW x \in Nat, x <= n,
           NEW i, i = (x * t) \div n
    PROVE  i \in Nat /\ i <= t /\ (n - x) * t <= n * (t - i)
<1> DEFINE a == x * t
<1>1. a \in Nat
  BY ProductType
<1>2. a <= n * t
  BY Grows
<1> HIDE DEF a
<1>3. i \in Int /\ n * i <= a /\ i >= 0
  BY <1>1, Quotient DEF a
<1>4. /\ (n - x) * t = n * t - a /\ n * (t - i) = n * t - n * i
      /\ n * t \in Int /\ n * i \in Int
  BY <1>3 DEF a
<1>5. n * i <= n * t
  BY <1>1, <1>2, <1>3, <1>4
<1>6. i <= t
  BY <1>3, <1>5, Cancels
<1> QED
  BY <1>1, <1>3, <1>4, <1>6

----------------------------------------------------------------------------
\* The calls of staking on the only validator, v.

Serving(s, v, h) ==
    /\ Lone(s, v)
    /\ Served(s.ledger, DOMAIN s.delegation, v, SharesTo(s.delegation, v),
              s.validator[v].tokens, s.validator[v].shares, h)

LEMMA ServingTypes ==
    ASSUME NEW s, NEW v, NEW h, Serving(s, v, h), NEW f, f = SharesTo(s.delegation, v),
           NEW t, t = s.validator[v].tokens, NEW n, n = s.validator[v].shares
    PROVE  /\ Lone(s, v) /\ Sane(s.ledger, v)
           /\ Issued(f, t, n) /\ h \in Nat
           /\ Served(s.ledger, DOMAIN s.delegation, v, f, t, n, h)
           /\ DOMAIN s.ledger.start = DOMAIN s.delegation
           /\ \A d \in Accounts : <<d, v>> \in DOMAIN s.delegation =>
                /\ f[d] = s.delegation[<<d, v>>]
                /\ StakeOf(s, d, v) = WorthOf(f, t, n)[d]
                /\ StakeOf(s, d, v) \in Nat
<1>1. Lone(s, v) /\ Served(s.ledger, DOMAIN s.delegation, v, f, t, n, h)
  BY DEF Serving
<1>2. Issued(f, t, n) /\ h \in Nat
  BY <1>1 DEF Served, Serves
<1>3. Sane(s.ledger, v) /\ DOMAIN s.ledger.start = DOMAIN s.delegation
  BY <1>1 DEF Lone
<1>4. ASSUME NEW d \in Accounts, <<d, v>> \in DOMAIN s.delegation
      PROVE  /\ f[d] = s.delegation[<<d, v>>]
             /\ StakeOf(s, d, v) = WorthOf(f, t, n)[d]
             /\ StakeOf(s, d, v) \in Nat
  <2>1. f[d] = s.delegation[<<d, v>>]
    BY <1>4 DEF SharesTo
  <2>2. StakeOf(s, d, v) = Worth(f[d], t, n)
    BY <2>1, StakeIsWorth DEF StakeOf
  <2>3. WorthOf(f, t, n)[d] = Worth(f[d], t, n) /\ WorthOf(f, t, n)[d] \in Nat
    BY <1>2, IssuedTypes
  <2> QED
    BY <2>1, <2>2, <2>3
<1> QED
  BY <1>1, <1>2, <1>3, <1>4

\* The hooks before a delegation never panic.
LEMMA HookedServed ==
    ASSUME NEW s, NEW v, NEW h, Serving(s, v, h), NEW d \in Accounts,
           NEW f, f = SharesTo(s.delegation, v),
           NEW t, t = s.validator[v].tokens, NEW n, n = s.validator[v].shares,
           NEW m, m = Hooked(s, d, v, h), NEW rest, rest = DOMAIN s.delegation \ {<<d, v>>}
    PROVE  /\ Hookable(s, d, v, h)
           /\ Sane(m, v) /\ DOMAIN m.start = rest
           /\ Served(m, rest, v, f, t, n, h) /\ Idle(m, rest, v)
<1> DEFINE l == s.ledger
           live == DOMAIN s.delegation
<1>1. /\ Lone(s, v) /\ Sane(l, v) /\ Served(l, live, v, f, t, n, h)
      /\ DOMAIN l.start = live
  BY ServingTypes
<1>2. ASSUME <<d, v>> \in live
      PROVE  Hookable(s, d, v, h) /\ Served(m, rest, v, f, t, n, h) /\ Idle(m, rest, v)
  <2> DEFINE stake == StakeOf(s, d, v)
  <2>1. stake = WorthOf(f, t, n)[d]
    BY <1>2, ServingTypes
  <2>2. m = WithdrawRewards(l, d, v, t, h, stake)
    BY <1>2 DEF Hooked, Withdrawn
  <2>3. Hookable(s, d, v, h) <=> MayWithdraw(l, d, v, t, h, stake)
    BY <1>2 DEF Hookable
  <2> HIDE DEF l, live, stake
  <2>4. live \subseteq DOMAIN l.start
    BY <1>1
  <2>5. rest = live \ {<<d, v>>}
    BY DEF live
  <2>6. /\ MayWithdraw(l, d, v, t, h, stake)
        /\ Served(m, live \ {<<d, v>>}, v, f, t, n, h) /\ Idle(m, live \ {<<d, v>>}, v)
    <3>1. Sane(l, v) /\ Served(l, live, v, f, t, n, h) /\ <<d, v>> \in live
      BY <1>1, <1>2
    <3>2. \A w : w = WorthOf(f, t, n)[d] =>
            /\ MayWithdraw(l, d, v, t, h, w)
            /\ Served(WithdrawRewards(l, d, v, t, h, w), live \ {<<d, v>>}, v, f, t, n, h)
            /\ Idle(WithdrawRewards(l, d, v, t, h, w), live \ {<<d, v>>}, v)
      BY <2>4, <3>1, StopServed
    <3> QED
      BY <2>1, <2>2, <3>2
  <2> QED
    BY <2>3, <2>5, <2>6
<1>3. ASSUME <<d, v>> \notin live
      PROVE  Hookable(s, d, v, h) /\ Served(m, rest, v, f, t, n, h) /\ Idle(m, rest, v)
  <2>1. m = IncrementPeriod(l, v, t)
    BY <1>3 DEF Hooked
  <2>2. Hookable(s, d, v, h) <=> MayIncrementPeriod(l, v)
    BY <1>3 DEF Hookable
  <2>3. rest = live
    BY <1>3
  <2> HIDE DEF l, live
  <2>4. MayIncrementPeriod(l, v) /\ Served(m, live, v, f, t, n, h) /\ Idle(m, live, v)
    BY <1>1, <2>1, PeriodServed
  <2> QED
    BY <2>2, <2>3, <2>4
<1>4. Hookable(s, d, v, h)
  BY <1>2, <1>3
<1>5. Sane(m, v) /\ DOMAIN m.start = rest
  BY <1>1, <1>4, HookedEven
<1> QED
  BY <1>2, <1>3, <1>5

\* Whom the shares of a delegation change, and whom not.
Gives(f, g, d, x) == \A a \in Accounts : g[a] = IF a = d THEN x ELSE f[a]

LEMMA GivesIssued ==
    ASSUME NEW f, NEW t, NEW n, Issued(f, t, n), NEW g, NEW d \in Accounts, NEW x \in Nat,
           Gives(f, g, d, x), g = [a \in Accounts |-> g[a]],
           NEW u \in Nat, NEW m \in Nat, m = n + (x - f[d])
    PROVE  Issued(g, u, m)
<1>1. /\ f \in [Accounts -> Nat] /\ IsFiniteSet(Accounts) /\ n \in Nat
      /\ Sum(f, Accounts) + InitialShares = n /\ Sum(f, Accounts) \in Nat
  BY IssuedTypes DEF Issued
<1>2. \A a \in Accounts : g[a] \in Nat /\ (a # d => g[a] = f[a])
  BY <1>1 DEF Gives
<1>3. g[d] = x
  BY DEF Gives
<1>4. Sum(g, Accounts) = Sum(f, Accounts) + (g[d] - f[d])
  <2>1. \A a \in Accounts : f[a] \in Int
    BY <1>1
  <2>2. g[d] \in Int /\ \A a \in Accounts \ {d} : g[a] = f[a]
    BY <1>2
  <2> QED
    BY <1>1, <2>1, <2>2, SumChange
<1>5. g \in [Accounts -> Nat]
  BY <1>2
<1>6. InitialShares \in Nat
  BY TestnetAssumption
<1>7. Sum(g, Accounts) + InitialShares = m
  <2> DEFINE a == Sum(f, Accounts)
             b == Sum(g, Accounts)
             c == f[d]
  <2>1. a \in Nat /\ a + InitialShares = n /\ b = a + (x - c) /\ c \in Nat
    BY <1>1, <1>3, <1>4
  <2> HIDE DEF a, b, c
  <2>2. b + InitialShares = n + (x - c)
    BY <1>1, <1>6, <2>1
  <2> QED
    BY <2>2 DEF b, c
<1> QED
  BY <1>5, <1>7 DEF Issued

LEMMA PutGives ==
    ASSUME NEW f, NEW d \in Accounts, NEW v, NEW x,
           NEW g, g = SharesTo(Put(f, <<d, v>>, x), v)
    PROVE  Gives(SharesTo(f, v), g, d, x) /\ g = [a \in Accounts |-> g[a]]
<1>1. g = [a \in Accounts |-> g[a]]
  BY DEF SharesTo
<1>2. ASSUME NEW a \in Accounts
      PROVE  g[a] = IF a = d THEN x ELSE SharesTo(f, v)[a]
  <2>1. CASE a = d
    BY <2>1 DEF SharesTo, Put
  <2>2. CASE a # d
    <3>1. <<a, v>> # <<d, v>>
      BY <2>2
    <3> QED
      BY <2>2, <3>1 DEF SharesTo, Put
  <2> QED
    BY <2>1, <2>2
<1> QED
  BY <1>1, <1>2 DEF Gives

LEMMA DropGives ==
    ASSUME NEW f, NEW d \in Accounts, NEW v,
           NEW g, g = SharesTo(Drop(f, <<d, v>>), v)
    PROVE  Gives(SharesTo(f, v), g, d, 0) /\ g = [a \in Accounts |-> g[a]]
<1>1. g = [a \in Accounts |-> g[a]]
  BY DEF SharesTo
<1>2. ASSUME NEW a \in Accounts
      PROVE  g[a] = IF a = d THEN 0 ELSE SharesTo(f, v)[a]
  <2>1. CASE a = d
    BY <2>1 DEF SharesTo, Drop
  <2>2. CASE a # d
    <3>1. <<a, v>> # <<d, v>>
      BY <2>2
    <3> QED
      BY <2>2, <3>1 DEF SharesTo, Drop
  <2> QED
    BY <2>1, <2>2
<1> QED
  BY <1>1, <1>2 DEF Gives

\* Everyone but d keeps as much, and d starts anew with no more than its shares
\* are worth.
LEMMA RestartServed ==
    ASSUME NEW l, NEW v, Sane(l, v), NEW live, DOMAIN l.start = live,
           NEW f, NEW t \in Nat, NEW n \in Nat, NEW h \in Nat,
           Served(l, live, v, f, t, n, h), Idle(l, live, v),
           NEW d \in Accounts, <<d, v>> \notin live,
           NEW g, NEW u \in Nat, NEW m \in Nat \ {0}, Issued(g, u, m),
           \A a \in Accounts : a # d => g[a] = f[a], m * t <= n * u
    PROVE  /\ Served(l, live, v, g, u, m, h)
           /\ \A stake \in Nat : \A w :
                stake <= WorthOf(g, u, m)[d] /\ w = InitializeDelegation(l, d, v, stake, h)
                    => Served(w, live \union {<<d, v>>}, v, g, u, m, h)
<1>1. Issued(f, t, n)
  BY DEF Served, Serves
<1>2. \A a \in Accounts : f[a] \in Nat
  BY <1>1, IssuedTypes
<1>3. \A a \in Accounts : <<a, v>> \in live => Worth(f[a], t, n) <= Worth(g[a], u, m)
  <2> SUFFICES ASSUME NEW a \in Accounts, <<a, v>> \in live
               PROVE  Worth(f[a], t, n) <= Worth(g[a], u, m)
    OBVIOUS
  <2>1. a # d /\ g[a] = f[a] /\ f[a] \in Nat
    BY <1>2
  <2>2. Worth(f[a], t, n) <= Worth(f[a], u, m)
    BY <2>1, WorthGrows
  <2> QED
    BY <2>1, <2>2
<1>4. h <= h
  OBVIOUS
<1>5. Served(l, live, v, g, u, m, h)
  BY <1>3, <1>4, ReshareServed
<1>6. live \subseteq DOMAIN l.start
  OBVIOUS
<1>7. ASSUME NEW stake \in Nat, NEW w, stake <= WorthOf(g, u, m)[d],
             w = InitializeDelegation(l, d, v, stake, h)
      PROVE  Served(w, live \union {<<d, v>>}, v, g, u, m, h)
  BY <1>5, <1>6, <1>7, StartServed
<1> QED
  BY <1>5, <1>7

LEMMA DelegatedParts ==
    ASSUME NEW s, NEW v, Lone(s, v), NEW d \in Accounts, NEW k, NEW h,
           NEW u, u = Delegated(s, d, v, k, h)
    PROVE  /\ u.delegation = Put(s.delegation, <<d, v>>,
                                 SharesFromTokens(s, v, k) + SharesTo(s.delegation, v)[d])
           /\ u.ledger = InitializeDelegation(Hooked(s, d, v, h), d, v, StakeOf(u, d, v), h)
<1> DEFINE key == <<d, v>>
           issued == SharesFromTokens(s, v, k)
           more == issued + IF key \in DOMAIN s.delegation THEN s.delegation[key] ELSE 0
           val == AddTokens(s.validator[v], k, issued)
           hooked == Hooked(s, d, v, h)
           t == [s EXCEPT !.validator[v] = val, !.delegation = Put(@, key, more),
                          !.bondedPool = @ + IfBonded(s, v, k)]
           m == InitializeDelegation(hooked, d, v, StakeOf(t, d, v), h)
<1>1. u = [t EXCEPT !.ledger = m]
  BY DEF Delegated, Hooked
<1>2. more = issued + SharesTo(s.delegation, v)[d]
  BY DEF SharesTo
<1> HIDE DEF hooked, m, more, val, issued
<1>3. /\ t.validator = [s.validator EXCEPT ![v] = val]
      /\ t.delegation = Put(s.delegation, key, more)
  BY DEF Lone
<1>4. u = [validator |-> [s.validator EXCEPT ![v] = val],
           delegation |-> Put(s.delegation, key, more),
           powerIndex |-> s.powerIndex, bondedPool |-> s.bondedPool + IfBonded(s, v, k),
           ledger |-> m]
  BY <1>1 DEF Lone
<1>5. /\ u.validator = [s.validator EXCEPT ![v] = val]
      /\ u.delegation = Put(s.delegation, key, more) /\ u.ledger = m
  BY <1>4
<1>6. StakeOf(t, d, v) = StakeOf(u, d, v)
  <2>1. t.validator = u.validator /\ t.delegation = u.delegation
    BY <1>3, <1>5
  <2> HIDE DEF t
  <2> QED
    BY <2>1 DEF StakeOf, Stake
<1>7. m = InitializeDelegation(hooked, d, v, StakeOf(u, d, v), h)
  BY <1>6 DEF m
<1> QED
  BY <1>2, <1>5, <1>7 DEF hooked, issued, val

LEMMA DelegatedServing ==
    ASSUME NEW s, NEW v, NEW h, Serving(s, v, h), NEW d \in Accounts, NEW k \in Nat,
           s.validator[v].tokens > 0 \/ s.validator[v].shares = 0,
           NEW u, u = Delegated(s, d, v, k, h)
    PROVE  Serving(u, v, h)
<1> DEFINE f == SharesTo(s.delegation, v)
           t == s.validator[v].tokens
           n == s.validator[v].shares
           i == SharesFromTokens(s, v, k)
           x == i + f[d]
           g == SharesTo(u.delegation, v)
           key == <<d, v>>
           rest == DOMAIN s.delegation \ {key}
           hooked == Hooked(s, d, v, h)
           stake == StakeOf(u, d, v)
<1>1. Lone(s, v) /\ Issued(f, t, n) /\ h \in Nat
  BY ServingTypes
<1>2. t \in Nat \ {0} /\ n \in Nat \ {0} /\ f[d] \in Nat
  <2>1. t \in Nat /\ n \in Nat \ {0} /\ f[d] \in Nat
    <3> HIDE DEF f, t, n
    <3> QED
      BY <1>1, IssuedTypes
  <2> QED
    BY <2>1
<1>3. i \in Nat /\ (n + i) * t <= n * (t + k)
  <2>1. i = (n * k) \div t
    BY <1>2 DEF SharesFromTokens
  <2> HIDE DEF i, t, n
  <2> QED
    BY <1>2, <2>1, IssueArithmetic
<1>4. /\ Hookable(s, d, v, h) /\ Sane(hooked, v) /\ DOMAIN hooked.start = rest
      /\ Served(hooked, rest, v, f, t, n, h) /\ Idle(hooked, rest, v)
  BY HookedServed
<1>5. Lone(u, v) /\ u.validator[v] = AddTokens(s.validator[v], k, i)
  <2>1. s.validator[v].tokens > 0 \/ s.validator[v].shares = 0
    OBVIOUS
  <2> HIDE DEF i
  <2> QED
    BY <1>1, <1>4, <2>1, DelegatedLone DEF i
<1>6. u.validator[v].tokens = t + k /\ u.validator[v].shares = n + i
  <2>1. s.validator[v] \in Validator
    BY <1>1, LoneTypes
  <2> QED
    BY <1>5, <2>1 DEF AddTokens, Validator
<1>7. /\ u.delegation = Put(s.delegation, key, x)
      /\ u.ledger = InitializeDelegation(hooked, d, v, stake, h)
  <2>1. /\ u.delegation = Put(s.delegation, <<d, v>>,
                              SharesFromTokens(s, v, k) + SharesTo(s.delegation, v)[d])
        /\ u.ledger = InitializeDelegation(Hooked(s, d, v, h), d, v, StakeOf(u, d, v), h)
    BY <1>1, DelegatedParts
  <2> QED
    BY <2>1
<1>8. Gives(f, g, d, x) /\ g = [a \in Accounts |-> g[a]]
  <2>1. g = SharesTo(Put(s.delegation, key, x), v)
    BY <1>7
  <2> HIDE DEF g, x
  <2> QED
    BY <2>1, PutGives
<1>9. DOMAIN u.delegation = rest \union {key} /\ key \notin rest /\ u.delegation[key] = x
  BY <1>7 DEF Put
<1> HIDE DEF f, t, n, i, g, rest, hooked, stake
<1>10. x \in Nat /\ t + k \in Nat /\ n + i \in Nat \ {0} /\ n + i = n + (x - f[d])
  BY <1>2, <1>3
<1>11. Issued(g, t + k, n + i)
  <2> HIDE DEF x
  <2> QED
    BY <1>1, <1>8, <1>10, GivesIssued
<1>12. g[d] = x /\ \A a \in Accounts : a # d => g[a] = f[a]
  BY <1>8 DEF Gives
<1>13. stake = WorthOf(g, t + k, n + i)[d] /\ stake \in Nat
  <2>1. stake = Worth(g[d], t + k, n + i)
    BY <1>6, <1>9, <1>12, StakeIsWorth DEF StakeOf, stake
  <2>2. WorthOf(g, t + k, n + i)[d] = Worth(g[d], t + k, n + i)
        /\ WorthOf(g, t + k, n + i)[d] \in Nat
    BY <1>11, IssuedTypes
  <2> QED
    BY <2>1, <2>2
<1>14. Served(u.ledger, rest \union {key}, v, g, t + k, n + i, h)
  <2> DEFINE tt == t + k
             nn == n + i
  <2>1. /\ t \in Nat /\ n \in Nat /\ tt \in Nat /\ nn \in Nat \ {0}
        /\ nn * t <= n * tt /\ Issued(g, tt, nn) /\ stake <= WorthOf(g, tt, nn)[d]
    BY <1>2, <1>3, <1>10, <1>11, <1>13
  <2> HIDE DEF tt, nn, x
  <2>2. \A st \in Nat : \A w :
            st <= WorthOf(g, tt, nn)[d] /\ w = InitializeDelegation(hooked, d, v, st, h)
                => Served(w, rest \union {key}, v, g, tt, nn, h)
    BY <1>1, <1>4, <1>9, <1>12, <2>1, RestartServed
  <2>3. Served(u.ledger, rest \union {key}, v, g, tt, nn, h)
    BY <1>7, <1>13, <2>1, <2>2
  <2> QED
    BY <2>3 DEF tt, nn
<1> QED
  BY <1>5, <1>6, <1>9, <1>14 DEF Serving, g

LEMMA AgainServed ==
    ASSUME NEW s, NEW v, NEW h, Serving(s, v, h), NEW d \in Accounts,
           <<d, v>> \in DOMAIN s.delegation,
           NEW f, f = SharesTo(s.delegation, v),
           NEW t, t = s.validator[v].tokens, NEW n, n = s.validator[v].shares,
           NEW m, m = InitializeDelegation(Withdrawn(s, d, v, h), d, v, StakeOf(s, d, v), h)
    PROVE  Served(m, DOMAIN s.delegation, v, f, t, n, h)
<1> DEFINE key == <<d, v>>
           rest == DOMAIN s.delegation \ {key}
           hooked == Hooked(s, d, v, h)
           stake == StakeOf(s, d, v)
<1>1. /\ Sane(hooked, v) /\ DOMAIN hooked.start = rest
      /\ Served(hooked, rest, v, f, t, n, h) /\ Idle(hooked, rest, v)
  BY HookedServed
<1>2. m = InitializeDelegation(hooked, d, v, stake, h)
  BY DEF Hooked
<1>3. stake = WorthOf(f, t, n)[d] /\ stake \in Nat
  BY ServingTypes
<1>4. rest \union {key} = DOMAIN s.delegation /\ key \notin rest
  OBVIOUS
<1> HIDE DEF rest, hooked, stake
<1>5. rest \subseteq DOMAIN hooked.start /\ stake <= WorthOf(f, t, n)[d]
  BY <1>1, <1>3
<1>6. Served(m, rest \union {key}, v, f, t, n, h)
  BY <1>1, <1>2, <1>3, <1>4, <1>5, StartServed
<1> QED
  BY <1>4, <1>6

LEMMA UnbondedParts ==
    ASSUME NEW s, NEW v, NEW d, NEW x, NEW h, <<d, v>> \in DOMAIN s.delegation,
           NEW left, left = s.delegation[<<d, v>>] - x,
           NEW u, u = Unbonded(s, d, v, x, h)
    PROVE  /\ u.delegation = IF left = 0 THEN Drop(s.delegation, <<d, v>>)
                             ELSE Put(s.delegation, <<d, v>>, left)
           /\ u.ledger = IF left = 0 THEN Hooked(s, d, v, h)
                         ELSE InitializeDelegation(Hooked(s, d, v, h), d, v,
                                                   Stake(s, v, left), h)
<1>1. Hooked(s, d, v, h) = Withdrawn(s, d, v, h)
  BY DEF Hooked
<1> DEFINE hooked == Withdrawn(s, d, v, h)
<1>2. /\ u.delegation = IF left = 0 THEN Drop(s.delegation, <<d, v>>)
                        ELSE Put(s.delegation, <<d, v>>, left)
      /\ u.ledger = IF left = 0 THEN hooked
                    ELSE InitializeDelegation(hooked, d, v, Stake(s, v, left), h)
  BY DEF Unbonded
<1> QED
  BY <1>1, <1>2

LEMMA UnbondedServing ==
    ASSUME NEW s, NEW v, NEW h, Serving(s, v, h), NEW d \in Accounts,
           <<d, v>> \in DOMAIN s.delegation,
           NEW x \in Nat, x <= s.delegation[<<d, v>>], x <= s.validator[v].shares,
           TokensRemoved(s, v, x) \in 1 .. s.validator[v].tokens,
           IfBonded(s, v, TokensRemoved(s, v, x)) <= s.bondedPool,
           NEW u, u = Unbonded(s, d, v, x, h)
    PROVE  Serving(u, v, h)
<1> DEFINE f == SharesTo(s.delegation, v)
           t == s.validator[v].tokens
           n == s.validator[v].shares
           i == TokensRemoved(s, v, x)
           g == SharesTo(u.delegation, v)
           key == <<d, v>>
           left == s.delegation[key] - x
           rest == DOMAIN s.delegation \ {key}
           hooked == Hooked(s, d, v, h)
           stake == Stake(s, v, left)
<1>1. /\ Lone(s, v) /\ Issued(f, t, n) /\ h \in Nat /\ f[d] = s.delegation[key]
  BY ServingTypes
<1>2. t \in Nat /\ n \in Nat \ {0} /\ f[d] \in Nat /\ f[d] < n
  <2> HIDE DEF f, t, n
  <2> QED
    BY <1>1, IssuedTypes
<1>3. left \in Nat /\ x < n /\ left = f[d] - x
  BY <1>1, <1>2
<1>4. i \in Nat /\ i <= t /\ (n - x) * t <= n * (t - i)
  <2>1. i = (x * t) \div n
    BY <1>3 DEF TokensRemoved
  <2>2. x <= n
    BY <1>2, <1>3
  <2> HIDE DEF i, t, n
  <2> QED
    BY <1>2, <2>1, <2>2, RemoveArithmetic
<1>5. /\ Hookable(s, d, v, h) /\ Sane(hooked, v) /\ DOMAIN hooked.start = rest
      /\ Served(hooked, rest, v, f, t, n, h) /\ Idle(hooked, rest, v)
  BY HookedServed
<1>6. Lone(u, v) /\ \E jail \in BOOLEAN : u.validator[v] = RemoveTokens(s.validator[v], i, x, jail)
  <2>1. /\ Lone(u, v)
        /\ \E jail \in BOOLEAN :
             /\ u.validator[v] = RemoveTokens(s.validator[v], TokensRemoved(s, v, x), x, jail)
             /\ u.powerIndex = IF jail THEN s.powerIndex \ {v} ELSE s.powerIndex
    BY <1>1, <1>5, UnbondedLone
  <2> QED
    BY <2>1
<1>7. u.validator[v].tokens = t - i /\ u.validator[v].shares = n - x
  <2>1. s.validator[v] \in Validator
    BY <1>1, LoneTypes
  <2> HIDE DEF i
  <2> QED
    BY <1>6, <2>1 DEF RemoveTokens, Validator
<1>8. /\ u.delegation = IF left = 0 THEN Drop(s.delegation, key) ELSE Put(s.delegation, key, left)
      /\ u.ledger = IF left = 0 THEN hooked ELSE InitializeDelegation(hooked, d, v, stake, h)
  <2> HIDE DEF stake, hooked
  <2> QED
    BY UnbondedParts DEF stake, hooked
<1>9. Gives(f, g, d, left) /\ g = [a \in Accounts |-> g[a]]
  <2>1. CASE left = 0
    <3>1. g = SharesTo(Drop(s.delegation, key), v)
      BY <1>8, <2>1
    <3> HIDE DEF g, left
    <3> QED
      BY <2>1, <3>1, DropGives
  <2>2. CASE left # 0
    <3>1. g = SharesTo(Put(s.delegation, key, left), v)
      BY <1>8, <2>2
    <3> HIDE DEF g, left
    <3> QED
      BY <3>1, PutGives
  <2> QED
    BY <2>1, <2>2
<1>10. /\ left = 0 => DOMAIN u.delegation = rest
       /\ left # 0 => DOMAIN u.delegation = rest \union {key}
  BY <1>8 DEF Put, Drop
<1>11. stake = Worth(left, t, n)
  BY StakeIsWorth
<1> HIDE DEF f, t, n, i, g, rest, hooked, stake, left
<1>12. key \notin rest
  BY DEF rest
<1>13. /\ t - i \in Nat /\ n - x \in Nat \ {0} /\ n - x = n + (left - f[d])
  BY <1>2, <1>3, <1>4
<1>14. Issued(g, t - i, n - x)
  <2> DEFINE u1 == t - i
             m1 == n - x
  <2>1. u1 \in Nat /\ m1 \in Nat /\ m1 = n + (left - f[d])
    BY <1>13
  <2> HIDE DEF u1, m1
  <2>2. Issued(g, u1, m1)
    BY <1>1, <1>3, <1>9, <2>1, GivesIssued
  <2> QED
    BY <2>2 DEF u1, m1
<1>15. g[d] = left /\ \A a \in Accounts : a # d => g[a] = f[a]
  BY <1>9 DEF Gives
<1>16. stake \in Nat /\ stake <= WorthOf(g, t - i, n - x)[d]
  <2> DEFINE u1 == t - i
             m1 == n - x
  <2>1. u1 \in Nat /\ m1 \in Nat \ {0} /\ m1 * t <= n * u1 /\ n \in Nat /\ t \in Nat
        /\ Issued(g, u1, m1)
    BY <1>2, <1>4, <1>13, <1>14
  <2> HIDE DEF u1, m1
  <2>2. Worth(left, t, n) <= Worth(left, u1, m1) /\ Worth(left, t, n) \in Nat
    BY <1>3, <2>1, WorthGrows, WorthLemma
  <2>3. WorthOf(g, u1, m1)[d] = Worth(g[d], u1, m1)
    BY <2>1, IssuedTypes
  <2> QED
    BY <1>11, <1>15, <2>2, <2>3 DEF u1, m1
<1>17. Served(u.ledger, DOMAIN u.delegation, v, g, t - i, n - x, h)
  <2> DEFINE u1 == t - i
             m1 == n - x
  <2>1. /\ t \in Nat /\ n \in Nat /\ u1 \in Nat /\ m1 \in Nat \ {0}
        /\ m1 * t <= n * u1 /\ Issued(g, u1, m1) /\ stake <= WorthOf(g, u1, m1)[d]
    BY <1>2, <1>4, <1>13, <1>14, <1>16
  <2> HIDE DEF u1, m1
  <2>2. /\ Served(hooked, rest, v, g, u1, m1, h)
        /\ \A st \in Nat : \A w :
            st <= WorthOf(g, u1, m1)[d] /\ w = InitializeDelegation(hooked, d, v, st, h)
                => Served(w, rest \union {key}, v, g, u1, m1, h)
    BY <1>1, <1>5, <1>12, <1>15, <2>1, RestartServed
  <2>3. CASE left = 0
    BY <1>8, <1>10, <2>2, <2>3 DEF u1, m1
  <2>4. CASE left # 0
    <3>1. Served(u.ledger, rest \union {key}, v, g, u1, m1, h)
      BY <1>8, <1>16, <2>1, <2>2, <2>4
    <3> QED
      BY <1>10, <2>4, <3>1 DEF u1, m1
  <2> QED
    BY <2>3, <2>4
<1> QED
  BY <1>6, <1>7, <1>17 DEF Serving, g

----------------------------------------------------------------------------
\* The calls of blocks and exports on the only validator's rewards.

\* The starting infos stay as they are.
LEMMA ServedBy ==
    ASSUME NEW l, NEW v, NEW live, NEW f, NEW t, NEW n, NEW h, NEW r, NEW m,
           m.start = l.start, m.rewards[v] = r, Serves(r, Infos(l, live, v), f, t, n, h)
    PROVE  Served(m, live, v, f, t, n, h)
<1>1. Infos(m, live, v) = Infos(l, live, v)
  BY DEF Infos
<1> QED
  BY <1>1 DEF Served

LEMMA AllocateServed ==
    ASSUME NEW l, NEW v, Sane(l, v), NEW live, NEW f, NEW t, NEW n, NEW h,
           Served(l, live, v, f, t, n, h), NEW c, NEW a \in Nat, NEW com \in 0 .. a,
           NEW m, m = AllocateTokens(l, v, c, a, com)
    PROVE  Served(m, live, v, f, t, n, h)
<1> DEFINE s == Earned(l.rewards[v], a, com)
           x == c * Precision
<1>1. m = [l EXCEPT !.balance = @ + x, !.pool = @ + (x - a), !.rewards[v] = s]
  BY DEF AllocateTokens
<1>2. Serves(s, Infos(l, live, v), f, t, n, h)
  <2>1. Serves(l.rewards[v], Infos(l, live, v), f, t, n, h)
    BY DEF Served
  <2> QED
    BY <2>1, ServesEarned
<1> HIDE DEF s, x
<1>3. m = [rewards |-> [l.rewards EXCEPT ![v] = s], start |-> l.start,
           pool |-> l.pool + (x - a), balance |-> l.balance + x]
  BY <1>1 DEF Sane
<1>4. m.rewards[v] = s /\ m.start = l.start
  BY <1>3 DEF Sane
<1> QED
  BY <1>2, <1>4, ServedBy

LEMMA CommissionServed ==
    ASSUME NEW l, NEW v, Sane(l, v), NEW live, NEW f, NEW t, NEW n, NEW h,
           Served(l, live, v, f, t, n, h), NEW m, m = WithdrawCommission(l, v)
    PROVE  Served(m, live, v, f, t, n, h) /\ MayWithdrawCommission(l, v)
<1> DEFINE s == WithoutCommission(l.rewards[v])
           x == CommissionCoins(l.rewards[v])
<1>1. m = [l EXCEPT !.balance = @ - x, !.rewards[v] = s]
  BY DEF WithdrawCommission
<1>2. Serves(s, Infos(l, live, v), f, t, n, h) /\ x <= l.rewards[v].outstanding
  <2>1. Serves(l.rewards[v], Infos(l, live, v), f, t, n, h)
    BY DEF Served
  <2> QED
    BY <2>1, ServesCommission
<1>3. MayWithdrawCommission(l, v)
  BY <1>2 DEF MayWithdrawCommission
<1> HIDE DEF s, x
<1>4. m = [rewards |-> [l.rewards EXCEPT ![v] = s], start |-> l.start,
           pool |-> l.pool, balance |-> l.balance - x]
  BY <1>1 DEF Sane
<1>5. m.rewards[v] = s /\ m.start = l.start
  BY <1>4 DEF Sane
<1> QED
  BY <1>2, <1>3, <1>5, ServedBy

LEMMA RecordReplaced ==
    ASSUME NEW e, NEW v, NEW s,
           e = [rewards |-> e.rewards, start |-> e.start, pool |-> e.pool, balance |-> e.balance]
    PROVE  [e EXCEPT !.rewards[v] = s]
             = [rewards |-> [e.rewards EXCEPT ![v] = s], start |-> e.start, pool |-> e.pool,
                balance |-> e.balance]
OBVIOUS

LEMMA SlashServed ==
    ASSUME NEW l, NEW v, Sane(l, v), NEW live, NEW f, NEW t, NEW n, NEW h,
           Served(l, live, v, f, t, n, h), NEW b \in Nat \ {0}, b <= t,
           NEW frac, frac = (b * Precision + t - 1) \div t,
           NEW m, m = RecordSlash(l, v, t, h, frac)
    PROVE  Served(m, live, v, f, t - b, n, h) /\ frac \in 0 .. Precision
<1> DEFINE e == IncrementPeriod(l, v, t)
           s == WithSlash(e.rewards[v], h, frac)
<1>1. m = [e EXCEPT !.rewards[v] = s]
  BY DEF RecordSlash
<1>2. e.rewards[v] = EndPeriod(l.rewards[v], t) /\ e.start = l.start
  <2> DEFINE w == e
  <2>1. w = IncrementPeriod(l, v, t)
    OBVIOUS
  <2> HIDE DEF w, e
  <2>2. w.rewards[v] = EndPeriod(l.rewards[v], t) /\ w.start = l.start
    BY <2>1, PeriodWrites
  <2> QED
    BY <2>2 DEF w
<1>3. /\ e = [rewards |-> e.rewards, start |-> e.start, pool |-> e.pool, balance |-> e.balance]
      /\ e.rewards = [u \in DOMAIN l.rewards |-> e.rewards[u]]
  <2> DEFINE w == e
  <2>1. w = IncrementPeriod(l, v, t)
    OBVIOUS
  <2> HIDE DEF w, e
  <2>2. /\ w = [rewards |-> w.rewards, start |-> w.start, pool |-> w.pool, balance |-> w.balance]
        /\ w.rewards = [u \in DOMAIN l.rewards |-> w.rewards[u]]
    BY <2>1, PeriodShape
  <2> QED
    BY <2>2 DEF w
<1>4. Serves(s, Infos(l, live, v), f, t - b, n, h) /\ frac \in 0 .. Precision
  <2>1. Serves(l.rewards[v], Infos(l, live, v), f, t, n, h)
    BY DEF Served
  <2>2. s = WithSlash(EndPeriod(l.rewards[v], t), h, frac)
    BY <1>2
  <2> HIDE DEF s
  <2> QED
    BY <2>1, <2>2, ServesSlashed
<1> HIDE DEF e, s
<1>5. m = [rewards |-> [e.rewards EXCEPT ![v] = s], start |-> e.start, pool |-> e.pool,
           balance |-> e.balance]
  BY <1>1, <1>3, RecordReplaced
<1>6. v \in DOMAIN e.rewards
  BY <1>3 DEF Sane
<1>7. m.rewards[v] = s /\ m.start = l.start
  BY <1>2, <1>5, <1>6
<1> QED
  BY <1>4, <1>7, ServedBy

\* A validator's records that are started over, when nobody counts.
LEMMA FreshServed ==
    ASSUME NEW l, NEW v, Sane(l, v), l.rewards[v].historical = Empty,
           l.rewards[v].slashes = {}, NEW f, NEW t, NEW n, Issued(f, t, n), NEW h \in Nat,
           NEW m, m.start = l.start,
           m.rewards[v] = [outstanding |-> 0, commission |-> 0, current |-> 0, period |-> 1,
                  historical  |-> Put(l.rewards[v].historical, 0, [ratio |-> 0, refs |-> 1]),
                  slashes     |-> l.rewards[v].slashes],
           NEW live, \A a \in Accounts : <<a, v>> \notin live
    PROVE  Served(m, live, v, f, t, n, h)
<1>1. Infos(l, live, v) = Empty
  <2>1. {a \in Accounts : <<a, v>> \in live} = {}
    OBVIOUS
  <2> QED
    BY <2>1 DEF Infos, Empty
<1>2. Serves(m.rewards[v], Empty, f, t, n, h)
  BY ServesFresh
<1> QED
  BY <1>1, <1>2, ServedBy

----------------------------------------------------------------------------
\* The invariant of a new operator's validator.

\* Everyone who delegates to it counts.
ServingStages == Ours \union BlockStages \union {"commissions", "rewards"}

\* Nobody has delegated to any other new operator.
Known == \A k \in DOMAIN delegation : k[2] \in Vals \union {operator}

\* What initializeValidator makes of no records, once or twice.
FirstRecords ==
    [outstanding |-> 0, commission |-> 0, current |-> 0, period |-> 1,
     historical |-> Put(Empty, 0, [ratio |-> 0, refs |-> 1]), slashes |-> {}]

\* Until it is slashed its shares are worth at least what the command gave for
\* them, and all of its tokens but the command's are in the bonded pool.
Repayable(s, v) ==
    s.ledger.rewards[v].slashes = {} =>
        /\ s.validator[v].shares * VotingPower <= InitialShares * s.validator[v].tokens
        /\ s.validator[v].tokens <= s.bondedPool + VotingPower

\* An export at zero height starts its rewards over, and the delegations that
\* its loop has reached.
Rejoined ==
    Counted(ledger.rewards[operator],
            Periods(Infos(ledger, DOMAIN delegation \ pending, operator)))

Fitted ==
    /\ Known
    /\ stage = "recording" => ledger.rewards[operator] = FirstRecords
    /\ stage \in ServingStages => Serving(Staking, operator, height) /\ Repayable(Staking, operator)
    /\ stage = "validators" => /\ ledger.rewards[operator].historical = Empty
                               /\ ledger.rewards[operator].slashes = {}
    /\ stage = "delegations" => Rejoined
    /\ PanicsOnlyForTheStranded

NInv == Late /\ Fresh => Fitted

LEMMA ServingSets ==
    /\ \A x \in ServingStages : x # "validators" /\ x # "delegations" /\ x # "panicked"
    /\ \A x \in {"committed", "distributing", "slashing", "delivering", "ending",
                 "commissions", "rewards", "recording", "registering", "funding"} :
          x \in ServingStages
    /\ \A x \in {"resetting", "powers", "infos", "writing", "exported", "exited", "panicked",
                 "validators", "delegations"} : x \notin ServingStages
BY DEF ServingStages, Ours, BlockStages

\* A step into one of these stages.
LEMMA ServesOn ==
    ASSUME Owned', UNCHANGED operator, stage' \in ServingStages \ {"recording"}, Known',
           NEW t, t = Staking', Serving(t, operator, height'), Repayable(t, operator)
    PROVE  Fitted'
<1>1. stage' # "validators" /\ stage' # "delegations" /\ stage' # "panicked"
  BY ServingSets
<1>2. Serving(Staking, operator, height)'
  BY DEF Serving
<1>3. Repayable(Staking, operator)'
  BY DEF Repayable
<1> QED
  BY <1>1, <1>2, <1>3 DEF Fitted, PanicsOnlyForTheStranded

LEMMA FittedFields ==
    ASSUME Fitted, Owned, stage \in ServingStages, NEW s, s = Staking,
           NEW f, f = SharesTo(delegation, operator),
           NEW t, t = validator[operator].tokens, NEW n, n = validator[operator].shares
    PROVE  /\ Serving(s, operator, height) /\ Repayable(s, operator)
           /\ s.validator = validator /\ s.delegation = delegation /\ s.ledger = ledger
           /\ s.bondedPool = bondedPool
           /\ Sane(ledger, operator) /\ Issued(f, t, n)
           /\ t \in Nat /\ n \in Nat \ {0} /\ height \in Nat /\ bondedPool \in Nat
           /\ Served(ledger, DOMAIN delegation, operator, f, t, n, height)
           /\ DOMAIN ledger.start = DOMAIN delegation
<1>1. /\ Serving(s, operator, height) /\ Repayable(s, operator)
      /\ s.validator = validator /\ s.delegation = delegation /\ s.ledger = ledger
      /\ s.bondedPool = bondedPool
  BY StakingFields DEF Fitted
<1>2. /\ f = SharesTo(s.delegation, operator)
      /\ t = s.validator[operator].tokens /\ n = s.validator[operator].shares
  BY <1>1
<1>3. /\ Sane(s.ledger, operator) /\ Issued(f, t, n) /\ height \in Nat
      /\ Served(s.ledger, DOMAIN s.delegation, operator, f, t, n, height)
      /\ DOMAIN s.ledger.start = DOMAIN s.delegation
  BY <1>1, <1>2, ServingTypes
<1>4. t \in Nat /\ n \in Nat \ {0}
  BY <1>3, IssuedTypes
<1> QED
  BY <1>1, <1>3, <1>4, OwnedFields

\* A step that moves no shares and no tokens.
LEMMA StillFitted ==
    ASSUME Fitted, Owned, Owned', stage \in ServingStages,
           stage' \in ServingStages \ {"recording"},
           UNCHANGED <<operator, delegation, bondedPool>>,
           NEW f, f = SharesTo(delegation, operator),
           NEW t, t = validator[operator].tokens, NEW n, n = validator[operator].shares,
           validator'[operator].tokens = t, validator'[operator].shares = n,
           NEW l, l = ledger', l.rewards[operator].slashes = ledger.rewards[operator].slashes,
           Served(l, DOMAIN delegation, operator, f, t, n, height')
    PROVE  Fitted'
<1> DEFINE s == Staking
           u == Staking'
<1>1. /\ u.validator = validator' /\ u.delegation = delegation /\ u.ledger = l
      /\ u.bondedPool = bondedPool
  BY DEF Staking
<1>2. Lone(u, operator)
  BY DEF Owned
<1>3. /\ Repayable(s, operator) /\ s.validator = validator /\ s.ledger = ledger
      /\ s.bondedPool = bondedPool
  BY FittedFields
<1> HIDE DEF s, u
<1>4. Serving(u, operator, height')
  BY <1>1, <1>2 DEF Serving
<1>5. Repayable(u, operator)
  BY <1>1, <1>3 DEF Repayable
<1>6. Known'
  BY DEF Fitted, Known
<1> QED
  BY <1>4, <1>5, <1>6, ServesOn DEF u

LEMMA BeginBlockFitted ==
    ASSUME Fitted, Owned, Owned', UNCHANGED operator, BeginBlock
    PROVE  Fitted'
<1> DEFINE f == SharesTo(delegation, operator)
           t == validator[operator].tokens
           n == validator[operator].shares
           l == ledger'
<1>1. /\ stage = "committed" /\ stage' \in {"distributing", "slashing"}
      /\ UNCHANGED <<validator, delegation, bondedPool, ledger>> /\ height' = height + 1
  BY DEF BeginBlock, stakingVars
<1>2. stage \in ServingStages /\ stage' \in ServingStages \ {"recording"}
  BY <1>1, ServingSets
<1>3. /\ height \in Nat
      /\ Served(ledger, DOMAIN delegation, operator, f, t, n, height)
  BY <1>2, FittedFields
<1>4. l = ledger
  BY <1>1
<1> HIDE DEF f, t, n, l
<1>5. Served(l, DOMAIN delegation, operator, f, t, n, height')
  BY <1>1, <1>3, <1>4, LaterServed
<1> QED
  BY <1>1, <1>2, <1>4, <1>5, StillFitted DEF f, t, n, l

LEMMA AllocateFitted ==
    ASSUME Fitted, Owned, Owned', UNCHANGED operator,
           NEW v \in todo, AllocateTokensToValidator(v)
    PROVE  Fitted'
<1> DEFINE f == SharesTo(delegation, operator)
           t == validator[operator].tokens
           n == validator[operator].shares
           l == ledger'
<1>1. /\ stage = "distributing" /\ stage' \in {"distributing", "slashing"}
      /\ UNCHANGED <<validator, delegation, bondedPool>> /\ height' = height
      /\ l = AllocateTokens(ledger, v, Fees, Earning, Commission)
  BY DEF AllocateTokensToValidator, stakingVars
<1>2. stage \in ServingStages /\ stage' \in ServingStages \ {"recording"}
  BY <1>1, ServingSets
<1>3. v = operator
  BY <1>1 DEF Owned, Looping
<1>4. /\ Sane(ledger, v) /\ Served(ledger, DOMAIN delegation, v, f, t, n, height)
  BY <1>2, <1>3, FittedFields
<1>5. Earning \in Nat /\ Commission \in 0 .. Earning
  BY ChainAssumption
<1> HIDE DEF f, t, n, l
<1>6. Served(l, DOMAIN delegation, v, f, t, n, height)
  BY <1>1, <1>4, <1>5, AllocateServed
<1>7. l.rewards[v].slashes = ledger.rewards[v].slashes
  BY <1>1, <1>4 DEF AllocateTokens, Earned, Sane, RewardsOK
<1> QED
  BY <1>1, <1>2, <1>3, <1>6, <1>7, StillFitted DEF f, t, n, l

LEMMA NoOffenceFitted ==
    ASSUME Fitted, Owned, Owned', UNCHANGED operator, NoOffence
    PROVE  Fitted'
<1>1. /\ stage = "slashing" /\ stage' = "delivering"
      /\ UNCHANGED <<validator, delegation, bondedPool, ledger, height>>
  BY DEF NoOffence, stakingVars
<1>2. stage \in ServingStages /\ stage' \in ServingStages \ {"recording"}
  BY <1>1, ServingSets
<1> QED
  BY <1>1, <1>2, FittedFields, StillFitted

LEMMA SlashFitted ==
    ASSUME Fitted, Owned, Owned', UNCHANGED operator, NEW v \in last, SlashAndJail(v)
    PROVE  Fitted'
<1> DEFINE f == SharesTo(delegation, operator)
           t == validator[operator].tokens
           n == validator[operator].shares
           b == Burned(v)
           l == ledger'
           u == Staking'
<1>1. v = operator /\ validator[v] \in Validator /\ DOMAIN validator = {v}
  BY OwnedFields DEF Owned, Seated
<1>2. /\ stage = "slashing" /\ stage' = "delivering" /\ UNCHANGED <<height, last, delegation>>
      /\ validator' = [validator EXCEPT ![v].jailed = TRUE, ![v].tokens = @ - b]
      /\ bondedPool' = bondedPool - b
      /\ b = 0 \/ MayIncrementPeriod(ledger, v)
      /\ l = IF b = 0 THEN ledger
             ELSE RecordSlash(ledger, v, validator[v].tokens, height, EffectiveFraction(v))
  BY DEF SlashAndJail
<1>3. stage \in ServingStages /\ stage' \in ServingStages \ {"recording"}
  BY <1>2, ServingSets
<1>4. /\ Sane(ledger, v) /\ Served(ledger, DOMAIN delegation, v, f, t, n, height)
      /\ t \in Nat /\ height \in Nat /\ bondedPool \in Nat
  BY <1>1, <1>3, FittedFields
<1>5. /\ b \in Nat /\ b <= t
      /\ b # 0 => EffectiveFraction(v) \in Int
  BY <1>1, <1>4, BurnedOfRecord
<1>6. EffectiveFraction(v) = (b * Precision + t - 1) \div t
  BY <1>1 DEF EffectiveFraction
<1>7. validator'[operator].tokens = t - b /\ validator'[operator].shares = n
  <2> DEFINE val == [validator[v] EXCEPT !.jailed = TRUE, !.tokens = validator[v].tokens - b]
  <2>1. validator' = [validator EXCEPT ![v] = val]
    BY <1>1, <1>2
  <2>2. val.tokens = t - b /\ val.shares = n
    BY <1>1 DEF Validator
  <2> HIDE DEF val
  <2> QED
    BY <1>1, <2>1, <2>2
<1> HIDE DEF f, b, l, n
<1>8. CASE b = 0
  <2>1. l = ledger /\ bondedPool' = bondedPool /\ validator'[operator].tokens = t
    BY <1>2, <1>4, <1>7, <1>8
  <2> HIDE DEF t
  <2> QED
    BY <1>1, <1>2, <1>3, <1>4, <1>7, <2>1, StillFitted DEF f, t, n, l
<1>9. CASE b # 0
  <2> DEFINE frac == EffectiveFraction(v)
  <2>1. /\ l = RecordSlash(ledger, v, t, height, frac) /\ frac \in Int
        /\ MayIncrementPeriod(ledger, v) /\ b \in Nat \ {0}
        /\ frac = (b * Precision + t - 1) \div t
    BY <1>1, <1>2, <1>5, <1>6, <1>9
  <2> HIDE DEF t, frac
  <2>2. Served(l, DOMAIN delegation, v, f, t - b, n, height)
    BY <1>4, <1>5, <2>1, SlashServed
  <2>3. l.rewards[v].slashes # {}
    <3>1. /\ Sane(ledger, v) /\ MayIncrementPeriod(ledger, v) /\ t \in Nat /\ height \in Nat
          /\ frac \in Int /\ l = RecordSlash(ledger, v, t, height, frac)
      BY <1>4, <2>1
    <3>2. Sane(l, v) /\ Even(ledger, l, v) /\ l.start = ledger.start /\ l.rewards[v].slashes # {}
      BY ONLY <3>1, RecordSlashEven
    <3> QED
      BY <3>2
  <2>4. /\ u.validator = validator' /\ u.delegation = delegation /\ u.ledger = l
    BY <1>2 DEF Staking, l
  <2>5. Lone(u, v)
    BY <1>1 DEF Owned
  <2> HIDE DEF u
  <2>6. Serving(u, operator, height')
    BY <1>1, <1>2, <1>7, <2>2, <2>4, <2>5 DEF Serving, f
  <2>7. Repayable(u, operator)
    BY <1>1, <2>3, <2>4 DEF Repayable
  <2>8. Known'
    BY <1>2 DEF Fitted, Known
  <2> QED
    BY <1>3, <2>6, <2>7, <2>8, ServesOn DEF u
<1> QED
  BY <1>8, <1>9

\* A validator whose shares become worth no less.
LEMMA WorthKept ==
    ASSUME NEW t \in Nat, NEW n \in Nat \ {0}, NEW c \in Nat, NEW p \in Nat, n * p <= c * t,
           NEW u \in Nat, NEW m \in Nat, m * t <= n * u
    PROVE  m * p <= c * u
<1>1. m * (n * p) <= m * (c * t) /\ c * (m * t) <= c * (n * u)
  <2>1. n * p \in Int /\ c * t \in Int /\ m * t \in Int /\ n * u \in Int
    BY ProductType
  <2> QED
    BY <2>1, Grows
<1>2. /\ m * (n * p) = n * (m * p) /\ m * (c * t) = c * (m * t) /\ c * (n * u) = n * (c * u)
      /\ m * p \in Int /\ c * u \in Int
      /\ n * (m * p) \in Int /\ c * (m * t) \in Int /\ n * (c * u) \in Int
  BY ProductType
<1>3. n * (m * p) <= n * (c * u)
  BY <1>1, <1>2
<1> QED
  BY <1>2, <1>3, Cancels

LEMMA DelegatedRepayable ==
    ASSUME NEW s, NEW v, NEW h, Serving(s, v, h), Repayable(s, v),
           s.validator[v].status = "bonded", NEW d \in Accounts, NEW k \in Nat,
           s.validator[v].tokens > 0 \/ s.validator[v].shares = 0,
           NEW u, u = Delegated(s, d, v, k, h)
    PROVE  Repayable(u, v)
<1> DEFINE t == s.validator[v].tokens
           n == s.validator[v].shares
           i == SharesFromTokens(s, v, k)
<1>1. Lone(s, v) /\ Hookable(s, d, v, h) /\ t \in Nat \ {0} /\ n \in Nat \ {0}
  <2>1. Lone(s, v) /\ Issued(SharesTo(s.delegation, v), t, n)
    BY ServingTypes
  <2>2. Hookable(s, d, v, h)
    BY HookedServed
  <2>3. t \in Nat /\ n \in Nat \ {0}
    BY <2>1, IssuedTypes
  <2> QED
    BY <2>1, <2>2, <2>3
<1>2. /\ u.ledger.rewards[v].slashes = s.ledger.rewards[v].slashes
      /\ u.validator[v] = AddTokens(s.validator[v], k, i)
      /\ u.bondedPool = s.bondedPool + k
  BY <1>1, DelegatedLone DEF IfBonded
<1>3. i = (n * k) \div t
  BY <1>1 DEF SharesFromTokens
<1>4. u.validator[v].tokens = t + k /\ u.validator[v].shares = n + i
  BY <1>1, <1>2, LoneTypes DEF AddTokens, Validator
<1> HIDE DEF i, t, n
<1>5. i \in Nat /\ (n + i) * t <= n * (t + k)
  BY <1>1, <1>3, IssueArithmetic
<1> SUFFICES ASSUME u.ledger.rewards[v].slashes = {}
             PROVE  /\ (n + i) * VotingPower <= InitialShares * (t + k)
                    /\ t + k <= u.bondedPool + VotingPower
  BY <1>4 DEF Repayable
<1>6. n * VotingPower <= InitialShares * t /\ t <= s.bondedPool + VotingPower
  BY <1>2 DEF Repayable, t, n
<1>7. VotingPower \in Nat /\ InitialShares \in Nat /\ s.bondedPool \in Nat
  BY <1>1, TestnetAssumption DEF Lone
<1>8. n + i \in Nat /\ t + k \in Nat
  BY <1>1, <1>5
<1>9. (n + i) * VotingPower <= InitialShares * (t + k)
  BY <1>1, <1>5, <1>6, <1>7, <1>8, WorthKept
<1> QED
  BY <1>1, <1>2, <1>6, <1>7, <1>9

LEMMA PartRemoved ==
    ASSUME NEW s, NEW v, NEW x, x # s.validator[v].shares
    PROVE  TokensRemoved(s, v, x) = (x * s.validator[v].tokens) \div s.validator[v].shares
BY DEF TokensRemoved

LEMMA UnbondedRepayable ==
    ASSUME NEW s, NEW v, NEW h, Serving(s, v, h), Repayable(s, v),
           s.validator[v].status = "bonded", NEW d \in Accounts,
           <<d, v>> \in DOMAIN s.delegation,
           NEW x \in Nat, x <= s.delegation[<<d, v>>], x <= s.validator[v].shares,
           TokensRemoved(s, v, x) \in 1 .. s.validator[v].tokens,
           IfBonded(s, v, TokensRemoved(s, v, x)) <= s.bondedPool,
           NEW u, u = Unbonded(s, d, v, x, h)
    PROVE  Repayable(u, v)
<1> DEFINE t == s.validator[v].tokens
           n == s.validator[v].shares
           i == TokensRemoved(s, v, x)
           f == SharesTo(s.delegation, v)
<1>1. /\ Lone(s, v) /\ Hookable(s, d, v, h) /\ t \in Nat /\ n \in Nat \ {0}
      /\ x < n
  <2>1. /\ Lone(s, v) /\ Issued(f, t, n) /\ f[d] = s.delegation[<<d, v>>]
    BY ServingTypes
  <2>2. Hookable(s, d, v, h)
    BY HookedServed
  <2>3. t \in Nat /\ n \in Nat \ {0} /\ f[d] \in Nat /\ f[d] < n
    BY <2>1, IssuedTypes
  <2> HIDE DEF f
  <2> QED
    BY <2>1, <2>2, <2>3
<1>2. /\ u.ledger.rewards[v].slashes = s.ledger.rewards[v].slashes
      /\ \E jail \in BOOLEAN : u.validator[v] = RemoveTokens(s.validator[v], i, x, jail)
      /\ u.bondedPool = s.bondedPool - i
  <2>1. /\ u.ledger.rewards[v].slashes = s.ledger.rewards[v].slashes
        /\ \E jail \in BOOLEAN :
             /\ u.validator[v] = RemoveTokens(s.validator[v], TokensRemoved(s, v, x), x, jail)
             /\ u.powerIndex = IF jail THEN s.powerIndex \ {v} ELSE s.powerIndex
        /\ u.bondedPool = s.bondedPool - IfBonded(s, v, TokensRemoved(s, v, x))
    <3>1. Lone(s, v) /\ Hookable(s, d, v, h)
      BY <1>1
    <3> HIDE DEF t, n, i, f
    <3>2. /\ Lone(u, v) /\ Even(s.ledger, u.ledger, v)
          /\ u.ledger.rewards[v].slashes = s.ledger.rewards[v].slashes
          /\ \E jail \in BOOLEAN :
               /\ u.validator[v] = RemoveTokens(s.validator[v], TokensRemoved(s, v, x), x, jail)
               /\ u.powerIndex = IF jail THEN s.powerIndex \ {v} ELSE s.powerIndex
          /\ u.bondedPool = s.bondedPool - IfBonded(s, v, TokensRemoved(s, v, x))
      BY <3>1, UnbondedLone
    <3> QED
      BY <3>2
  <2> QED
    BY <2>1 DEF IfBonded
<1>3. i = (x * t) \div n
  <2>1. x # n
    BY <1>1
  <2> QED
    BY <2>1, PartRemoved
<1>4. u.validator[v].tokens = t - i /\ u.validator[v].shares = n - x
  BY <1>1, <1>2, LoneTypes DEF RemoveTokens, Validator
<1> HIDE DEF i, t, n, f
<1>5. i \in Nat /\ i <= t /\ (n - x) * t <= n * (t - i)
  BY <1>1, <1>3, RemoveArithmetic
<1> SUFFICES ASSUME u.ledger.rewards[v].slashes = {}
             PROVE  /\ (n - x) * VotingPower <= InitialShares * (t - i)
                    /\ t - i <= u.bondedPool + VotingPower
  BY <1>4 DEF Repayable
<1>6. n * VotingPower <= InitialShares * t /\ t <= s.bondedPool + VotingPower
  BY <1>2 DEF Repayable, t, n
<1>7. VotingPower \in Nat /\ InitialShares \in Nat /\ s.bondedPool \in Nat
  BY <1>1, TestnetAssumption DEF Lone
<1>8. n - x \in Nat /\ t - i \in Nat
  BY <1>1, <1>5
<1>9. (n - x) * VotingPower <= InitialShares * (t - i)
  BY <1>1, <1>5, <1>6, <1>7, <1>8, WorthKept
<1> QED
  BY <1>1, <1>2, <1>5, <1>6, <1>7, <1>9

\* A transaction: u is what it makes of the staking state.
LEMMA BecomesFitted ==
    ASSUME Fitted, Owned, Owned', UNCHANGED operator, Deliver, NEW u, Becomes(u),
           Serving(u, operator, height), Repayable(u, operator),
           NEW d, DOMAIN u.delegation \subseteq DOMAIN delegation \union {<<d, operator>>}
    PROVE  Fitted'
<1> DEFINE w == Staking'
<1>1. /\ validator' = u.validator /\ delegation' = u.delegation /\ powerIndex' = u.powerIndex
      /\ bondedPool' = u.bondedPool /\ ledger' = u.ledger
  BY DEF Becomes
<1>2. w = u
  BY <1>1 DEF Staking, Serving, Lone
<1>3. stage' = "ending" /\ UNCHANGED height
  BY DEF Deliver
<1> HIDE DEF w
<1>4. Known'
  BY <1>1 DEF Fitted, Known
<1>5. stage' \in ServingStages \ {"recording"}
  BY <1>3, ServingSets
<1>6. Serving(w, operator, height') /\ Repayable(w, operator)
  BY <1>2, <1>3
<1> QED
  BY <1>4, <1>5, <1>6, ServesOn DEF w

LEMMA BondedInBlock ==
    ASSUME OInv, operator # NoOperator, stage \in BlockStages
    PROVE  validator[operator].status = "bonded"
BY DEF OInv, Converted, Alone, IsBonded

LEMMA DelegateFitted ==
    ASSUME Fitted, Owned, Owned', UNCHANGED operator, validator[operator].status = "bonded",
           NEW d \in Accounts, Delegate(d, operator)
    PROVE  Fitted'
<1> DEFINE v == operator
           s == Staking
           u == Delegated(Staking, d, v, 1, height)
<1>1. /\ Deliver /\ stage = "delivering" /\ Becomes(u)
      /\ validator[v].tokens > 0 \/ validator[v].shares = 0
  BY DEF Delegate, Deliver
<1>2. /\ Serving(s, v, height) /\ Repayable(s, v) /\ s.validator = validator
      /\ s.delegation = delegation
  BY <1>1, ServingSets, FittedFields
<1>3. u = Delegated(s, d, v, 1, height)
  OBVIOUS
<1> HIDE DEF v, s, u
<1>4. /\ s.validator[v].tokens > 0 \/ s.validator[v].shares = 0
      /\ s.validator[v].status = "bonded"
  BY <1>1, <1>2 DEF v
<1>5. Serving(u, v, height)
  BY <1>2, <1>3, <1>4, DelegatedServing
<1>6. Repayable(u, v)
  BY <1>2, <1>3, <1>4, DelegatedRepayable
<1>7. DOMAIN u.delegation \subseteq DOMAIN delegation \union {<<d, v>>}
  <2>1. u.delegation = Put(s.delegation, <<d, v>>,
                           SharesFromTokens(s, v, 1) + SharesTo(s.delegation, v)[d])
    <3>1. Lone(s, v)
      BY <1>2 DEF Serving
    <3> QED
      BY <1>3, <3>1, DelegatedParts
  <2> QED
    BY <1>2, <2>1 DEF Put
<1> QED
  BY <1>1, <1>5, <1>6, <1>7, BecomesFitted DEF v

LEMMA UndelegateFitted ==
    ASSUME Fitted, Owned, Owned', UNCHANGED operator, validator[operator].status = "bonded",
           NEW d \in Accounts, Undelegate(d, operator)
    PROVE  Fitted'
<1> DEFINE v == operator
           s == Staking
<1>1. /\ Deliver /\ stage = "delivering" /\ <<d, v>> \in DOMAIN delegation
      /\ validator[v].tokens > 0
  BY DEF Undelegate, Deliver
<1>2. PICK n \in Undelegable(d, v) :
         /\ IfBonded(s, v, TokensRemoved(s, v, n)) <= bondedPool
         /\ Becomes(Unbonded(s, d, v, n, height))
  BY DEF Undelegate
<1> DEFINE u == Unbonded(s, d, v, n, height)
<1>3. /\ Serving(s, v, height) /\ Repayable(s, v) /\ s.validator = validator
      /\ s.delegation = delegation /\ s.bondedPool = bondedPool
  BY <1>1, ServingSets, FittedFields
<1>4. /\ n = s.delegation[<<d, v>>] \/ n = SharesFromTokens(s, v, 1)
      /\ n <= s.delegation[<<d, v>>] /\ n <= s.validator[v].shares
      /\ TokensRemoved(s, v, n) \in 1 .. s.validator[v].tokens
      /\ <<d, v>> \in DOMAIN s.delegation /\ s.validator[v].tokens > 0
      /\ IfBonded(s, v, TokensRemoved(s, v, n)) <= s.bondedPool
      /\ s.validator[v].status = "bonded"
  BY <1>1, <1>2, <1>3 DEF Undelegable
<1>5. Becomes(u) /\ u = Unbonded(s, d, v, n, height)
  BY <1>2
<1> HIDE DEF u, s, v
<1>6. n \in Nat
  <2>1. Lone(s, v)
    BY <1>3 DEF Serving
  <2>2. s.delegation[<<d, v>>] \in Nat
    BY <1>4, <2>1, LoneTypes
  <2>3. SharesFromTokens(s, v, 1) \in Nat
    BY <1>4, <2>1, IssuedType
  <2> QED
    BY <1>4, <2>2, <2>3
<1>7. Serving(u, v, height)
  BY <1>3, <1>4, <1>5, <1>6, UnbondedServing
<1>8. Repayable(u, v)
  BY <1>3, <1>4, <1>5, <1>6, UnbondedRepayable
<1>9. DOMAIN u.delegation \subseteq DOMAIN delegation \union {<<d, v>>}
  <2> DEFINE left == s.delegation[<<d, v>>] - n
  <2>1. u.delegation = IF left = 0 THEN Drop(s.delegation, <<d, v>>)
                       ELSE Put(s.delegation, <<d, v>>, left)
    BY <1>4, <1>5, UnbondedParts
  <2> QED
    BY <1>3, <2>1 DEF Put, Drop
<1> QED
  BY <1>1, <1>5, <1>7, <1>8, <1>9, BecomesFitted DEF v

\* Nothing about slash events changes when rewards are withdrawn.
LEMMA AgainSlashes ==
    ASSUME NEW s, NEW v, NEW h, Serving(s, v, h), NEW d \in Accounts,
           <<d, v>> \in DOMAIN s.delegation,
           NEW m, m = InitializeDelegation(Withdrawn(s, d, v, h), d, v, StakeOf(s, d, v), h)
    PROVE  m.rewards[v].slashes = s.ledger.rewards[v].slashes
<1> DEFINE l == Hooked(s, d, v, h)
           stake == StakeOf(s, d, v)
<1>1. Lone(s, v) /\ Hookable(s, d, v, h)
  BY HookedServed DEF Serving
<1>2. m = InitializeDelegation(l, d, v, stake, h) /\ l = Hooked(s, d, v, h)
  BY DEF Hooked
<1> HIDE DEF l, stake
<1>3. Sane(l, v) /\ l.rewards[v].slashes = s.ledger.rewards[v].slashes
  BY <1>1, <1>2, HookedEven
<1>4. /\ Sane(m, v) /\ Even(l, m, v)
      /\ m.rewards[v].slashes = l.rewards[v].slashes
      /\ DOMAIN m.start = DOMAIN l.start \union {<<d, v>>}
  BY <1>2, <1>3, InitializeDelegationEven
<1> QED
  BY <1>3, <1>4

LEMMA WithdrawRewardFitted ==
    ASSUME Fitted, Owned, Owned', UNCHANGED operator,
           NEW d \in Accounts, WithdrawDelegatorReward(d, operator)
    PROVE  Fitted'
<1> DEFINE v == operator
           s == Staking
           f == SharesTo(delegation, operator)
           t == validator[operator].tokens
           n == validator[operator].shares
           l == ledger'
<1>1. /\ stage = "delivering" /\ stage' = "ending" /\ height' = height
      /\ <<d, v>> \in DOMAIN delegation
      /\ l = InitializeDelegation(Withdrawn(s, d, v, height), d, v, StakeOf(s, d, v), height)
      /\ UNCHANGED <<validator, delegation, bondedPool>>
  BY DEF WithdrawDelegatorReward, Deliver, stakingVars
<1>2. stage \in ServingStages /\ stage' \in ServingStages \ {"recording"}
  BY <1>1, ServingSets
<1>3. /\ Serving(s, v, height) /\ s.validator = validator
      /\ s.delegation = delegation /\ s.ledger = ledger
  BY <1>2, FittedFields
<1>4. /\ f = SharesTo(s.delegation, v) /\ t = s.validator[v].tokens
      /\ n = s.validator[v].shares /\ <<d, v>> \in DOMAIN s.delegation
  BY <1>1, <1>3
<1> HIDE DEF v, s, f, t, n, l
<1>5. Served(l, DOMAIN delegation, v, f, t, n, height)
  <2>1. Served(l, DOMAIN s.delegation, v, f, t, n, height)
    BY <1>1, <1>3, <1>4, AgainServed
  <2> QED
    BY <1>3, <2>1
<1>6. l.rewards[v].slashes = ledger.rewards[v].slashes
  BY <1>1, <1>3, <1>4, AgainSlashes
<1> QED
  BY <1>1, <1>2, <1>5, <1>6, StillFitted DEF f, t, n, l, v

LEMMA UnjailFitted ==
    ASSUME Fitted, Owned, Owned', UNCHANGED operator, Unjail(operator)
    PROVE  Fitted'
<1>1. /\ stage = "delivering" /\ stage' = "ending"
      /\ UNCHANGED <<delegation, bondedPool, ledger, height>>
      /\ validator' = [validator EXCEPT ![operator].jailed = FALSE]
  BY DEF Unjail, Deliver
<1>2. stage \in ServingStages /\ stage' \in ServingStages \ {"recording"}
  BY <1>1, ServingSets
<1>3. /\ validator'[operator].tokens = validator[operator].tokens
      /\ validator'[operator].shares = validator[operator].shares
  <2> DEFINE val == [validator[operator] EXCEPT !.jailed = FALSE]
  <2>1. validator' = [validator EXCEPT ![operator] = val]
    BY <1>1
  <2>2. /\ val.tokens = validator[operator].tokens /\ val.shares = validator[operator].shares
    BY OwnedFields DEF Validator
  <2> HIDE DEF val
  <2> QED
    BY <2>1, <2>2, OwnedFields
<1> QED
  BY <1>1, <1>2, <1>3, FittedFields, StillFitted

LEMMA TransactionFitted ==
    ASSUME Fitted, Owned, Owned', UNCHANGED operator, validator[operator].status = "bonded",
           Transaction
    PROVE  Fitted'
<1>1. \A v \in DOMAIN validator : v = operator
  BY OwnedFields
<1>2. CASE \E d \in Accounts : Delegate(d, operator)
  BY <1>2, DelegateFitted
<1>3. CASE \E d \in Accounts : Undelegate(d, operator)
  BY <1>3, UndelegateFitted
<1>4. CASE \E d \in Accounts : WithdrawDelegatorReward(d, operator)
  BY <1>4, WithdrawRewardFitted
<1>5. CASE Unjail(operator)
  BY <1>5, UnjailFitted
<1>6. ~ \E d \in Accounts, v, w \in DOMAIN validator : BeginRedelegate(d, v, w)
  BY <1>1 DEF BeginRedelegate
<1> QED
  BY <1>1, <1>2, <1>3, <1>4, <1>5, <1>6 DEF Transaction

LEMMA EndBlockFitted ==
    ASSUME Fitted, Owned, Owned', UNCHANGED operator, EndBlock
    PROVE  Fitted'
<1>1. /\ stage \in {"delivering", "ending"} /\ stage' = "committed"
      /\ Top(powerIndex, validator) # {}
      /\ ApplyAndReturnValidatorSetUpdates(validator, height)
      /\ UNCHANGED <<height, delegation, ledger>>
  BY DEF EndBlock
<1>2. stage \in ServingStages /\ stage' \in ServingStages \ {"recording"}
  BY <1>1, ServingSets
<1>3. Top(powerIndex, validator) = {operator}
  BY <1>1 DEF Top, Visited, Owned, Seated
<1>4. bondedPool' = bondedPool
  BY <1>1, <1>3, AppliedOwned DEF Owned
<1>5. /\ validator'[operator].tokens = validator[operator].tokens
      /\ validator'[operator].shares = validator[operator].shares
  <2>1. validator' = Applied(powerIndex, validator, height)
    BY <1>1 DEF ApplyAndReturnValidatorSetUpdates
  <2>2. validator'[operator] = [validator[operator] EXCEPT !.status = "bonded"]
    BY <1>3, <2>1, OwnedFields DEF Applied
  <2> QED
    BY <2>2, OwnedFields DEF Validator
<1> QED
  BY <1>1, <1>2, <1>4, <1>5, FittedFields, StillFitted

LEMMA ChainStepFitted ==
    ASSUME Fitted, Owned, Owned', UNCHANGED operator, validator[operator].status = "bonded",
           ChainStep
    PROVE  Fitted'
<1>1. Block(horizon)
  BY DEF ChainStep
<1>2. CASE BeginBlock
  BY <1>2, BeginBlockFitted
<1>3. CASE \E v \in todo : AllocateTokensToValidator(v)
  BY <1>3, AllocateFitted
<1>4. CASE NoOffence
  BY <1>4, NoOffenceFitted
<1>5. CASE \E v \in last : SlashAndJail(v)
  BY <1>5, SlashFitted
<1>6. CASE Transaction
  BY <1>6, TransactionFitted
<1>7. CASE EndBlock
  BY <1>7, EndBlockFitted
<1> QED
  BY <1>1, <1>2, <1>3, <1>4, <1>5, <1>6, <1>7 DEF Block

----------------------------------------------------------------------------
\* Exports of the testnet.

\* A step after which nothing is asked of the rewards.
LEMMA LaterFitted ==
    ASSUME Fitted, UNCHANGED <<operator, delegation>>,
           stage' \in {"resetting", "powers", "infos", "writing", "exported", "exited",
                       "panicked"},
           stage' = "panicked" => PanicsOnlyForTheStranded'
    PROVE  Fitted'
<1>1. stage' \notin ServingStages /\ stage' \notin {"recording", "validators", "delegations"}
  BY ServingSets
<1>2. Known'
  BY DEF Fitted, Known
<1>3. PanicsOnlyForTheStranded'
  BY DEF PanicsOnlyForTheStranded
<1> QED
  BY <1>1, <1>2, <1>3 DEF Fitted

LEMMA BeginExportFitted ==
    ASSUME Fitted, Owned, Owned', UNCHANGED operator, NEW zero, NEW list,
           BeginExport(zero, list)
    PROVE  Fitted'
<1>1. /\ stage = "committed" /\ stage' \in {"writing", "panicked", "commissions"}
      /\ stage' = "panicked" => Malformed \in list
      /\ allowed' = list /\ height' = height
      /\ UNCHANGED <<validator, delegation, bondedPool, ledger>>
  BY DEF BeginExport, stakingVars
<1>2. CASE stage' = "commissions"
  <2>1. stage \in ServingStages /\ stage' \in ServingStages \ {"recording"}
    BY <1>1, <1>2, ServingSets
  <2> QED
    BY <1>1, <2>1, FittedFields, StillFitted
<1>3. CASE stage' # "commissions"
  <2>1. stage' = "panicked" => PanicsOnlyForTheStranded'
    BY <1>1 DEF PanicsOnlyForTheStranded
  <2> QED
    BY <1>1, <1>3, <2>1, LaterFitted
<1> QED
  BY <1>2, <1>3

LEMMA CommissionFitted ==
    ASSUME Fitted, Owned, Owned', UNCHANGED operator,
           NEW v \in todo, WithdrawAllCommission(v)
    PROVE  Fitted'
<1> DEFINE f == SharesTo(delegation, operator)
           t == validator[operator].tokens
           n == validator[operator].shares
           l == ledger'
           w == WithdrawCommission(ledger, v)
<1>1. stage = "commissions"
  BY DEF WithdrawAllCommission, ExportStep
<1>2. v = operator
  BY <1>1, ZeroSets DEF Owned, Looping
<1>3. /\ stage \in ServingStages
      /\ Sane(ledger, v) /\ Served(ledger, DOMAIN delegation, v, f, t, n, height)
  BY <1>1, <1>2, ServingSets, FittedFields
<1>4. w = WithdrawCommission(ledger, v)
  OBVIOUS
<1> HIDE DEF f, t, n, l, w
<1>5. Served(w, DOMAIN delegation, v, f, t, n, height) /\ MayWithdrawCommission(ledger, v)
  BY <1>3, <1>4, CommissionServed
<1>6. /\ l = w /\ stage' \in {"commissions", "rewards"} /\ height' = height
      /\ UNCHANGED <<validator, delegation, bondedPool>>
  BY <1>1, <1>4, <1>5 DEF WithdrawAllCommission, ExportStep, stakingVars, l
<1>7. l.rewards[v].slashes = ledger.rewards[v].slashes
  BY <1>3, <1>4, <1>6 DEF WithdrawCommission, WithoutCommission, Sane, RewardsOK
<1>8. stage' \in ServingStages \ {"recording"}
  BY <1>6, ServingSets
<1> QED
  BY <1>2, <1>3, <1>5, <1>6, <1>7, <1>8, StillFitted DEF f, t, n, l

LEMMA RewardsFitted ==
    ASSUME Fitted, Owned, Owned', UNCHANGED operator,
           NEW k \in pending, WithdrawAllRewards(k[1], k[2])
    PROVE  Fitted'
<1> DEFINE d == k[1]
           v == k[2]
           s == Staking
           f == SharesTo(delegation, operator)
           t == validator[operator].tokens
           n == validator[operator].shares
           l == ledger'
<1>1. /\ stage = "rewards" /\ k \in DOMAIN delegation
  <2>1. stage = "rewards"
    BY DEF WithdrawAllRewards, ExportStep
  <2> QED
    BY <2>1 DEF Owned, Looping
<1>2. k = <<d, v>> /\ d \in Accounts
  BY <1>1, OwnedFields DEF IsPartial
<1>3. stage \in ServingStages
  BY <1>1, ServingSets
<1>4. CASE v \notin DOMAIN validator
  <2>1. UNCHANGED <<stage, validator, delegation, bondedPool, ledger, height>>
    BY <1>1, <1>4 DEF WithdrawAllRewards, ExportStep, stakingVars
  <2>2. stage' \in ServingStages \ {"recording"}
    BY <1>1, <2>1, ServingSets
  <2> QED
    BY <1>3, <2>1, <2>2, FittedFields, StillFitted
<1>5. CASE v \in DOMAIN validator
  <2>1. v = operator
    BY <1>5, OwnedFields
  <2>2. /\ Serving(s, v, height) /\ s.validator = validator
        /\ s.delegation = delegation /\ s.ledger = ledger
    BY <1>3, <2>1, FittedFields
  <2>3. /\ f = SharesTo(s.delegation, v) /\ t = s.validator[v].tokens
        /\ n = s.validator[v].shares /\ <<d, v>> \in DOMAIN s.delegation
    BY <1>1, <1>2, <2>1, <2>2
  <2>4. MayWithdraw(ledger, d, v, validator[v].tokens, height, StakeOf(Staking, d, v))
    <3> HIDE DEF v, d, s
    <3>1. Hookable(s, d, v, height)
      BY <1>2, <2>2, HookedServed
    <3> QED
      BY <2>2, <2>3, <3>1 DEF Hookable, s
  <2>5. /\ l = InitializeDelegation(Withdrawn(s, d, v, height), d, v, StakeOf(s, d, v), height)
        /\ UNCHANGED <<stage, height, validator, delegation, bondedPool>>
    BY <1>1, <1>5, <2>4 DEF WithdrawAllRewards, ExportStep, stakingVars
  <2> HIDE DEF v, s, f, t, n, l, d
  <2>6. Served(l, DOMAIN delegation, v, f, t, n, height)
    <3>1. Served(l, DOMAIN s.delegation, v, f, t, n, height)
      BY <1>2, <2>2, <2>3, <2>5, AgainServed
    <3> QED
      BY <2>2, <3>1
  <2>7. l.rewards[v].slashes = ledger.rewards[v].slashes
    BY <1>2, <2>2, <2>3, <2>5, AgainSlashes
  <2>8. stage' \in ServingStages \ {"recording"}
    BY <1>1, <2>5, ServingSets
  <2> QED
    BY <1>3, <2>1, <2>5, <2>6, <2>7, <2>8, StillFitted DEF f, t, n, l
<1> QED
  BY <1>4, <1>5

LEMMA ClearPeriodsFitted ==
    ASSUME Fitted, Owned, Owned', UNCHANGED operator, ClearPeriods
    PROVE  Fitted'
<1> DEFINE m == ledger'
<1>1. /\ m = DeleteHistoricalRewards(DeleteSlashEvents(ledger))
      /\ stage' = "validators" /\ UNCHANGED delegation
  BY DEF ClearPeriods, ExportStep, stakingVars
<1>2. Sane(ledger, operator) /\ operator \in DOMAIN ledger.rewards
  BY OwnedFields DEF Sane
<1> HIDE DEF m
<1>3. \A u \in DOMAIN ledger.rewards : m.rewards[u] = Wiped(ledger.rewards[u])
  BY <1>1, <1>2, ClearedSane
<1>4. m.rewards[operator].historical = Empty /\ m.rewards[operator].slashes = {}
  <2>1. RewardsOK(ledger.rewards[operator])
    BY <1>2 DEF Sane
  <2> QED
    BY <1>2, <1>3, <2>1 DEF Wiped, RewardsOK
<1>5. "validators" \notin ServingStages
  BY ServingSets
<1>6. Known'
  BY <1>1 DEF Fitted, Known
<1> QED
  BY <1>1, <1>4, <1>5, <1>6 DEF Fitted, PanicsOnlyForTheStranded, m

\* What initializeValidator writes, whether or not its coins were donated.
LEMMA RestartWrites ==
    ASSUME NEW l, NEW v, Sane(l, v), l.rewards[v].slashes = {},
           NEW h, h = Put(l.rewards[v].historical, 0, [ratio |-> 0, refs |-> 1]),
           h = Put(Empty, 0, [ratio |-> 0, refs |-> 1]),
           NEW m, \/ m = InitializeValidator(l, v)
                  \/ m = InitializeValidator(DonateOutstanding(l, v), v)
    PROVE  m.rewards[v] = FirstRecords /\ m.start = l.start
<1> DEFINE s == [outstanding |-> 0, commission |-> 0, current |-> 0, period |-> 1,
                 historical |-> h, slashes |-> {}]
<1>1. \E x : m = [rewards |-> [l.rewards EXCEPT ![v] = s], start |-> l.start,
                  pool |-> x, balance |-> l.balance]
  <2>1. ASSUME NEW n, NEW x,
               n = [rewards |-> l.rewards, start |-> l.start, pool |-> x,
                    balance |-> l.balance], m = InitializeValidator(n, v)
        PROVE  m = [rewards |-> [l.rewards EXCEPT ![v] = s], start |-> l.start,
                    pool |-> x, balance |-> l.balance]
    <3>1. n.rewards = l.rewards
      BY <2>1
    <3>2. m = [n EXCEPT !.rewards[v] = s]
      BY <2>1, <3>1 DEF InitializeValidator
    <3> HIDE DEF s
    <3> QED
      BY <2>1, <3>2
  <2>2. l = [rewards |-> l.rewards, start |-> l.start, pool |-> l.pool, balance |-> l.balance]
    BY DEF Sane
  <2>3. DonateOutstanding(l, v)
          = [rewards |-> l.rewards, start |-> l.start,
             pool |-> l.pool + l.rewards[v].outstanding, balance |-> l.balance]
    BY <2>2 DEF DonateOutstanding
  <2> QED
    BY <2>1, <2>2, <2>3
<1>2. s = FirstRecords
  BY DEF FirstRecords
<1> HIDE DEF s
<1>3. v \in DOMAIN l.rewards
  BY DEF Sane
<1> QED
  BY <1>1, <1>2, <1>3

LEMMA FirstAgain ==
    ASSUME NEW x
    PROVE  Put(Put(Empty, 0, x), 0, x) = Put(Empty, 0, x)
<1>1. Put(Empty, 0, x) = [y \in {0} |-> x]
  BY DEF Put, Empty
<1>2. Put(Put(Empty, 0, x), 0, x) = [y \in {0} |-> x]
  BY <1>1 DEF Put
<1> QED
  BY <1>1, <1>2

LEMMA FirstCounts == Counted(FirstRecords, Empty)
<1>1. NoRecords.historical = Empty /\ NoRecords.slashes = {}
  BY DEF NoRecords
<1>2. Counted([outstanding |-> 0, commission |-> 0, current |-> 0, period |-> 1,
               historical  |-> Put(NoRecords.historical, 0, [ratio |-> 0, refs |-> 1]),
               slashes     |-> NoRecords.slashes], Empty)
  BY <1>1, FreshCounts
<1> QED
  BY <1>1, <1>2 DEF FirstRecords

LEMMA ReinitializeValidatorFitted ==
    ASSUME Fitted, Owned, Owned', UNCHANGED operator,
           NEW v \in todo, ReinitializeValidator(v)
    PROVE  Fitted'
<1> DEFINE m == ledger'
           live == (DOMAIN delegation \ pending)'
           h == Put(ledger.rewards[v].historical, 0, [ratio |-> 0, refs |-> 1])
<1>1. /\ stage = "validators"
      /\ m = InitializeValidator(DonateOutstanding(ledger, v), v)
      /\ todo' = todo \ {v} /\ UNCHANGED delegation
      /\ todo' = {} => stage' = "delegations" /\ pending' = DOMAIN delegation
  BY DEF ReinitializeValidator, ExportStep, stakingVars
<1>2. v = operator /\ todo' = {}
  BY <1>1, ZeroSets DEF Owned, Looping
<1>3. Sane(ledger, v)
  BY <1>2, OwnedFields
<1>4. ledger.rewards[v].historical = Empty /\ ledger.rewards[v].slashes = {}
  BY <1>1, <1>2 DEF Fitted
<1>5. h = Put(Empty, 0, [ratio |-> 0, refs |-> 1])
  BY <1>4
<1>6. h = Put(ledger.rewards[v].historical, 0, [ratio |-> 0, refs |-> 1])
  OBVIOUS
<1> HIDE DEF m, h
<1>7. m.rewards[v] = FirstRecords /\ m.start = ledger.start
  BY <1>1, <1>3, <1>4, <1>5, <1>6, RestartWrites
<1>8. live = {}
  BY <1>1, <1>2
<1>9. Infos(m, live, v) = Empty
  <2>1. {a \in Accounts : <<a, v>> \in live} = {}
    BY <1>8
  <2> QED
    BY <2>1 DEF Infos, Empty
<1>10. Periods(Empty) = Empty
  BY DEF Periods, Empty
<1>11. Counted(m.rewards[v], Periods(Infos(m, live, v)))
  BY <1>7, <1>9, <1>10, FirstCounts
<1>12. Rejoined'
  BY <1>2, <1>11 DEF Rejoined, m
<1>13. stage' = "delegations" /\ stage' \notin ServingStages
  BY <1>1, <1>2, ServingSets
<1>14. Known'
  BY <1>1 DEF Fitted, Known
<1> QED
  BY <1>12, <1>13, <1>14 DEF Fitted, PanicsOnlyForTheStranded

LEMMA ReinitializeDelegationFitted ==
    ASSUME Fitted, Owned, Owned', UNCHANGED operator,
           NEW k \in pending, ReinitializeDelegation(k[1], k[2])
    PROVE  Fitted'
<1> DEFINE d == k[1]
           v == k[2]
           r == ledger.rewards[operator]
           live == DOMAIN delegation \ pending
           infos == Infos(ledger, live, operator)
<1>1. /\ stage = "delegations" /\ Rejoined /\ FirstPair(<<d, v>>)
      /\ pending \subseteq DOMAIN delegation /\ k \in DOMAIN delegation
      /\ UNCHANGED allowed
  <2>1. stage = "delegations" /\ FirstPair(<<d, v>>) /\ UNCHANGED allowed
    BY DEF ReinitializeDelegation, ExportStep
  <2> QED
    BY <2>1 DEF Owned, Looping, Fitted
<1>2. k = <<d, v>> /\ d \in Accounts
  BY <1>1, OwnedFields DEF IsPartial
<1>3. CASE v # operator
  <2>1. v \in Vals \ DOMAIN validator
    BY <1>1, <1>3, OwnedFields DEF Fitted, Known
  <2>2. stage' = "panicked" /\ UNCHANGED <<pending, validator, delegation>>
    BY <2>1 DEF ReinitializeDelegation, MayBeforeDelegationCreated, Panics, stakingVars
  <2>3. FirstPair(k)' /\ k[2] \in (Vals \ DOMAIN validator)' /\ k \in pending'
    BY <1>1, <1>2, <2>1, <2>2 DEF FirstPair
  <2>4. PanicsOnlyForTheStranded'
    BY <2>3 DEF PanicsOnlyForTheStranded
  <2> QED
    BY <2>2, <2>4, LaterFitted
<1>4. CASE v = operator
  <2> DEFINE st == Periods(infos)
             t == validator[v].tokens
             stake == StakeOf(Staking, d, v)
             l == IncrementPeriod(ledger, v, t)
             m == ledger'
             e == EndPeriod(r, t)
             info == [period |-> e.period - 1, stake |-> stake, height |-> 0]
  <2>1. Counted(r, st) /\ t \in Nat /\ Sane(ledger, v) /\ v \in DOMAIN validator
    BY <1>1, <1>4, OwnedFields DEF Rejoined
  <2>2. Counted(e, st) /\ Untouched(e, st)
    <3> HIDE DEF r, st, t
    <3> QED
      BY <2>1, EndPeriodCounts
  <2>3. MayIncrementPeriod(ledger, v)
    <3>1. Refs(r, r.period - 1) > 0
      <4>1. r.period - 1 \in Nat /\ r.period \in Nat \ {0}
        BY <2>1 DEF Counted
      <4> HIDE DEF r, st
      <4> QED
        BY <2>1, <4>1 DEF Counted, One
    <3> QED
      BY <1>4, <3>1 DEF MayIncrementPeriod, MayDecrementRef, Refs
  <2>4. /\ m = InitializeDelegation(l, d, v, stake, 0)
        /\ pending' = pending \ {<<d, v>>}
        /\ UNCHANGED <<stage, delegation>>
    BY <1>1, <2>1, <2>3 DEF ReinitializeDelegation, MayBeforeDelegationCreated, stakingVars
  <2>5. l.rewards[v] = e /\ l.start = ledger.start /\ Sane(l, v)
    <3>1. l = IncrementPeriod(ledger, v, t)
      OBVIOUS
    <3> HIDE DEF l, t
    <3>2. l.rewards[v] = EndPeriod(ledger.rewards[v], t) /\ l.start = ledger.start
      BY <2>1, <3>1, PeriodWrites
    <3>3. Sane(l, v) /\ Even(ledger, l, v) /\ l.start = ledger.start
      BY <2>1, <2>3, <3>1, IncrementPeriodEven
    <3> QED
      BY <1>4, <3>2, <3>3
  <2>6. /\ m.rewards[v] = IncrementRef(e, e.period - 1)
        /\ m.start = Put(l.start, <<d, v>>, info)
    <3> HIDE DEF l, m, stake, e
    <3>1. /\ m.rewards[v] = IncrementRef(l.rewards[v], l.rewards[v].period - 1)
          /\ m.start = Put(l.start, <<d, v>>, [period |-> l.rewards[v].period - 1,
                                               stake |-> stake, height |-> 0])
      BY <2>4, <2>5, StartWrites
    <3> QED
      BY <2>5, <3>1
  <2> HIDE DEF l, m, e, info, r, t, stake
  <2> DEFINE more == live \union {<<d, v>>}
  <2>7. /\ DOMAIN delegation \ (pending \ {<<d, v>>}) = more /\ <<d, v>> \notin live
        /\ live \subseteq DOMAIN ledger.start
    BY <1>1, <1>2, OwnedFields
  <2> HIDE DEF live, v, d
  <2>8. Infos(m, more, v) = Put(infos, d, info)
    BY <1>2, <1>4, <2>5, <2>6, <2>7, InfosStarted
  <2>9. Periods(Put(infos, d, info)) = Put(st, d, e.period - 1) /\ d \notin DOMAIN st
    <3>1. info.period = e.period - 1
      BY DEF info
    <3>2. d \notin DOMAIN infos
      BY <1>4, <2>7 DEF Infos
    <3> HIDE DEF infos
    <3> QED
      BY <3>1, <3>2 DEF Periods, Put
  <2> HIDE DEF st, infos, more
  <2>10. Counted(m.rewards[v], Periods(Infos(m, more, v)))
    <3>1. Counted(IncrementRef(e, e.period - 1), Put(st, d, e.period - 1))
      BY <2>2, <2>9, StartCounts
    <3> QED
      BY <2>6, <2>8, <2>9, <3>1
  <2>11. Rejoined'
    <3>1. (DOMAIN delegation \ pending)' = more
      BY <2>4, <2>7
    <3> QED
      BY <1>4, <2>10, <3>1 DEF Rejoined, m
  <2>12. stage' = "delegations" /\ stage' \notin ServingStages
    BY <1>1, <2>4, ServingSets
  <2>13. Known'
    BY <2>4 DEF Fitted, Known
  <2> QED
    BY <2>11, <2>12, <2>13 DEF Fitted, PanicsOnlyForTheStranded
<1> QED
  BY <1>3, <1>4

LEMMA ResetFitted ==
    ASSUME Fitted, UNCHANGED operator, ResetEntries \/ ResetValidators
    PROVE  Fitted'
<1>1. stage' \in {"resetting", "powers"} /\ UNCHANGED delegation
  BY DEF ResetEntries, ResetValidators
<1> QED
  BY <1>1, LaterFitted

\* The only validator is in the index: what it is refused for is the list.
LEMMA ApplyPowersFitted ==
    ASSUME Fitted, Owned, UNCHANGED operator, ApplyPowers
    PROVE  Fitted'
<1>1. /\ stage = "powers" /\ stage' \in {"infos", "panicked"} /\ UNCHANGED delegation
      /\ UNCHANGED allowed
      /\ stage' = "panicked" => ~ MayApply(powerIndex, validator) /\ UNCHANGED last
  BY DEF ApplyPowers, exportVars
<1>2. ASSUME stage' = "panicked"
      PROVE  PanicsOnlyForTheStranded'
  <2>1. powerIndex = {operator} /\ last = {operator}
    BY <1>1, ZeroSets DEF Owned, Seated
  <2>2. validator[operator].jailed
    BY <1>1, <1>2, <2>1 DEF MayApply, Visited
  <2>3. Omitted(operator)
    BY <1>1, <2>2 DEF Owned, Seated
  <2>4. allowed' # {} /\ ~ LookedAt' \subseteq allowed'
    BY <1>1, <1>2, <2>1, <2>3 DEF Omitted, LookedAt
  <2> QED
    BY <2>4 DEF PanicsOnlyForTheStranded
<1> QED
  BY <1>1, <1>2, LaterFitted

LEMMA LastStepsFitted ==
    ASSUME Fitted, UNCHANGED operator, ResetSigningInfos \/ WriteGenesis
    PROVE  Fitted'
<1>1. stage' \in {"writing", "exported"} /\ UNCHANGED delegation
  BY DEF ResetSigningInfos, WriteGenesis, stakingVars
<1> QED
  BY <1>1, LaterFitted

LEMMA ExportFitted ==
    ASSUME Fitted, Owned, Owned', UNCHANGED operator, ExportMoves
    PROVE  Fitted'
<1>1. CASE \E zero \in ZeroHeight, list \in JailLists : BeginExport(zero, list)
  BY <1>1, BeginExportFitted
<1>2. CASE \E v \in todo : WithdrawAllCommission(v)
  BY <1>2, CommissionFitted
<1>3. CASE \E k \in pending : WithdrawAllRewards(k[1], k[2])
  BY <1>3, RewardsFitted
<1>4. CASE ClearPeriods
  BY <1>4, ClearPeriodsFitted
<1>5. CASE \E v \in todo : ReinitializeValidator(v)
  BY <1>5, ReinitializeValidatorFitted
<1>6. CASE \E k \in pending : ReinitializeDelegation(k[1], k[2])
  BY <1>6, ReinitializeDelegationFitted
<1>7. CASE ResetEntries \/ ResetValidators
  BY <1>7, ResetFitted
<1>8. CASE ApplyPowers
  BY <1>8, ApplyPowersFitted
<1>9. CASE ResetSigningInfos \/ WriteGenesis
  BY <1>9, LastStepsFitted
<1> QED
  BY <1>1, <1>2, <1>3, <1>4, <1>5, <1>6, <1>7, <1>8, <1>9
     DEF ExportMoves, PrepForZeroHeightGenesis

----------------------------------------------------------------------------
\* The command with a new operator.

\* A new operator has no records, and the hook starts them.
LEMMA OurFirstRecords ==
    ASSUME NEW l, LedgerOK(l), NEW op, op \notin Vals,
           NEW n, n = [l EXCEPT !.rewards = Put(@, op, RecordsOf(l, op))],
           NEW m, m = InitializeValidator(n, op)
    PROVE  m.rewards[op] = FirstRecords
<1> DEFINE f == Put(l.rewards, op, NoRecords)
           s == FirstRecords
<1>1. DOMAIN l.rewards = Vals
  BY LedgerTypes
<1>2. RecordsOf(l, op) = NoRecords
  BY <1>1 DEF RecordsOf
<1>3. l = [rewards |-> l.rewards, start |-> l.start, pool |-> l.pool, balance |-> l.balance]
  BY DEF LedgerOK
<1>4. n = [rewards |-> f, start |-> l.start, pool |-> l.pool, balance |-> l.balance]
  <2> HIDE DEF f
  <2>1. n = [l EXCEPT !.rewards = f]
    BY <1>2 DEF f
  <2> QED
    BY <1>3, <2>1
<1>5. op \in DOMAIN f /\ f[op] = NoRecords /\ f = [u \in DOMAIN f |-> f[u]]
  BY DEF Put
<1>6. NoRecords.historical = Empty /\ NoRecords.slashes = {}
  BY DEF NoRecords
<1> HIDE DEF f
<1>7. m = [n EXCEPT !.rewards[op] = s]
  <2>1. n.rewards[op].historical = Empty /\ n.rewards[op].slashes = {}
    BY <1>4, <1>5, <1>6
  <2>2. s = [outstanding |-> 0, commission |-> 0, current |-> 0, period |-> 1,
             historical |-> Put(n.rewards[op].historical, 0, [ratio |-> 0, refs |-> 1]),
             slashes |-> n.rewards[op].slashes]
    BY <2>1 DEF FirstRecords
  <2> HIDE DEF s
  <2> QED
    BY <2>2 DEF InitializeValidator
<1> HIDE DEF s
<1>8. m = [rewards |-> [f EXCEPT ![op] = s], start |-> l.start, pool |-> l.pool,
           balance |-> l.balance]
  <2> DEFINE k == [rewards |-> f, start |-> l.start, pool |-> l.pool, balance |-> l.balance]
  <2>1. m = [k EXCEPT !.rewards[op] = s]
    BY <1>4, <1>7
  <2>2. k.rewards = f /\ [k EXCEPT !.rewards = [f EXCEPT ![op] = s]]
                         = [rewards |-> [f EXCEPT ![op] = s], start |-> l.start,
                            pool |-> l.pool, balance |-> l.balance]
    OBVIOUS
  <2> HIDE DEF k
  <2> QED
    BY <2>1, <2>2
<1> QED
  BY <1>5, <1>8 DEF s

\* The command's shares alone, for the command's tokens.
LEMMA NobodyIssued ==
    ASSUME NEW f, f = [d \in Accounts |-> 0]
    PROVE  Issued(f, VotingPower, InitialShares)
<1>1. \A d \in Accounts : f[d] = 0
  OBVIOUS
<1>2. Sum(f, Accounts) = 0
  BY <1>1, FiniteLemma, SumOfZeros
<1>3. VotingPower \in Nat /\ InitialShares \in Nat
  BY TestnetAssumption
<1>4. f \in [Accounts -> Nat]
  OBVIOUS
<1> HIDE DEF Issued
<1> QED
  BY <1>2, <1>3, <1>4 DEF Issued

LEMMA FirstServed ==
    ASSUME NEW m, NEW v, m.rewards[v] = FirstRecords,
           NEW live, \A a \in Accounts : <<a, v>> \notin live,
           NEW f, NEW t, NEW n, Issued(f, t, n), NEW h \in Nat
    PROVE  Served(m, live, v, f, t, n, h)
<1>1. NoRecords.historical = Empty /\ NoRecords.slashes = {}
  BY DEF NoRecords
<1>2. FirstRecords
        = [outstanding |-> 0, commission |-> 0, current |-> 0, period |-> 1,
           historical  |-> Put(NoRecords.historical, 0, [ratio |-> 0, refs |-> 1]),
           slashes     |-> NoRecords.slashes]
  BY <1>1 DEF FirstRecords
<1>3. Serves(FirstRecords, Empty, f, t, n, h)
  <2> DEFINE r == FirstRecords
             x == NoRecords
  <2>1. /\ x.historical = Empty /\ x.slashes = {}
        /\ r = [outstanding |-> 0, commission |-> 0, current |-> 0, period |-> 1,
                historical |-> Put(x.historical, 0, [ratio |-> 0, refs |-> 1]),
                slashes |-> x.slashes]
    BY <1>1, <1>2
  <2> HIDE DEF r, x
  <2>2. Serves(r, Empty, f, t, n, h)
    BY <2>1, ServesFresh
  <2> QED
    BY <2>2 DEF r
<1>4. Infos(m, live, v) = Empty
  <2>1. {a \in Accounts : <<a, v>> \in live} = {}
    OBVIOUS
  <2> QED
    BY <2>1 DEF Infos, Empty
<1> QED
  BY <1>3, <1>4 DEF Served

\* Nobody has delegated to a new operator before it has a validator.
LEMMA AddOurValidatorFitted ==
    ASSUME TakenOver, OInv, Owned', Fresh, AddOurValidator
    PROVE  Fitted'
<1> DEFINE u == Staking'
           f == SharesTo(delegation, operator)
           w == [ledger EXCEPT !.rewards = Put(@, operator, RecordsOf(ledger, operator))]
           m == InitializeValidator(w, operator)
<1>1. /\ stage = "creating" /\ stage' = "recording"
      /\ validator' = Put(validator, operator, newVal) /\ ledger' = m
      /\ UNCHANGED <<height, operator, delegation, bondedPool>>
  BY DEF AddOurValidator, CommandStep
<1>2. /\ u.validator = validator' /\ u.delegation = delegation /\ u.ledger = m
      /\ u.bondedPool = bondedPool
  BY <1>1 DEF Staking
<1>3. /\ LedgerOK(ledger) /\ IsPartial(delegation, Pairs, Nat) /\ operator \notin Vals
      /\ bondedPool \in Nat /\ height \in Nat
  BY DEF TakenOver, Fresh
<1>4. \A a \in Accounts : <<a, operator>> \notin DOMAIN delegation
  BY <1>3 DEF IsPartial, Pairs
<1>5. m.rewards[operator] = FirstRecords
  BY <1>3, OurFirstRecords
<1>6. f = [d \in Accounts |-> 0]
  BY <1>4 DEF SharesTo
<1> HIDE DEF f, w, m
<1>7. Issued(f, VotingPower, InitialShares)
  BY <1>6, NobodyIssued
<1>8. Served(m, DOMAIN delegation, operator, f, VotingPower, InitialShares, height)
  BY <1>3, <1>4, <1>5, <1>7, FirstServed
<1>9. /\ u.validator[operator].tokens = VotingPower
      /\ u.validator[operator].shares = InitialShares
  BY <1>1, <1>2 DEF Put, newVal
<1>10. Lone(u, operator)
  BY <1>1 DEF Owned
<1> HIDE DEF u
<1>11. Serving(u, operator, height)
  BY <1>2, <1>8, <1>9, <1>10 DEF Serving, f
<1>12. Repayable(u, operator)
  <2>1. VotingPower \in Nat /\ InitialShares \in Nat
    BY TestnetAssumption
  <2>2. InitialShares * VotingPower \in Int /\ VotingPower <= bondedPool + VotingPower
    BY <1>3, <2>1, ProductType
  <2> QED
    BY <1>2, <1>9, <2>2 DEF Repayable
<1>13. Known'
  BY <1>1, <1>3 DEF Known, IsPartial, Pairs
<1>14. /\ (Serving(Staking, operator, height))' /\ (Repayable(Staking, operator))'
  BY <1>1, <1>11, <1>12 DEF Serving, Repayable, u
<1>15. ledger'.rewards[operator'] = FirstRecords
  BY <1>1, <1>5
<1> QED
  BY <1>1, <1>13, <1>14, <1>15 DEF Fitted, PanicsOnlyForTheStranded

LEMMA InitializeRecordsFitted ==
    ASSUME Fitted, Owned, Owned', UNCHANGED operator, InitializeRecords
    PROVE  Fitted'
<1> DEFINE f == SharesTo(delegation, operator)
           t == validator[operator].tokens
           n == validator[operator].shares
           l == ledger'
           x == [ratio |-> 0, refs |-> 1]
           h == Put(ledger.rewards[operator].historical, 0, x)
<1>1. /\ stage = "recording" /\ stage' = "registering" /\ height' = height
      /\ UNCHANGED <<validator, delegation, bondedPool>>
      /\ l = InitializeValidator(ledger, operator)
  BY DEF InitializeRecords, CommandStep, stakingVars
<1>2. stage \in ServingStages /\ stage' \in ServingStages \ {"recording"}
  BY <1>1, ServingSets
<1>3. /\ Sane(ledger, operator)
      /\ Served(ledger, DOMAIN delegation, operator, f, t, n, height)
  BY <1>2, FittedFields
<1>4. ledger.rewards[operator] = FirstRecords
  BY <1>1 DEF Fitted
<1>5. /\ FirstRecords.historical = Put(Empty, 0, x) /\ FirstRecords.slashes = {}
  BY DEF FirstRecords
<1>6. h = Put(Empty, 0, x)
  BY <1>4, <1>5, FirstAgain
<1>7. h = Put(ledger.rewards[operator].historical, 0, [ratio |-> 0, refs |-> 1])
  OBVIOUS
<1>8. h = Put(Empty, 0, [ratio |-> 0, refs |-> 1])
  BY <1>6
<1>9. ledger.rewards[operator].slashes = {}
  BY <1>4, <1>5
<1> HIDE DEF f, t, n, l, x, h
<1>10. l.rewards[operator] = FirstRecords /\ l.start = ledger.start
  BY <1>1, <1>3, <1>7, <1>8, <1>9, RestartWrites
<1>11. Served(l, DOMAIN delegation, operator, f, t, n, height)
  <2>1. Serves(ledger.rewards[operator], Infos(ledger, DOMAIN delegation, operator), f, t, n,
               height)
    BY <1>3 DEF Served
  <2> QED
    BY <1>4, <1>10, <2>1, ServedBy
<1>12. l.rewards[operator].slashes = ledger.rewards[operator].slashes
  BY <1>4, <1>10
<1> QED
  BY <1>1, <1>2, <1>11, <1>12, StillFitted DEF f, t, n, l

LEMMA LaterCommandFitted ==
    ASSUME Fitted, Owned, Owned', SetSigningInfo \/ FundAccount \/ StartNode
    PROVE  Fitted'
<1>1. /\ stage \in {"registering", "funding"} /\ stage' \in {"funding", "exited", "committed"}
      /\ UNCHANGED <<operator, validator, delegation, bondedPool, ledger, height>>
  BY DEF SetSigningInfo, FundAccount, StartNode, CommandStep, testnetVars, stakingVars
<1>2. CASE stage' = "exited"
  BY <1>1, <1>2, LaterFitted
<1>3. CASE stage' # "exited"
  <2>1. stage \in ServingStages /\ stage' \in ServingStages \ {"recording"}
    BY <1>1, <1>3, ServingSets
  <2> QED
    BY <1>1, <2>1, FittedFields, StillFitted
<1> QED
  BY <1>2, <1>3

----------------------------------------------------------------------------
\* The invariant through every step.

LEMMA FittedStutter ==
    ASSUME Fitted, UNCHANGED allVars
    PROVE  Fitted'
BY DEF Fitted, Known, Serving, Repayable, Rejoined, PanicsOnlyForTheStranded, Fresh,
       LookedAt, FirstPair, Staking, allVars, vars, chainVars, stakingVars, exportVars,
       testnetVars

LEMMA FittedNext ==
    ASSUME TInv, TInv', NInv, [TestnetNext]_allVars
    PROVE  NInv'
<1> SUFFICES ASSUME Late', Fresh' PROVE Fitted'
  BY DEF NInv
<1>1. Owned'
  BY DEF TInv, Stores
<1>2. CASE UNCHANGED testnetVars /\ (ChainStep \/ ExportMoves)
  <2>1. /\ stage \in BlockStages \union ExportStages /\ operator' = operator
        /\ operator # NoOperator /\ Fresh
    BY <1>2, BlockStaysInBlock, ExportStaysInExport, CommandSets DEF testnetVars, Late, Fresh
  <2>2. Late /\ Fitted /\ Owned
    BY <2>1, CommandSets DEF TInv, Stores, Late, NInv
  <2>3. CASE ChainStep
    <3>1. stage \in BlockStages
      BY <2>3, BlockStaysInBlock
    <3>2. validator[operator].status = "bonded"
      BY <2>1, <3>1, BondedInBlock DEF TInv
    <3> QED
      BY <1>1, <2>1, <2>2, <2>3, <3>2, ChainStepFitted
  <2>4. CASE ExportMoves
    BY <1>1, <2>1, <2>2, <2>4, ExportFitted
  <2> QED
    BY <1>2, <2>3, <2>4
<1>3. CASE \E op \in Operators, flag \in FundFlags : getCommandArgs(op, flag)
  BY <1>3 DEF getCommandArgs, Late
<1>4. CASE RemoveAllValidators
  BY <1>4 DEF RemoveAllValidators, CommandStep, Late
<1>5. CASE AddOurValidator
  <2>1. stage = "creating" /\ operator' = operator
    BY <1>5 DEF AddOurValidator, CommandStep
  <2>2. TakenOver /\ OInv /\ Fresh
    BY <2>1 DEF TInv, Stores, Late, Fresh
  <2> QED
    BY <1>1, <1>5, <2>2, AddOurValidatorFitted
<1>6. CASE InitializeRecords \/ SetSigningInfo \/ FundAccount \/ StartNode
  <2>1. stage \in Ours /\ operator' = operator
    BY <1>6 DEF InitializeRecords, SetSigningInfo, FundAccount, StartNode, CommandStep, Ours,
                testnetVars
  <2>2. Late /\ Fitted /\ Owned
    BY <2>1 DEF TInv, Stores, Late, Fresh, NInv, Ours
  <2> QED
    BY <1>1, <1>6, <2>1, <2>2, InitializeRecordsFitted, LaterCommandFitted
<1>7. CASE UNCHANGED allVars
  <2>1. Late /\ Fresh
    BY <1>7 DEF Late, Fresh, allVars, vars, chainVars, testnetVars
  <2> QED
    BY <1>7, <2>1, FittedStutter DEF NInv
<1> QED
  BY <1>2, <1>3, <1>4, <1>5, <1>6, <1>7 DEF TestnetNext, ExportMoves, initAppForTestnet

LEMMA NewValidatorInvariance == TestnetSpec => [](TInv /\ NInv)
<1>1. TestnetInit => NInv
  BY DEF TestnetInit, NInv, Late
<1>2. TInv /\ TInv' /\ NInv /\ [TestnetNext]_allVars => NInv'
  BY FittedNext
<1> QED
  BY <1>1, <1>2, TestnetInvariance, PTL DEF TestnetSpec

----------------------------------------------------------------------------
\* What the invariant says of a validator that a new operator was given.

LEMMA ConvertedIsFitted ==
    ASSUME TInv, NInv, Converted, Fresh
    PROVE  Fitted /\ Owned /\ stage \in ServingStages
<1>1. Late
  BY CommandSets DEF Converted, Late
<1> QED
  BY <1>1 DEF TInv, Stores, NInv, ServingStages, Converted

\* What everyone who delegates to it would be paid back.
Redeemed ==
    [d \in Accounts |-> IF <<d, operator>> \in DOMAIN delegation
                        THEN TokensRemoved(Staking, operator, delegation[<<d, operator>>])
                        ELSE 0]

RedeemedSummed(it) ==
    it = [T \in SUBSET Accounts |->
            IF T = {} THEN 0
            ELSE (IF <<Chosen(T), operator>> \in DOMAIN delegation
                  THEN TokensRemoved(Staking, operator, delegation[<<Chosen(T), operator>>])
                  ELSE 0) + it[T \ {Chosen(T)}]]

LEMMA RedeemableIsSum ==
    NewDelegatorsRedeemable <=>
        (Converted /\ Fresh /\ ledger.rewards[operator].slashes = {}
            => Sum(Redeemed, Accounts) <= bondedPool)
<1> DEFINE f == Redeemed
<1>1. NewDelegatorsRedeemable <=>
        (Converted /\ Fresh /\ ledger.rewards[operator].slashes = {}
            => (CHOOSE it : RedeemedSummed(it))[Accounts] <= bondedPool)
  BY DEF NewDelegatorsRedeemable, MapThenSumSet, MapThenFoldSet, RedeemedSummed, Chosen
<1>2. \A d \in Accounts :
         f[d] = IF <<d, operator>> \in DOMAIN delegation
                THEN TokensRemoved(Staking, operator, delegation[<<d, operator>>]) ELSE 0
  BY DEF Redeemed
<1> HIDE DEF f
<1>3. ASSUME NEW T \in SUBSET Accounts, T # {}
      PROVE  f[Chosen(T)] = IF <<Chosen(T), operator>> \in DOMAIN delegation
                            THEN TokensRemoved(Staking, operator,
                                               delegation[<<Chosen(T), operator>>])
                            ELSE 0
  <2>1. Chosen(T) \in Accounts
    BY <1>3, ChosenIn
  <2> QED
    BY <1>2, <2>1
<1>4. \A it : RedeemedSummed(it) <=> Summed(f, Accounts, it)
  <2> SUFFICES ASSUME NEW it
               PROVE  [T \in SUBSET Accounts |->
                        IF T = {} THEN 0
                        ELSE (IF <<Chosen(T), operator>> \in DOMAIN delegation
                              THEN TokensRemoved(Staking, operator,
                                                 delegation[<<Chosen(T), operator>>])
                              ELSE 0) + it[T \ {Chosen(T)}]]
                       = [T \in SUBSET Accounts |->
                            IF T = {} THEN 0 ELSE f[Chosen(T)] + it[T \ {Chosen(T)}]]
    BY DEF RedeemedSummed, Summed
  <2> QED
    BY <1>3
<1>5. (CHOOSE it : RedeemedSummed(it)) = CHOOSE it : Summed(f, Accounts, it)
  BY <1>4
<1>6. Sum(f, Accounts) = (CHOOSE it : RedeemedSummed(it))[Accounts]
  BY <1>5, SumUnfolds
<1> QED
  BY <1>1, <1>6 DEF f

\* A sum of multiples.
LEMMA SumTimes ==
    ASSUME NEW S, IsFiniteSet(S), NEW g, NEW h, NEW c \in Int,
           \A y \in S : g[y] \in Int /\ h[y] \in Int,
           \A y \in S : g[y] = c * h[y]
    PROVE  Sum(g, S) = c * Sum(h, S)
<1> DEFINE f == [y \in S |-> 0]
<1>1. \A y \in S : f[y] = 0
  OBVIOUS
<1> HIDE DEF f
<1>2. \A y \in S : f[y] \in Int /\ g[y] \in Int /\ h[y] \in Int
  BY <1>1
<1>3. \A y \in S : g[y] = f[y] + c * h[y]
  BY <1>1
<1>4. Sum(g, S) = Sum(f, S) + c * Sum(h, S)
  BY <1>2, <1>3, SumCombined
<1>5. Sum(f, S) = 0
  BY <1>1, SumOfZeros
<1>6. Sum(g, S) \in Int /\ Sum(h, S) \in Int
  BY SumType
<1> QED
  BY <1>4, <1>5, <1>6

\* Shares worth what the command gave for its own pay back at most what the
\* delegations brought in.
LEMMA RedeemedBound ==
    ASSUME NEW f, NEW t, NEW n, Issued(f, t, n), n * VotingPower <= InitialShares * t,
           NEW g, \A d \in Accounts : g[d] \in Nat /\ n * g[d] <= t * f[d]
    PROVE  Sum(g, Accounts) <= t - VotingPower
<1> DEFINE total == Sum(g, Accounts)
           sum == Sum(f, Accounts)
           zero == [d \in Accounts |-> 0]
           scaled == [d \in Accounts |-> n * g[d]]
<1>1. /\ t \in Nat /\ n \in Nat \ {0} /\ IsFiniteSet(Accounts) /\ sum \in Nat
      /\ \A d \in Accounts : f[d] \in Nat
  BY IssuedTypes
<1>2. sum + InitialShares = n /\ InitialShares \in Nat /\ VotingPower \in Nat
  BY TestnetAssumption DEF Issued
<1>3. Sum(zero, Accounts) = 0 /\ total \in Nat
  <2>1. \A d \in Accounts : zero[d] = 0
    OBVIOUS
  <2> QED
    BY <1>1, <2>1, SumOfZeros, SumOfNaturals
<1>4. \A d \in Accounts : n * g[d] \in Nat /\ scaled[d] = n * g[d] /\ zero[d] = 0
  BY <1>1, ProductType
<1> HIDE DEF zero, scaled
<1>5. \A d \in Accounts : zero[d] \in Int /\ scaled[d] \in Int /\ f[d] \in Int /\ g[d] \in Int
  BY <1>1, <1>4
<1>6. Sum(scaled, Accounts) <= Sum(zero, Accounts) + t * sum
  <2>1. /\ IsFiniteSet(Accounts) /\ t \in Int
        /\ \A d \in Accounts : zero[d] \in Int /\ scaled[d] \in Int /\ f[d] \in Int
        /\ \A d \in Accounts : scaled[d] <= zero[d] + t * f[d]
    <3>1. \A d \in Accounts : scaled[d] <= zero[d] + t * f[d]
      <4> SUFFICES ASSUME NEW d \in Accounts PROVE scaled[d] <= zero[d] + t * f[d]
        OBVIOUS
      <4> DEFINE y == t * f[d]
      <4>1. y \in Nat
        BY <1>1, ProductType
      <4>2. scaled[d] <= y /\ zero[d] = 0
        BY <1>4
      <4> HIDE DEF y
      <4>3. scaled[d] <= zero[d] + y
        BY <4>1, <4>2
      <4> QED
        BY <4>3 DEF y
    <3> QED
      BY <1>1, <1>5, <3>1
  <2>2. Sum(scaled, Accounts) <= Sum(zero, Accounts) + t * Sum(f, Accounts)
    BY ONLY <2>1, SumBound
  <2> QED
    BY <2>2
<1>7. Sum(scaled, Accounts) = Sum(zero, Accounts) + n * total
  <2>1. \A d \in Accounts : scaled[d] \in Int /\ g[d] \in Int
    BY <1>5
  <2>2. \A d \in Accounts : scaled[d] = n * g[d]
    BY <1>4
  <2>3. n \in Int /\ IsFiniteSet(Accounts)
    BY <1>1
  <2>4. Sum(scaled, Accounts) = n * Sum(g, Accounts)
    BY ONLY <2>1, <2>2, <2>3, SumTimes
  <2> QED
    <3>1. n * total \in Nat
      BY <1>1, <1>3, ProductType
    <3> QED
      BY <1>3, <2>4, <3>1
<1> HIDE DEF sum, total
<1>8. n * total <= t * sum
  <2>1. n * total \in Int /\ t * sum \in Int
    BY <1>1, <1>3, ProductType
  <2> QED
    BY <1>3, <1>6, <1>7, <2>1
<1>9. t * sum <= n * (t - VotingPower)
  <2>1. t * sum = t * n - InitialShares * t
    <3>1. sum = n - InitialShares
      BY <1>1, <1>2
    <3> QED
      BY <1>1, <1>2, <3>1
  <2>2. n * (t - VotingPower) = t * n - n * VotingPower
    BY <1>1, <1>2
  <2>3. t * n \in Int /\ InitialShares * t \in Int /\ n * VotingPower \in Int
    BY <1>1, <1>2, ProductType
  <2> QED
    BY <2>1, <2>2, <2>3
<1>10. total <= t - VotingPower
  <2>1. t - VotingPower \in Int /\ total \in Int
    BY <1>1, <1>2, <1>3
  <2>2. n * total \in Int /\ t * sum \in Int /\ n * (t - VotingPower) \in Int
    BY <1>1, <2>1, ProductType
  <2>3. n * total <= n * (t - VotingPower)
    BY <1>8, <1>9, <2>2
  <2> QED
    BY <1>1, <2>1, <2>3, Cancels
<1> QED
  BY <1>10 DEF total

\* No delegation has all the shares: each is paid its part, rounded down.
LEMMA RedeemedParts ==
    ASSUME Fitted, Owned, stage \in ServingStages,
           NEW f, f = SharesTo(delegation, operator),
           NEW t, t = validator[operator].tokens, NEW n, n = validator[operator].shares,
           NEW d \in Accounts
    PROVE  Redeemed[d] \in Nat /\ n * Redeemed[d] <= t * f[d]
<1>1. /\ Issued(f, t, n) /\ t \in Nat /\ n \in Nat \ {0}
  BY FittedFields
<1>2. f[d] \in Nat /\ f[d] < n
  BY <1>1, IssuedTypes
<1>3. CASE <<d, operator>> \in DOMAIN delegation
  <2> DEFINE x == f[d]
             y == Redeemed[d]
  <2>1. x = delegation[<<d, operator>>]
    BY <1>3 DEF SharesTo
  <2>2. y = (x * t) \div n
    <3>1. y = TokensRemoved(Staking, operator, x)
      BY <1>3, <2>1 DEF Redeemed
    <3>2. x # n
      BY <1>1, <1>2
    <3> QED
      BY <3>1, <3>2, StakingFields DEF TokensRemoved
  <2>3. x \in Nat
    BY <1>2
  <2> HIDE DEF x, y
  <2>4. x * t \in Nat
    BY <1>1, <2>3, ProductType
  <2>5. y \in Nat /\ n * y <= x * t
    <3> DEFINE z == x * t
    <3>1. z \in Nat /\ y = z \div n
      BY <2>2, <2>4
    <3> HIDE DEF z
    <3>2. y \in Nat /\ n * y <= z
      BY <1>1, <3>1
    <3> QED
      BY <3>2 DEF z
  <2>6. x * t = t * x
    BY <1>1, <2>3
  <2> QED
    BY <2>5, <2>6 DEF x, y
<1>4. CASE <<d, operator>> \notin DOMAIN delegation
  <2>1. Redeemed[d] = 0
    BY <1>4 DEF Redeemed
  <2>2. n * 0 = 0 /\ t * f[d] \in Nat
    BY <1>1, <1>2, ProductType
  <2> QED
    BY <2>1, <2>2
<1> QED
  BY <1>3, <1>4

LEMMA OpenRecords ==
    ASSUME TInv, NInv
    PROVE  NewRecordsCounted
<1> SUFFICES ASSUME Converted, Fresh,
                    NEW p \in 0 .. ledger.rewards[operator].period
             PROVE  LET r == ledger.rewards[operator] IN
                    Record(r, p).refs =
                      One(\E d \in Accounts :
                            /\ <<d, operator>> \in DOMAIN ledger.start
                            /\ ledger.start[<<d, operator>>].period = p)
                      + One(\E e \in r.slashes : e.period = p)
                      + One(p = r.period - 1)
  BY DEF NewRecordsCounted
<1> DEFINE r == ledger.rewards[operator]
           infos == Infos(ledger, DOMAIN delegation, operator)
           st == Periods(infos)
<1>1. Fitted /\ Owned /\ stage \in ServingStages
  BY ConvertedIsFitted
<1>2. /\ Served(ledger, DOMAIN delegation, operator, SharesTo(delegation, operator),
                validator[operator].tokens, validator[operator].shares, height)
      /\ DOMAIN ledger.start = DOMAIN delegation
  BY <1>1, FittedFields
<1>3. Counted(r, st)
  BY <1>2 DEF Served, Serves
<1>4. (\E d \in DOMAIN st : st[d] = p)
        <=> \E d \in Accounts : /\ <<d, operator>> \in DOMAIN ledger.start
                                /\ ledger.start[<<d, operator>>].period = p
  <2>1. DOMAIN st = {a \in Accounts : <<a, operator>> \in DOMAIN ledger.start}
    BY <1>2 DEF Periods, Infos
  <2>2. \A d \in DOMAIN st : st[d] = ledger.start[<<d, operator>>].period
    BY <1>2 DEF Periods, Infos
  <2> QED
    BY <2>1, <2>2
<1>5. p \in Nat
  BY <1>3 DEF Counted
<1> HIDE DEF r, st
<1>6. Refs(r, p) = One(\E d \in DOMAIN st : st[d] = p) + One(\E e \in r.slashes : e.period = p)
                   + One(p = r.period - 1)
  BY <1>3, <1>5 DEF Counted
<1> QED
  BY <1>4, <1>6 DEF Refs, r

LEMMA OpenWithdrawals ==
    ASSUME TInv, NInv
    PROVE  NewDelegatorsCanWithdraw
<1> SUFFICES ASSUME Converted, Fresh, NEW d \in Accounts,
                    <<d, operator>> \in DOMAIN delegation
             PROVE  MayWithdraw(ledger, d, operator, validator[operator].tokens, height,
                                StakeOf(Staking, d, operator))
  BY DEF NewDelegatorsCanWithdraw
<1> DEFINE s == Staking
<1>1. Fitted /\ Owned /\ stage \in ServingStages
  BY ConvertedIsFitted
<1>2. /\ Serving(s, operator, height) /\ s.validator = validator
      /\ s.delegation = delegation /\ s.ledger = ledger
  BY <1>1, FittedFields
<1> HIDE DEF s
<1>3. Hookable(s, d, operator, height)
  BY <1>2, HookedServed
<1> QED
  BY <1>2, <1>3 DEF Hookable, s

LEMMA OpenRedemptions ==
    ASSUME TInv, NInv
    PROVE  NewDelegatorsRedeemable
<1> SUFFICES ASSUME Converted, Fresh, ledger.rewards[operator].slashes = {}
             PROVE  Sum(Redeemed, Accounts) <= bondedPool
  BY RedeemableIsSum
<1> DEFINE f == SharesTo(delegation, operator)
           t == validator[operator].tokens
           n == validator[operator].shares
           total == Sum(Redeemed, Accounts)
<1>1. Fitted /\ Owned /\ stage \in ServingStages
  BY ConvertedIsFitted
<1>2. /\ Repayable(Staking, operator) /\ Issued(f, t, n) /\ t \in Nat /\ n \in Nat \ {0}
      /\ bondedPool \in Nat
  BY <1>1, FittedFields
<1>3. n * VotingPower <= InitialShares * t /\ t <= bondedPool + VotingPower
  BY <1>2, StakingFields DEF Repayable
<1>4. \A d \in Accounts : Redeemed[d] \in Nat /\ n * Redeemed[d] <= t * f[d]
  BY <1>1, RedeemedParts
<1> HIDE DEF f, t, n
<1>5. total <= t - VotingPower
  BY <1>2, <1>3, <1>4, RedeemedBound
<1>6. VotingPower \in Nat
  BY TestnetAssumption
<1>7. total \in Nat
  BY <1>4, FiniteLemma, SumOfNaturals
<1> HIDE DEF total
<1> QED
  BY <1>2, <1>3, <1>5, <1>6, <1>7 DEF total

LEMMA OpenPanics ==
    ASSUME TInv, NInv
    PROVE  PanicsOnlyForTheStranded
<1> SUFFICES ASSUME stage = "panicked", Fresh
             PROVE  PanicsOnlyForTheStranded
  BY DEF PanicsOnlyForTheStranded
<1>1. CASE operator = NoOperator
  BY <1>1 DEF TInv, Stores, Ordinary, Active, PanicsOnlyForTheList, PanicsOnlyForTheStranded
<1>2. CASE operator # NoOperator
  BY <1>2 DEF NInv, Late, Fitted
<1> QED
  BY <1>1, <1>2

\* The reference counts of a new operator's records are as exact as those of a
\* validator that a transaction created, after every block, delegation, slash
\* and withdrawal: initializeValidator, which the command runs twice over the
\* records of AfterValidatorCreated, leaves no period too many (testnet.go:145-174).
THEOREM NewRecordsStayCounted == TestnetSpec => []NewRecordsCounted
<1>1. TInv /\ NInv => NewRecordsCounted
  BY OpenRecords
<1> QED
  BY <1>1, NewValidatorInvariance, PTL

\* Nobody who delegates to the validator that the command gave to a new operator
\* can be kept from their rewards by a panic of the rewards calculation, at any
\* step of a block, whatever shares the command gave to nobody (testnet.go:127-174).
THEOREM NewDelegatorsWithdraw == TestnetSpec => []NewDelegatorsCanWithdraw
<1>1. TInv /\ NInv => NewDelegatorsCanWithdraw
  BY OpenWithdrawals
<1> QED
  BY <1>1, NewValidatorInvariance, PTL

\* Tokens that no coins back are never paid out: until it is slashed, the bonded
\* pool can pay back everyone who delegates to the new operator's validator,
\* because its shares stay worth what the command gave for them and the roundings
\* go to the pool (testnet.go:127-140).
THEOREM NewDelegatorsAreRedeemed == TestnetSpec => []NewDelegatorsRedeemable
<1>1. TInv /\ NInv => NewDelegatorsRedeemable
  BY OpenRedemptions
<1> QED
  BY <1>1, NewValidatorInvariance, PTL

\* A zero-height export of a testnet with a new operator panics for the list of
\* addresses, or at a delegation to a validator that the command removed, and
\* never at the new validator's own commission, rewards and delegations
\* (export.go:52-255, testnet.go:113-122).
THEOREM OnlyTheStrandedPanic == TestnetSpec => []PanicsOnlyForTheStranded
<1>1. TInv /\ NInv => PanicsOnlyForTheStranded
  BY OpenPanics
<1> QED
  BY <1>1, NewValidatorInvariance, PTL
=============================================================================
