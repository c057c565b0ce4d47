----------------------- MODULE ZeroHeightExportProofs -----------------------
(***************************************************************************)
(* Theorems about ZeroHeightExport: the types of its variables, that the   *)
(* reference counts of the reward periods are exact in the chain, at every *)
(* step of the export and in the chain started from its genesis, and that  *)
(* nothing in a committed state is from a height the chain has not         *)
(* reached.                                                                *)
(***************************************************************************)
EXTENDS LedgerProofs

\* The delegations whose starting info counts.
Counting == IF stage = "delegations" THEN DOMAIN delegation \ pending ELSE DOMAIN delegation

Cleared(r) == r.historical = Empty /\ r.slashes = {}

\* TypeOK without the ledger.
OthersOK ==
    /\ height \in Nat /\ horizon \in Nat
    /\ stage \in BlockStages \union ExportStages \union EndStages
    /\ todo \subseteq Vals /\ powerIndex \subseteq Vals /\ last \subseteq Vals
    /\ pending \subseteq Pairs
    /\ validator \in [Vals -> Validator]
    /\ IsPartial(delegation, Pairs, Nat)
    /\ entries \subseteq Entry
    /\ signing \in [Vals -> Nat \union {NoInfo}]
    /\ forZeroHeight \in BOOLEAN /\ resumed \in BOOLEAN
    /\ allowed \subseteq Accounts \union {Malformed}

\* The counts of the whole ledger, with what the export has cleared.
CountsOK ==
    /\ Covers(ledger, DOMAIN delegation)
    /\ stage \in {"rewards", "delegations"} => pending \subseteq DOMAIN delegation
    /\ stage # "validators" => LedgerCounted(ledger, Counting)
    /\ stage = "validators" =>
          /\ LedgerOK(ledger)
          /\ \A v \in Vals : IF v \in todo THEN Cleared(ledger.rewards[v])
                             ELSE Counted(ledger.rewards[v], Empty)

\* The inductive invariant.
IInv == OthersOK /\ CountsOK

LEMMA DomainLemma ==
    ASSUME IInv
    PROVE  /\ DOMAIN validator = Vals /\ DOMAIN signing = Vals
           /\ todo \subseteq Vals /\ last \subseteq Vals
           /\ \A k \in pending : k \in Pairs
  BY DEF IInv, OthersOK

LEMMA LedgerTyped ==
    ASSUME CountsOK
    PROVE  LedgerOK(ledger)
  BY DEF CountsOK, LedgerCounted

LEMMA TypeOfIInv ==
    ASSUME IInv
    PROVE  TypeOK
  BY LedgerTyped DEF IInv, OthersOK, TypeOK

LEMMA RefCountsOfIInv ==
    ASSUME IInv
    PROVE  RefCounts
<1> SUFFICES ASSUME NEW v \in Vals, ~ (stage = "validators" /\ v \in todo)
             PROVE  LET r == ledger.rewards[v] IN
                    /\ \A p \in 0 .. r.period : Record(r, p).refs = References(v, p)
                    /\ \A p \in DOMAIN r.historical : p < r.period /\ r.historical[p].refs > 0
                    /\ \A c, d \in Accounts :
                         Live(<<c, v>>) /\ Live(<<d, v>>) /\ c # d
                         => ledger.start[<<c, v>>].period # ledger.start[<<d, v>>].period
  BY DEF IInv, CountsOK, Cleared, RefCounts
<1> DEFINE r == ledger.rewards[v]
           st == IF stage = "validators" THEN Empty ELSE Starts(ledger, Counting, v)
<1>1. Counted(r, st)
  BY DEF IInv, CountsOK, LedgerCounted
<1>2. \A d \in Accounts : d \in DOMAIN st <=> Live(<<d, v>>)
  <2>1. CASE stage = "validators"
    BY <2>1 DEF Empty, Live
  <2>2. CASE stage # "validators"
    BY <2>2 DEF Starts, Counting, Live, IInv, CountsOK, Covers
  <2> QED
    BY <2>1, <2>2
<1>3. DOMAIN st \subseteq Accounts /\ \A d \in DOMAIN st : st[d] = ledger.start[<<d, v>>].period
  BY DEF Empty, Starts
<1>4. \A p : (\E d \in Accounts : Live(<<d, v>>) /\ ledger.start[<<d, v>>].period = p)
                <=> (\E d \in DOMAIN st : st[d] = p)
  BY <1>2, <1>3
<1> HIDE DEF st
<1>5. ASSUME NEW p \in 0 .. r.period
      PROVE  Record(r, p).refs = References(v, p)
  <2>1. r.period \in Nat /\ p \in Nat
    BY <1>1 DEF Counted
  <2>2. Refs(r, p) = One(\E d \in DOMAIN st : st[d] = p)
                       + One(\E e \in r.slashes : e.period = p)
                       + One(p = r.period - 1)
    BY <1>1, <2>1 DEF Counted
  <2> QED
    BY <1>4, <2>2 DEF Refs, References, One
<1>6. \A p \in DOMAIN r.historical : p < r.period /\ r.historical[p].refs > 0
  BY <1>1 DEF Counted
<1>7. \A c, d \in DOMAIN st : c # d => st[c] # st[d]
  BY <1>1 DEF Counted
<1> QED
  BY <1>2, <1>3, <1>5, <1>6, <1>7

\* A step that leaves ledger and delegations alone, between stages in which
\* every delegation counts.
LEMMA SameCounts ==
    ASSUME CountsOK, UNCHANGED <<ledger, delegation>>,
           stage \notin {"validators", "delegations"},
           stage' \notin {"rewards", "validators", "delegations"}
    PROVE  CountsOK'
  BY DEF CountsOK, Counting

----------------------------------------------------------------------------
\* The genesis.

LEMMA InitInvariant ==
    ASSUME Init
    PROVE  IInv
<1> USE ChainAssumption, PrecisionAssumption DEF Init, InitChain
<1>1. \A v \in Vals : GenesisTokens[v] \in Nat /\ GenesisTokens[v] * Precision \in Nat
  BY ProductType
<1>2. \A v \in Vals : GenesisValidator(v) \in Validator
  BY <1>1 DEF GenesisValidator, Validator, Statuses
<1>3. validator \in [Vals -> Validator]
  <2>1. \A v \in Vals : validator[v] = [GenesisValidator(v) EXCEPT
                            !.status = IF v \in GenesisSet THEN "bonded" ELSE @]
    OBVIOUS
  <2>2. ASSUME NEW v \in Vals
        PROVE  validator[v] \in Validator
    <3> DEFINE g == GenesisValidator(v)
    <3>1. g \in Validator /\ validator[v] = [g EXCEPT
                            !.status = IF v \in GenesisSet THEN "bonded" ELSE @]
      BY <1>2, <2>1
    <3> HIDE DEF g
    <3> QED
      BY <3>1 DEF Validator, Statuses
  <2> QED
    BY <2>2
<1>4. IsPartial(delegation, Pairs, Nat)
  BY <1>1 DEF IsPartial, Pairs
<1>5. GenesisSet \subseteq Vals
  BY DEF GenesisSet, Top, Visited
<1>6. OthersOK
  BY <1>3, <1>4, <1>5 DEF OthersOK, BlockStages, NoInfo
<1>7. Covers(ledger, DOMAIN delegation)
  BY DEF Covers
<1>8. LedgerOK(ledger)
  <2>1. RewardsOK(GenesisRewards)
    BY DEF RewardsOK, GenesisRewards, IsPartial
  <2>2. IsPartial(ledger.start, Pairs, StartingInfo)
    BY <1>1 DEF IsPartial, Pairs, StartingInfo
  <2> QED
    BY <2>1, <2>2 DEF LedgerOK
<1>9. ASSUME NEW v \in Vals
      PROVE  Counted(ledger.rewards[v], Starts(ledger, DOMAIN delegation, v))
  <2> DEFINE st == Starts(ledger, DOMAIN delegation, v)
  <2>1. DOMAIN st = {v} /\ st[v] = 1
    BY <1>9 DEF Starts
  <2>2. ledger.rewards[v] = GenesisRewards
    BY <1>9
  <2> HIDE DEF st
  <2>3. /\ GenesisRewards.period = 2 /\ GenesisRewards.slashes = {}
        /\ DOMAIN GenesisRewards.historical = {1} /\ GenesisRewards.historical[1].refs = 2
    BY DEF GenesisRewards
  <2>4. RewardsOK(GenesisRewards)
    BY <1>8, <2>2 DEF LedgerOK
  <2>5. \A p \in Nat : Refs(GenesisRewards, p) = One(\E d \in DOMAIN st : st[d] = p)
                                + One(\E e \in GenesisRewards.slashes : e.period = p)
                                + One(p = GenesisRewards.period - 1)
    BY <2>1, <2>3 DEF Refs, Record, One
  <2>6. /\ GenesisRewards.period \in Nat \ {0}
        /\ \A d \in DOMAIN st : st[d] \in Nat /\ st[d] < GenesisRewards.period
        /\ \A c, d \in DOMAIN st : c # d => st[c] # st[d]
    BY <2>1, <2>3
  <2>7. /\ \A e \in GenesisRewards.slashes : e.period < GenesisRewards.period
        /\ \A p \in DOMAIN GenesisRewards.historical :
              p < GenesisRewards.period /\ GenesisRewards.historical[p].refs > 0
    BY <2>3
  <2>8. Counted(GenesisRewards, st)
    BY ONLY <2>4, <2>5, <2>6, <2>7 DEF Counted
  <2> QED
    BY <2>2, <2>8 DEF st
<1>10. CountsOK
  <2>1. stage = "committed"
    OBVIOUS
  <2>2. Counting = DOMAIN delegation
    BY <2>1 DEF Counting
  <2>3. DOMAIN delegation \subseteq DOMAIN ledger.start
    BY <1>7 DEF Covers
  <2> QED
    BY <1>7, <1>8, <1>9, <2>1, <2>2, <2>3 DEF CountsOK, LedgerCounted
<1> QED
  BY <1>6, <1>10 DEF IInv

----------------------------------------------------------------------------
\* The steps of a block.

LEMMA StakingOfIInv ==
    ASSUME IInv, stage \notin {"validators", "delegations"}
    PROVE  StakingOK(Staking)
<1>1. LedgerCounted(ledger, DOMAIN delegation) /\ Covers(ledger, DOMAIN delegation)
  BY DEF IInv, CountsOK, Counting
<1>2. /\ validator \in [Vals -> Validator] /\ IsPartial(delegation, Pairs, Nat)
      /\ powerIndex \subseteq Vals
  BY DEF IInv, OthersOK
<1> QED
  BY <1>1, <1>2 DEF StakingOK, Staking

\* What a step of a transaction does.
LEMMA BecomesInvariant ==
    ASSUME IInv, Deliver, NEW s, StakingOK(s), Becomes(s), entries' \subseteq Entry,
           UNCHANGED exportVars
    PROVE  IInv'
<1>1. stage = "delivering" /\ stage' = "ending"
  BY DEF Deliver
<1>2. /\ Covers(ledger', DOMAIN delegation') /\ LedgerCounted(ledger', DOMAIN delegation')
      /\ validator' \in [Vals -> Validator] /\ IsPartial(delegation', Pairs, Nat)
      /\ powerIndex' \subseteq Vals
  BY DEF Becomes, StakingOK
<1>3. OthersOK'
  BY <1>1, <1>2 DEF IInv, OthersOK, Deliver, exportVars, BlockStages
<1>4. CountsOK'
  BY <1>1, <1>2 DEF CountsOK, Counting
<1> QED
  BY <1>3, <1>4 DEF IInv

LEMMA BeginBlockInvariant ==
    ASSUME IInv, BeginBlock, UNCHANGED exportVars
    PROVE  IInv'
<1>1. stage = "committed" /\ stage' \in {"distributing", "slashing"}
  BY DEF BeginBlock
<1>2. OthersOK'
  BY <1>1 DEF IInv, OthersOK, BeginBlock, exportVars, stakingVars, BlockStages
<1>3. CountsOK'
  BY <1>1, SameCounts DEF IInv, BeginBlock, stakingVars
<1> QED
  BY <1>2, <1>3 DEF IInv

\* A step that only moves amounts of the ledger in the middle of a block.
LEMMA LedgerInvariant ==
    ASSUME CountsOK, stage \notin {"rewards", "validators", "delegations"},
           stage' \notin {"rewards", "validators", "delegations"},
           UNCHANGED delegation,
           LedgerCounted(ledger', DOMAIN delegation), ledger'.start = ledger.start
    PROVE  CountsOK'
<1>1. Covers(ledger', DOMAIN delegation')
  BY DEF CountsOK, Covers
<1> QED
  BY <1>1 DEF CountsOK, Counting

LEMMA AllocateInvariant ==
    ASSUME IInv, NEW v \in Vals, AllocateTokensToValidator(v), UNCHANGED exportVars
    PROVE  IInv'
<1>1. stage = "distributing" /\ stage' \in {"distributing", "slashing"}
  BY DEF AllocateTokensToValidator
<1>2. OthersOK'
  BY <1>1 DEF IInv, OthersOK, AllocateTokensToValidator, exportVars, stakingVars, BlockStages
<1>3. LedgerCounted(ledger, DOMAIN delegation)
  BY <1>1 DEF IInv, CountsOK, Counting
<1>4. Fees \in Int /\ Earning \in Int /\ Commission \in Int
  BY ChainAssumption, PrecisionAssumption
<1>5. LedgerCounted(ledger', DOMAIN delegation) /\ ledger'.start = ledger.start
  BY <1>3, <1>4, AllocateTokensLemma DEF AllocateTokensToValidator
<1>6. CountsOK'
  BY <1>1, <1>5, LedgerInvariant DEF IInv, AllocateTokensToValidator, stakingVars
<1> QED
  BY <1>2, <1>6 DEF IInv

LEMMA NoOffenceInvariant ==
    ASSUME IInv, NoOffence, UNCHANGED exportVars
    PROVE  IInv'
<1>1. stage = "slashing" /\ stage' = "delivering"
  BY DEF NoOffence
<1>2. OthersOK'
  BY <1>1 DEF IInv, OthersOK, NoOffence, exportVars, stakingVars, BlockStages
<1>3. CountsOK'
  BY <1>1, SameCounts DEF IInv, NoOffence, stakingVars
<1> QED
  BY <1>2, <1>3 DEF IInv

LEMMA BurnedOfRecord ==
    ASSUME NEW v, validator[v] \in Validator
    PROVE  /\ Burned(v) \in Nat
           /\ validator[v].tokens - Burned(v) \in Nat
           /\ Burned(v) # 0 => EffectiveFraction(v) \in Int
<1>1. validator[v].tokens \in Nat
  BY DEF Validator
<1> DEFINE stands == Power(v, validator) * PowerReduction
<1>2. stands \in Nat /\ stands * SlashNumerator \in Nat
  <2>1. Power(v, validator) \in Nat
    BY <1>1, DivisionType, ChainAssumption DEF Power
  <2>2. stands \in Nat
    BY <2>1, ProductType, ChainAssumption
  <2> HIDE DEF stands
  <2> QED
    BY <2>2, ProductType, ChainAssumption
<1>3. (stands * SlashNumerator) \div SlashDenominator \in Nat
  BY <1>2, DivisionType, ChainAssumption
<1>4. Burned(v) \in Nat /\ Burned(v) <= validator[v].tokens
  BY <1>1, <1>3 DEF Burned, Least
<1>5. ASSUME Burned(v) # 0
      PROVE  EffectiveFraction(v) \in Int
  <2>1. validator[v].tokens \in Nat \ {0}
    BY <1>1, <1>4, <1>5
  <2>2. Burned(v) * Precision \in Nat
    BY <1>4, ProductType, PrecisionAssumption
  <2>3. Burned(v) * Precision + validator[v].tokens - 1 \in Nat
    BY <2>1, <2>2
  <2> QED
    BY <2>1, <2>3, DivisionType DEF EffectiveFraction
<1> QED
  BY <1>1, <1>4, <1>5

LEMMA BurnedType ==
    ASSUME validator \in [Vals -> Validator], NEW v \in Vals
    PROVE  /\ Burned(v) \in Nat
           /\ validator[v].tokens - Burned(v) \in Nat
           /\ Burned(v) # 0 => EffectiveFraction(v) \in Int
BY BurnedOfRecord

LEMMA SlashInvariant ==
    ASSUME IInv, NEW v \in Vals, SlashAndJail(v), UNCHANGED exportVars
    PROVE  IInv'
<1>1. stage = "slashing" /\ stage' = "delivering"
  BY DEF SlashAndJail
<1>2. /\ validator \in [Vals -> Validator] /\ height \in Nat
      /\ validator[v].tokens \in Nat
  BY DEF IInv, OthersOK, Validator
<1>3. validator' \in [Vals -> Validator]
  <2> DEFINE val == [validator[v] EXCEPT !.jailed = TRUE, !.tokens = @ - Burned(v)]
  <2>1. val \in Validator
    BY <1>2, BurnedType DEF Validator
  <2>2. validator' = [validator EXCEPT ![v] = val]
    BY DEF SlashAndJail
  <2> QED
    BY <1>2, <2>1, <2>2
<1>4. OthersOK'
  BY <1>1, <1>3 DEF IInv, OthersOK, SlashAndJail, exportVars, BlockStages
<1>5. LedgerCounted(ledger, DOMAIN delegation)
  BY <1>1 DEF IInv, CountsOK, Counting
<1>6. LedgerCounted(ledger', DOMAIN delegation) /\ ledger'.start = ledger.start
  <2>1. CASE Burned(v) = 0
    BY <1>5, <2>1 DEF SlashAndJail
  <2>2. CASE Burned(v) # 0
    <3>1. EffectiveFraction(v) \in Int
      BY <1>2, <2>2, BurnedType
    <3> QED
      BY <1>2, <1>5, <2>2, <3>1, RecordSlashLemma DEF SlashAndJail
  <2> QED
    BY <2>1, <2>2
<1>7. CountsOK'
  BY <1>1, <1>6, LedgerInvariant DEF IInv, SlashAndJail
<1> QED
  BY <1>4, <1>7 DEF IInv

LEMMA DelegateInvariant ==
    ASSUME IInv, NEW d \in Accounts, NEW v \in Vals, Delegate(d, v), UNCHANGED exportVars
    PROVE  IInv'
<1>1. StakingOK(Staking)
  BY StakingOfIInv DEF Delegate, Deliver
<1>2. Staking.validator[v].tokens > 0 \/ Staking.validator[v].shares = 0
  BY DEF Delegate, Staking
<1>3. height \in Nat /\ 1 \in Nat
  BY DEF IInv, OthersOK
<1>4. StakingOK(Delegated(Staking, d, v, 1, height))
  BY <1>1, <1>2, <1>3, DelegatedLemma
<1>5. /\ Deliver /\ Becomes(Delegated(Staking, d, v, 1, height))
      /\ entries' \subseteq Entry
  BY DEF Delegate, IInv, OthersOK
<1> QED
  BY <1>4, <1>5, BecomesInvariant

\* What a choice of shares to undelegate guarantees.
LEMMA UndelegableLemma ==
    ASSUME IInv, NEW d \in Accounts, NEW v \in Vals, <<d, v>> \in DOMAIN delegation,
           validator[v].tokens > 0, NEW n \in Undelegable(d, v)
    PROVE  /\ n \in Nat
           /\ n <= Staking.delegation[<<d, v>>] /\ n <= Staking.validator[v].shares
           /\ TokensRemoved(Staking, v, n) \in 1 .. Staking.validator[v].tokens
<1>1. /\ Staking.validator = validator /\ Staking.delegation = delegation
      /\ validator \in [Vals -> Validator] /\ delegation[<<d, v>>] \in Nat
  BY DEF Staking, IInv, OthersOK, IsPartial
<1>2. SharesFromTokens(Staking, v, 1) \in Nat
  BY <1>1, SharesType
<1> QED
  BY <1>1, <1>2 DEF Undelegable

LEMMA UndelegateInvariant ==
    ASSUME IInv, NEW d \in Accounts, NEW v \in Vals, Undelegate(d, v), UNCHANGED exportVars
    PROVE  IInv'
<1>1. StakingOK(Staking) /\ Staking.delegation = delegation
  BY StakingOfIInv DEF Undelegate, Deliver, Staking
<1>2. PICK n \in Undelegable(d, v) : Becomes(Unbonded(Staking, d, v, n, height))
  BY DEF Undelegate
<1>3. <<d, v>> \in DOMAIN Staking.delegation /\ <<d, v>> \in DOMAIN delegation
      /\ validator[v].tokens > 0 /\ height \in Nat
  BY <1>1 DEF Undelegate, IInv, OthersOK
<1>4. StakingOK(Unbonded(Staking, d, v, n, height))
  BY <1>1, <1>3, UndelegableLemma, UnbondedLemma
<1>5. entries' \subseteq Entry
  BY <1>3 DEF Undelegate, IInv, OthersOK, Entry
<1>6. Deliver
  BY DEF Undelegate
<1> QED
  BY <1>2, <1>4, <1>5, <1>6, BecomesInvariant

LEMMA RedelegateInvariant ==
    ASSUME IInv, NEW d \in Accounts, NEW v \in Vals, NEW w \in Vals,
           BeginRedelegate(d, v, w), UNCHANGED exportVars
    PROVE  IInv'
<1>1. StakingOK(Staking) /\ Staking.delegation = delegation /\ Staking.validator = validator
  BY StakingOfIInv DEF BeginRedelegate, Deliver, Staking
<1>2. PICK n \in Undelegable(d, v) :
        LET tokens == TokensRemoved(Staking, v, n) IN
        /\ validator[w].tokens > 0 \/ validator[w].shares = 0
        /\ Becomes(Delegated(Unbonded(Staking, d, v, n, height), d, w, tokens, height))
  BY DEF BeginRedelegate
<1>3. /\ <<d, v>> \in DOMAIN Staking.delegation /\ <<d, v>> \in DOMAIN delegation
      /\ validator[v].tokens > 0 /\ height \in Nat /\ v # w
  BY <1>1 DEF BeginRedelegate, IInv, OthersOK
<1> DEFINE u == Unbonded(Staking, d, v, n, height)
           tokens == TokensRemoved(Staking, v, n)
<1>4. StakingOK(u)
  BY <1>1, <1>3, UndelegableLemma, UnbondedLemma
<1>5. tokens \in Nat
  <2>1. validator[v].tokens \in Nat
    BY DEF IInv, OthersOK, Validator
  <2>2. tokens \in 1 .. validator[v].tokens
    BY <1>1, <1>3, UndelegableLemma
  <2> QED
    BY <2>1, <2>2
<1>6. u.validator[w] = validator[w]
  BY <1>1, <1>3 DEF Unbonded, StakingOK
<1> HIDE DEF u, tokens
<1>7. StakingOK(Delegated(u, d, w, tokens, height))
  BY <1>2, <1>3, <1>4, <1>5, <1>6, DelegatedLemma
<1>8. entries' \subseteq Entry
  BY <1>3 DEF BeginRedelegate, IInv, OthersOK, Entry, Validator
<1>9. Deliver
  BY DEF BeginRedelegate
<1> QED
  BY <1>2, <1>7, <1>8, <1>9, BecomesInvariant DEF u, tokens

\* A withdrawal that starts the delegation again.
LEMMA RestartLemma ==
    ASSUME IInv, stage \notin {"validators", "delegations"},
           NEW d \in Accounts, NEW v \in Vals, <<d, v>> \in DOMAIN delegation
    PROVE  LET m == InitializeDelegation(Withdrawn(Staking, d, v, height), d, v,
                                         StakeOf(Staking, d, v), height)
           IN  LedgerCounted(m, DOMAIN delegation) /\ Covers(m, DOMAIN delegation)
<1> DEFINE k == <<d, v>>
           w == Withdrawn(Staking, d, v, height)
           stake == StakeOf(Staking, d, v)
           rest == DOMAIN delegation \ {k}
<1>1. /\ StakingOK(Staking) /\ Staking.delegation = delegation
      /\ Staking.validator = validator
  BY StakingOfIInv DEF Staking
<1>2. Ready(w, rest, d, v) /\ Covers(w, rest)
  BY <1>1, WithdrawnLemma
<1>3. stake \in Int /\ height \in Nat
  <2>1. delegation[k] \in Nat /\ validator \in [Vals -> Validator] /\ height \in Nat
    BY DEF IInv, OthersOK, IsPartial
  <2>2. stake = Stake(Staking, v, delegation[k])
    BY <1>1 DEF StakeOf
  <2>3. Stake(Staking, v, delegation[k]) \in Nat
    <3> DEFINE s == Staking
               n == delegation[k]
    <3>1. s.validator \in [Vals -> Validator] /\ n \in Nat
      BY <1>1, <2>1
    <3> HIDE DEF s, n
    <3>2. Stake(s, v, n) \in Nat
      BY <3>1, StakeType
    <3> QED
      BY <3>2 DEF s, n
  <2> QED
    BY <2>1, <2>2, <2>3
<1> HIDE DEF w, stake
<1>4. /\ LedgerCounted(InitializeDelegation(w, d, v, stake, height), rest \union {<<d, v>>})
      /\ Covers(InitializeDelegation(w, d, v, stake, height), rest \union {<<d, v>>})
  BY <1>2, <1>3, InitializeDelegationLemma
<1>5. rest \union {<<d, v>>} = DOMAIN delegation
  OBVIOUS
<1> QED
  BY <1>4, <1>5 DEF w, stake

LEMMA WithdrawRewardInvariant ==
    ASSUME IInv, NEW d \in Accounts, NEW v \in Vals,
           WithdrawDelegatorReward(d, v), UNCHANGED exportVars
    PROVE  IInv'
<1>1. /\ stage = "delivering" /\ stage' = "ending" /\ delegation' = delegation
      /\ <<d, v>> \in DOMAIN delegation
  BY DEF WithdrawDelegatorReward, Deliver, stakingVars
<1>2. OthersOK'
  BY <1>1 DEF IInv, OthersOK, WithdrawDelegatorReward, Deliver, exportVars, stakingVars, BlockStages
<1>3. LedgerCounted(ledger', DOMAIN delegation) /\ Covers(ledger', DOMAIN delegation)
  BY <1>1, RestartLemma DEF WithdrawDelegatorReward
<1>4. CountsOK'
  BY <1>1, <1>3 DEF CountsOK, Counting
<1> QED
  BY <1>2, <1>4 DEF IInv

LEMMA UnjailInvariant ==
    ASSUME IInv, NEW v \in Vals, Unjail(v), UNCHANGED exportVars
    PROVE  IInv'
<1>1. stage = "delivering" /\ stage' = "ending"
  BY DEF Unjail, Deliver
<1>2. validator' \in [Vals -> Validator]
  BY DEF Unjail, IInv, OthersOK, Validator
<1>3. OthersOK'
  BY <1>1, <1>2 DEF IInv, OthersOK, Unjail, Deliver, exportVars, BlockStages
<1>4. CountsOK'
  BY <1>1, SameCounts DEF IInv, Unjail
<1> QED
  BY <1>3, <1>4 DEF IInv

LEMMA AppliedType ==
    ASSUME validator \in [Vals -> Validator], NEW h \in Nat, powerIndex \subseteq Vals,
           signing \in [Vals -> Nat \union {NoInfo}],
           ApplyAndReturnValidatorSetUpdates(validator, h)
    PROVE  /\ validator' \in [Vals -> Validator] /\ last' \subseteq Vals
           /\ signing' \in [Vals -> Nat \union {NoInfo}]
<1>1. \A v \in Vals : Applied(powerIndex, validator, h)[v] \in Validator
  BY DEF Applied, Validator, Statuses
<1>2. validator' \in [Vals -> Validator]
  BY <1>1 DEF ApplyAndReturnValidatorSetUpdates, Applied
<1>3. last' \subseteq Vals
  BY DEF ApplyAndReturnValidatorSetUpdates, Top, Visited
<1>4. signing' \in [Vals -> Nat \union {NoInfo}]
  BY DEF ApplyAndReturnValidatorSetUpdates
<1> QED
  BY <1>2, <1>3, <1>4

LEMMA EndBlockInvariant ==
    ASSUME IInv, EndBlock, UNCHANGED exportVars
    PROVE  IInv'
<1>1. stage \in {"delivering", "ending"} /\ stage' = "committed"
  BY DEF EndBlock
<1>2. /\ validator' \in [Vals -> Validator] /\ last' \subseteq Vals
      /\ signing' \in [Vals -> Nat \union {NoInfo}]
  BY AppliedType DEF EndBlock, IInv, OthersOK
<1>3. OthersOK'
  BY <1>1, <1>2 DEF IInv, OthersOK, EndBlock, exportVars, BlockStages
<1>4. CountsOK'
  BY <1>1, SameCounts DEF IInv, EndBlock
<1> QED
  BY <1>3, <1>4 DEF IInv

----------------------------------------------------------------------------
\* The steps of the export and of the import.

LEMMA BeginExportInvariant ==
    ASSUME IInv, NEW zero \in ZeroHeight, NEW list \in JailLists, BeginExport(zero, list)
    PROVE  IInv'
<1>1. stage = "committed" /\ stage' \in {"writing", "panicked", "commissions"}
  BY DEF BeginExport
<1>2. zero \in BOOLEAN /\ list \subseteq Accounts \union {Malformed}
  BY ExportAssumption
<1>3. OthersOK'
  BY <1>1, <1>2 DEF IInv, OthersOK, BeginExport, stakingVars, ExportStages, EndStages
<1>4. CountsOK'
  BY <1>1, SameCounts DEF IInv, BeginExport, stakingVars
<1> QED
  BY <1>3, <1>4 DEF IInv

LEMMA PanicsInvariant ==
    ASSUME IInv, ExportStep(stage), Panics, stage \notin {"validators", "delegations"}
    PROVE  IInv'
<1>1. stage' = "panicked"
  BY DEF Panics
<1>2. OthersOK'
  BY <1>1 DEF IInv, OthersOK, ExportStep, Panics, stakingVars, EndStages
<1>3. CountsOK'
  BY <1>1, SameCounts DEF IInv, Panics, stakingVars
<1> QED
  BY <1>2, <1>3 DEF IInv

LEMMA CommissionInvariant ==
    ASSUME IInv, NEW v \in Vals, WithdrawAllCommission(v)
    PROVE  IInv'
<1>1. stage = "commissions" /\ ExportStep(stage)
  BY DEF WithdrawAllCommission, ExportStep
<1>2. CASE Panics
  BY <1>1, <1>2, PanicsInvariant
<1>3. CASE ~ Panics
  <2>1. /\ ledger' = WithdrawCommission(ledger, v) /\ todo' = todo \ {v}
        /\ UNCHANGED stakingVars
        /\ \/ stage' = "rewards" /\ pending' = DOMAIN delegation
           \/ UNCHANGED <<stage, pending>>
    BY <1>3 DEF WithdrawAllCommission
  <2>2. IsPartial(delegation, Pairs, Nat) /\ pending' \subseteq Pairs
    BY <2>1 DEF IInv, OthersOK, IsPartial
  <2>3. OthersOK'
    BY <1>1, <2>1, <2>2 DEF IInv, OthersOK, ExportStep, stakingVars, ExportStages
  <2>4. LedgerCounted(ledger, DOMAIN delegation) /\ Covers(ledger, DOMAIN delegation)
    BY <1>1 DEF IInv, CountsOK, Counting
  <2>5. LedgerCounted(ledger', DOMAIN delegation) /\ ledger'.start = ledger.start
    BY <2>1, <2>4, WithdrawCommissionLemma
  <2>6. Covers(ledger', DOMAIN delegation)
    BY <2>4, <2>5 DEF Covers
  <2>7. CountsOK'
    BY <1>1, <2>1, <2>5, <2>6 DEF CountsOK, Counting, stakingVars
  <2> QED
    BY <2>3, <2>7 DEF IInv
<1> QED
  BY <1>2, <1>3

LEMMA RewardsInvariant ==
    ASSUME IInv, NEW d \in Accounts, NEW v \in Vals, WithdrawAllRewards(d, v)
    PROVE  IInv'
<1>1. stage = "rewards" /\ ExportStep(stage) /\ <<d, v>> \in pending
  BY DEF WithdrawAllRewards, ExportStep, FirstPair
<1>2. <<d, v>> \in DOMAIN delegation
  BY <1>1 DEF IInv, CountsOK
<1>3. CASE Panics
  BY <1>1, <1>3, PanicsInvariant
<1>4. CASE ~ Panics
  <2>1. /\ ledger' = InitializeDelegation(Withdrawn(Staking, d, v, height), d, v,
                                          StakeOf(Staking, d, v), height)
        /\ pending' = pending \ {<<d, v>>}
        /\ UNCHANGED <<stage, todo, stakingVars>>
    BY <1>4, DomainLemma DEF WithdrawAllRewards
  <2>2. OthersOK'
    BY <1>1, <2>1 DEF IInv, OthersOK, ExportStep, stakingVars
  <2>3. LedgerCounted(ledger', DOMAIN delegation) /\ Covers(ledger', DOMAIN delegation)
    BY <1>1, <1>2, <2>1, RestartLemma
  <2>4. CountsOK'
    BY <1>1, <2>1, <2>3 DEF IInv, CountsOK, Counting, stakingVars
  <2> QED
    BY <2>2, <2>4 DEF IInv
<1> QED
  BY <1>3, <1>4

LEMMA ClearPeriodsInvariant ==
    ASSUME IInv, ClearPeriods
    PROVE  IInv'
<1>1. /\ stage = "rewards" /\ stage' = "validators" /\ todo' = Vals
      /\ UNCHANGED <<pending, stakingVars>>
      /\ ledger' = DeleteHistoricalRewards(DeleteSlashEvents(ledger))
  BY DomainLemma DEF ClearPeriods, ExportStep
<1>2. OthersOK'
  BY <1>1 DEF IInv, OthersOK, ClearPeriods, ExportStep, stakingVars, ExportStages
<1>3. LedgerOK(ledger) /\ Covers(ledger, DOMAIN delegation)
  BY LedgerTyped DEF IInv, CountsOK
<1> DEFINE cleared(v) == [[ledger.rewards[v] EXCEPT !.slashes = {}] EXCEPT !.historical = Empty]
<1>4. /\ ledger' = [ledger EXCEPT !.rewards = [v \in Vals |-> cleared(v)]]
  <2>1. DOMAIN ledger.rewards = Vals
    BY <1>3 DEF LedgerOK
  <2> DEFINE m == DeleteSlashEvents(ledger)
  <2>2. m.rewards = [v \in Vals |-> [ledger.rewards[v] EXCEPT !.slashes = {}]]
    BY <1>3, <2>1 DEF DeleteSlashEvents, LedgerOK
  <2>3. m = [ledger EXCEPT !.rewards = m.rewards]
    BY <1>3, <2>1, <2>2 DEF DeleteSlashEvents
  <2> HIDE DEF m
  <2>4. ledger' = [m EXCEPT !.rewards = [v \in Vals |-> [m.rewards[v] EXCEPT !.historical = Empty]]]
    BY <1>1, <2>2 DEF DeleteHistoricalRewards, m
  <2>5. [v \in Vals |-> [m.rewards[v] EXCEPT !.historical = Empty]] = [v \in Vals |-> cleared(v)]
    BY <2>2
  <2> QED
    BY <1>3, <2>3, <2>4, <2>5 DEF LedgerOK
<1>5. ASSUME NEW v \in Vals
      PROVE  RewardsOK(cleared(v)) /\ Cleared(cleared(v))
  <2>1. RewardsOK(ledger.rewards[v])
    BY <1>3 DEF LedgerOK
  <2> QED
    BY <2>1 DEF RewardsOK, IsPartial, Empty, Cleared
<1> HIDE DEF cleared
<1>6. /\ ledger' \in [rewards : {ledger'.rewards}, start : {ledger'.start}, pool : Int, balance : Int]
      /\ ledger'.start = ledger.start /\ ledger'.rewards = [v \in Vals |-> cleared(v)]
  BY <1>3, <1>4 DEF LedgerOK
<1>7. LedgerOK(ledger')
  BY <1>3, <1>5, <1>6 DEF LedgerOK
<1>8. Covers(ledger', DOMAIN delegation')
  BY <1>1, <1>3, <1>6 DEF Covers, stakingVars
<1>9. CountsOK'
  BY <1>1, <1>5, <1>6, <1>7, <1>8 DEF CountsOK
<1> QED
  BY <1>2, <1>9 DEF IInv

LEMMA ReinitializeValidatorInvariant ==
    ASSUME IInv, NEW v \in Vals, ReinitializeValidator(v)
    PROVE  IInv'
<1>1. /\ stage = "validators" /\ v \in todo /\ todo' = todo \ {v}
      /\ UNCHANGED stakingVars
      /\ ledger' = InitializeValidator(DonateOutstanding(ledger, v), v)
      /\ \/ todo' = {} /\ stage' = "delegations" /\ pending' = DOMAIN delegation
         \/ UNCHANGED <<stage, pending>> 
  BY DEF ReinitializeValidator, ExportStep, FirstVal
<1>2. IsPartial(delegation, Pairs, Nat) /\ pending' \subseteq Pairs
  BY <1>1 DEF IInv, OthersOK, IsPartial
<1>3. OthersOK'
  BY <1>1, <1>2 DEF IInv, OthersOK, ReinitializeValidator, ExportStep, stakingVars, ExportStages
<1> DEFINE o == ledger.rewards[v]
           r == [outstanding |-> 0, commission |-> 0, current |-> 0, period |-> 1,
                 historical  |-> Put(o.historical, 0, [ratio |-> 0, refs |-> 1]),
                 slashes     |-> o.slashes]
           l == DonateOutstanding(ledger, v)
<1>4. /\ LedgerOK(ledger) /\ Covers(ledger, DOMAIN delegation)
      /\ Cleared(o) /\ o.outstanding \in Int
  BY <1>1, LedgerTyped DEF IInv, CountsOK, LedgerOK, RewardsOK
<1>5. /\ l = [rewards |-> ledger.rewards, start |-> ledger.start,
              pool |-> ledger.pool + o.outstanding, balance |-> ledger.balance]
      /\ l.pool \in Int /\ l.balance \in Int
  BY <1>4 DEF DonateOutstanding, LedgerOK
<1>6. Counted(r, Empty)
  BY <1>4, FreshCounts DEF Cleared
<1>7. ledger' = [l EXCEPT !.rewards[v] = r]
  BY <1>1, <1>5 DEF InitializeValidator
<1> HIDE DEF l, r
<1>8. /\ ledger' \in [rewards : {ledger'.rewards}, start : {ledger'.start}, pool : Int, balance : Int]
      /\ ledger'.start = ledger.start
      /\ ledger'.rewards = [ledger.rewards EXCEPT ![v] = r]
  BY <1>5, <1>7
<1>9. /\ ledger'.rewards = [u \in Vals |-> ledger'.rewards[u]]
      /\ ledger'.rewards[v] = r
      /\ \A u \in Vals \ {v} : ledger'.rewards[u] = ledger.rewards[u]
  BY <1>4, <1>8 DEF LedgerOK
<1>10. RewardsOK(r)
  BY <1>6 DEF Counted
<1>11. LedgerOK(ledger')
  BY <1>4, <1>8, <1>9, <1>10 DEF LedgerOK
<1>12. Covers(ledger', DOMAIN delegation')
  BY <1>1, <1>4, <1>8 DEF Covers, stakingVars
<1>13. \A u \in Vals : IF u \in todo' THEN Cleared(ledger'.rewards[u])
                        ELSE Counted(ledger'.rewards[u], Empty)
  BY <1>1, <1>6, <1>9 DEF IInv, CountsOK
<1>14. CASE stage' = "validators"
  BY <1>11, <1>12, <1>13, <1>14, <1>3 DEF CountsOK, IInv
<1>15. CASE stage' = "delegations" /\ todo' = {} /\ pending' = DOMAIN delegation
  <2>1. Counting' = {} /\ delegation' = delegation
    BY <1>1, <1>15 DEF Counting, stakingVars
  <2>2. \A u : Starts(ledger', {}, u) = Empty
    BY DEF Starts, Empty
  <2>3. LedgerCounted(ledger', {})
    BY <1>11, <1>13, <1>15, <2>2 DEF LedgerCounted
  <2>4. CountsOK'
    BY <1>12, <1>15, <2>1, <2>3 DEF CountsOK
  <2> QED
    BY <1>3, <2>4 DEF IInv
<1> QED
  BY <1>1, <1>14, <1>15

\* The hook of a validator whose counts are exact finds its reference.
LEMMA MayIncrementLemma ==
    ASSUME NEW l, NEW live, LedgerCounted(l, live), NEW v \in Vals
    PROVE  MayIncrementPeriod(l, v)
<1>1. Counted(l.rewards[v], Starts(l, live, v))
  BY DEF LedgerCounted
<1> QED
  BY <1>1 DEF Counted, MayIncrementPeriod, MayDecrementRef, Refs, One

LEMMA ReinitializeDelegationInvariant ==
    ASSUME IInv, NEW d \in Accounts, NEW v \in Vals, ReinitializeDelegation(d, v)
    PROVE  IInv'
<1> DEFINE k == <<d, v>>
           live == DOMAIN delegation \ pending
           n == IncrementPeriod(ledger, v, validator[v].tokens)
           stake == StakeOf(Staking, d, v)
           m == InitializeDelegation(n, d, v, stake, 0)
<1>1. stage = "delegations" /\ k \in pending
  BY DEF ReinitializeDelegation, ExportStep, FirstPair
<1>2. LedgerCounted(ledger, live) /\ Covers(ledger, DOMAIN delegation) /\ k \in DOMAIN delegation
  BY <1>1 DEF IInv, CountsOK, Counting
<1>3. /\ ledger' = m /\ pending' = pending \ {k}
      /\ UNCHANGED <<stage, todo, stakingVars>>
  BY <1>2, MayIncrementLemma, DomainLemma DEF ReinitializeDelegation, MayBeforeDelegationCreated
<1>4. OthersOK'
  BY <1>1, <1>3 DEF IInv, OthersOK, ReinitializeDelegation, ExportStep, stakingVars
<1>5. validator[v].tokens \in Nat /\ validator \in [Vals -> Validator] /\ delegation[k] \in Nat
  BY <1>2 DEF IInv, OthersOK, Validator, IsPartial
<1>6. stake \in Int /\ 0 \in Nat
  BY <1>5, StakeType DEF StakeOf, Staking
<1>7. /\ LedgerCounted(n, live) /\ n.start = ledger.start
      /\ Untouched(n.rewards[v], Starts(n, live, v))
  BY <1>2, <1>5, IncrementPeriodLemma
<1> HIDE DEF n, stake
<1>8. Ready(n, live, d, v) /\ Covers(n, DOMAIN delegation)
  BY <1>1, <1>2, <1>7 DEF Ready, Covers
<1>9. /\ LedgerCounted(m, live \union {<<d, v>>})
      /\ Covers(m, DOMAIN delegation \union {<<d, v>>})
  BY <1>6, <1>8, InitializeDelegationLemma
<1> HIDE DEF m
<1>10. /\ live \union {<<d, v>>} = DOMAIN delegation \ (pending \ {k})
       /\ DOMAIN delegation \union {<<d, v>>} = DOMAIN delegation
  BY <1>1, <1>2
<1>11. LedgerCounted(m, DOMAIN delegation \ (pending \ {k})) /\ Covers(m, DOMAIN delegation)
  BY <1>9, <1>10
<1>12. Counting' = DOMAIN delegation \ (pending \ {k}) /\ delegation' = delegation
  BY <1>1, <1>3 DEF Counting, stakingVars
<1>13. CountsOK'
  BY <1>1, <1>3, <1>11, <1>12 DEF IInv, CountsOK
<1> QED
  BY <1>4, <1>13 DEF IInv

LEMMA ResetEntriesInvariant ==
    ASSUME IInv, ResetEntries
    PROVE  IInv'
<1>1. stage = "delegations" /\ pending = {} /\ stage' = "resetting"
      /\ UNCHANGED <<delegation, ledger>>
  BY DEF ResetEntries, ExportStep
<1>2. entries' \subseteq Entry
  BY DEF ResetEntries, IInv, OthersOK, Entry
<1>3. OthersOK'
  BY <1>1, <1>2 DEF IInv, OthersOK, ResetEntries, ExportStep, ExportStages
<1>4. CountsOK'
  BY <1>1 DEF IInv, CountsOK, Counting
<1> QED
  BY <1>3, <1>4 DEF IInv

LEMMA ResetValidatorsInvariant ==
    ASSUME IInv, ResetValidators
    PROVE  IInv'
<1>1. stage = "resetting" /\ stage' = "powers"
  BY DEF ResetValidators, ExportStep
<1>2. validator' \in [Vals -> Validator]
  <2>1. \A v \in Vals : /\ validator[v] \in Validator
                         /\ (validator[v].jailed \/ Omitted(v)) \in BOOLEAN
    BY DEF IInv, OthersOK
  <2>2. \A v \in Vals : [validator[v] EXCEPT !.unbondingHeight = 0, !.jailed = @ \/ Omitted(v)]
                         \in Validator
    BY <2>1 DEF Validator
  <2> QED
    BY <2>2, DomainLemma DEF ResetValidators
<1>3. OthersOK'
  BY <1>1, <1>2 DEF IInv, OthersOK, ResetValidators, ExportStep, ExportStages
<1>4. CountsOK'
  BY <1>1, SameCounts DEF IInv, ResetValidators
<1> QED
  BY <1>3, <1>4 DEF IInv

LEMMA ApplyPowersInvariant ==
    ASSUME IInv, ApplyPowers
    PROVE  IInv'
<1>1. stage = "powers" /\ stage' \in {"infos", "panicked"}
  BY DEF ApplyPowers
<1>2. /\ validator' \in [Vals -> Validator] /\ last' \subseteq Vals
      /\ signing' \in [Vals -> Nat \union {NoInfo}]
  BY AppliedType DEF ApplyPowers, IInv, OthersOK
<1>3. OthersOK'
  BY <1>1, <1>2 DEF IInv, OthersOK, ApplyPowers, exportVars, ExportStages, EndStages
<1>4. CountsOK'
  BY <1>1, SameCounts DEF IInv, ApplyPowers
<1> QED
  BY <1>3, <1>4 DEF IInv

LEMMA SigningInfosInvariant ==
    ASSUME IInv, ResetSigningInfos
    PROVE  IInv'
<1>1. stage = "infos" /\ stage' = "writing"
  BY DEF ResetSigningInfos
<1>2. signing' \in [Vals -> Nat \union {NoInfo}]
  BY DEF ResetSigningInfos, IInv, OthersOK
<1>3. OthersOK'
  BY <1>1, <1>2 DEF IInv, OthersOK, ResetSigningInfos, exportVars, stakingVars, ExportStages
<1>4. CountsOK'
  BY <1>1, SameCounts DEF IInv, ResetSigningInfos, stakingVars
<1> QED
  BY <1>3, <1>4 DEF IInv

LEMMA WriteGenesisInvariant ==
    ASSUME IInv, WriteGenesis
    PROVE  IInv'
<1>1. stage = "writing" /\ stage' = "exported"
  BY DEF WriteGenesis
<1>2. OthersOK'
  BY <1>1 DEF IInv, OthersOK, WriteGenesis, stakingVars, EndStages
<1>3. CountsOK'
  BY <1>1, SameCounts DEF IInv, WriteGenesis, stakingVars
<1> QED
  BY <1>2, <1>3 DEF IInv

LEMMA ImportGenesisInvariant ==
    ASSUME IInv, ImportGenesis
    PROVE  IInv'
<1>1. stage = "exported" /\ stage' \in {"committed", "refused"}
  BY DEF ImportGenesis
<1>2. height' \in Nat /\ horizon' \in Nat /\ powerIndex' \subseteq Vals /\ resumed' \in BOOLEAN
  <2>1. height \in Nat /\ horizon \in Nat /\ powerIndex \subseteq Vals /\ resumed \in BOOLEAN
    BY DEF IInv, OthersOK
  <2>2. height' \in Nat
    BY <2>1 DEF ImportGenesis
  <2>3. horizon' \in Nat
    BY <2>1, <2>2, ExportAssumption DEF ImportGenesis
  <2>4. powerIndex' \subseteq Vals /\ resumed' \in BOOLEAN
    BY <2>1, DomainLemma DEF ImportGenesis
  <2> QED
    BY <2>2, <2>3, <2>4
<1>3. OthersOK'
  BY <1>1, <1>2 DEF IInv, OthersOK, ImportGenesis, BlockStages, EndStages
<1>4. CountsOK'
  BY <1>1, SameCounts DEF IInv, ImportGenesis
<1> QED
  BY <1>3, <1>4 DEF IInv

----------------------------------------------------------------------------
\* The invariant and the theorems.

LEMMA ChainStepInvariant ==
    ASSUME IInv, ChainStep
    PROVE  IInv'
<1>1. Block(horizon) /\ UNCHANGED exportVars
  BY DEF ChainStep
<1>2. CASE BeginBlock
  BY <1>1, <1>2, BeginBlockInvariant
<1>3. CASE \E v \in todo : AllocateTokensToValidator(v)
  BY <1>1, <1>3, DomainLemma, AllocateInvariant
<1>4. CASE NoOffence
  BY <1>1, <1>4, NoOffenceInvariant
<1>5. CASE \E v \in last : SlashAndJail(v)
  BY <1>1, <1>5, DomainLemma, SlashInvariant
<1>6. CASE Transaction
  <2>1. CASE \E d \in Accounts, v \in Vals : Delegate(d, v)
    BY <1>1, <2>1, DelegateInvariant
  <2>2. CASE \E d \in Accounts, v \in Vals : Undelegate(d, v)
    BY <1>1, <2>2, UndelegateInvariant
  <2>3. CASE \E d \in Accounts, v \in Vals : WithdrawDelegatorReward(d, v)
    BY <1>1, <2>3, WithdrawRewardInvariant
  <2>4. CASE \E d \in Accounts, v \in Vals, w \in Vals : BeginRedelegate(d, v, w)
    BY <1>1, <2>4, RedelegateInvariant
  <2>5. CASE \E v \in Vals : Unjail(v)
    BY <1>1, <2>5, UnjailInvariant
  <2> QED
    BY <1>6, <2>1, <2>2, <2>3, <2>4, <2>5, DomainLemma DEF Transaction
<1>7. CASE EndBlock
  BY <1>1, <1>7, EndBlockInvariant
<1> QED
  BY <1>1, <1>2, <1>3, <1>4, <1>5, <1>6, <1>7 DEF Block

LEMMA ExportInvariant ==
    ASSUME IInv, PrepForZeroHeightGenesis
    PROVE  IInv'
<1>1. CASE \E v \in todo : WithdrawAllCommission(v)
  BY <1>1, DomainLemma, CommissionInvariant
<1>2. CASE \E k \in pending : WithdrawAllRewards(k[1], k[2])
  <2>1. PICK k \in pending : WithdrawAllRewards(k[1], k[2])
    BY <1>2
  <2>2. k[1] \in Accounts /\ k[2] \in Vals
    BY DomainLemma DEF Pairs
  <2> QED
    BY <2>1, <2>2, RewardsInvariant
<1>3. CASE \E v \in todo : ReinitializeValidator(v)
  BY <1>3, DomainLemma, ReinitializeValidatorInvariant
<1>4. CASE \E k \in pending : ReinitializeDelegation(k[1], k[2])
  <2>1. PICK k \in pending : ReinitializeDelegation(k[1], k[2])
    BY <1>4
  <2>2. k[1] \in Accounts /\ k[2] \in Vals
    BY DomainLemma DEF Pairs
  <2> QED
    BY <2>1, <2>2, ReinitializeDelegationInvariant
<1>5. CASE ClearPeriods \/ ResetEntries \/ ResetValidators \/ ApplyPowers \/ ResetSigningInfos
  BY <1>5, ClearPeriodsInvariant, ResetEntriesInvariant, ResetValidatorsInvariant,
     ApplyPowersInvariant, SigningInfosInvariant
<1> QED
  BY <1>1, <1>2, <1>3, <1>4, <1>5 DEF PrepForZeroHeightGenesis

LEMMA StutterInvariant ==
    ASSUME IInv, UNCHANGED vars
    PROVE  IInv'
  BY DEF IInv, OthersOK, CountsOK, Counting, vars, chainVars, exportVars, stakingVars

LEMMA NextInvariant ==
    ASSUME IInv, [Next]_vars
    PROVE  IInv'
<1>1. CASE ChainStep
  BY <1>1, ChainStepInvariant
<1>2. CASE \E zero \in ZeroHeight, list \in JailLists : BeginExport(zero, list)
  BY <1>2, BeginExportInvariant
<1>3. CASE PrepForZeroHeightGenesis
  BY <1>3, ExportInvariant
<1>4. CASE WriteGenesis
  BY <1>4, WriteGenesisInvariant
<1>5. CASE ImportGenesis
  BY <1>5, ImportGenesisInvariant
<1>6. CASE UNCHANGED vars
  BY <1>6, StutterInvariant
<1> QED
  BY <1>1, <1>2, <1>3, <1>4, <1>5, <1>6 DEF Next

LEMMA Invariance == Spec => []IInv
<1>1. Init => IInv
  BY InitInvariant
<1>2. IInv /\ [Next]_vars => IInv'
  BY NextInvariant
<1> QED
  BY <1>1, <1>2, PTL DEF Spec

\* Every variable keeps its type, for any validators, delegators, parameters
\* and bounds: no token, share, period or reference count is ever negative,
\* whatever the handlers of the chain and the loops of the export do.
THEOREM TypesHold == Spec => []TypeOK
<1>1. IInv => TypeOK
  BY TypeOfIInv
<1> QED
  BY <1>1, Invariance, PTL

\* The reference counts are exact in the chain, at every step of
\* prepForZeroHeightGenesis and in the chain started from the exported genesis.
THEOREM CountsAreExact == Spec => []RefCounts
<1>1. IInv => RefCounts
  BY RefCountsOfIInv
<1> QED
  BY <1>1, Invariance, PTL

----------------------------------------------------------------------------
\* What the operators of the ledger do to the heights in it.

Shape(l) ==
    /\ {"rewards", "start", "pool", "balance"} \subseteq DOMAIN l
    /\ DOMAIN l.rewards = Vals
    /\ \A v \in Vals : {"slashes", "historical"} \subseteq DOMAIN l.rewards[v]

\* From l to m no height changes but those of starting infos in K, which become h.
Restarts(l, m, K, h) ==
    /\ Shape(m)
    /\ \A v \in Vals : m.rewards[v].slashes = l.rewards[v].slashes
    /\ \A j \in DOMAIN m.start :
          \/ j \in DOMAIN l.start /\ m.start[j] = l.start[j]
          \/ j \in K /\ m.start[j].height = h

LEMMA ShapeOfIInv ==
    ASSUME IInv
    PROVE  Shape(ledger)
  BY LedgerTyped DEF IInv, LedgerOK, RewardsOK, Shape

LEMMA RestartsTwice ==
    ASSUME NEW l, NEW m, NEW n, NEW K, NEW h, Restarts(l, m, K, h), Restarts(m, n, K, h)
    PROVE  Restarts(l, n, K, h)
  BY DEF Restarts

LEMMA IncrementPeriodRestarts ==
    ASSUME NEW l, Shape(l), NEW v \in Vals, NEW tokens, NEW K, NEW h
    PROVE  Restarts(l, IncrementPeriod(l, v, tokens), K, h)
<1> DEFINE m == IncrementPeriod(l, v, tokens)
           e == EndPeriod(l.rewards[v], tokens)
<1>1. /\ m.start = l.start /\ m.rewards = [l.rewards EXCEPT ![v] = e]
      /\ {"rewards", "start", "pool", "balance"} \subseteq DOMAIN m
  BY DEF Shape, IncrementPeriod
<1>2. {"slashes", "historical"} \subseteq DOMAIN e /\ e.slashes = l.rewards[v].slashes
  BY DEF EndPeriod
<1> HIDE DEF m, e
<1> QED
  BY <1>1, <1>2 DEF Restarts, Shape, m

LEMMA InitializeDelegationRestarts ==
    ASSUME NEW l, Shape(l), NEW d, NEW v \in Vals, NEW stake, NEW K, NEW h,
           <<d, v>> \in K
    PROVE  /\ Restarts(l, InitializeDelegation(l, d, v, stake, h), K, h)
           /\ InitializeDelegation(l, d, v, stake, h).start[<<d, v>>].height = h
<1> DEFINE m == InitializeDelegation(l, d, v, stake, h)
           p == l.rewards[v].period - 1
           r == IncrementRef(l.rewards[v], p)
           info == [period |-> p, stake |-> stake, height |-> h]
<1>1. /\ m.start = Put(l.start, <<d, v>>, info) /\ m.rewards = [l.rewards EXCEPT ![v] = r]
      /\ {"rewards", "start", "pool", "balance"} \subseteq DOMAIN m
  BY DEF Shape, InitializeDelegation
<1>2. {"slashes", "historical"} \subseteq DOMAIN r /\ r.slashes = l.rewards[v].slashes
  BY DEF IncrementRef, Shape
<1>3. info.height = h
  OBVIOUS
<1> HIDE DEF m, r, info
<1> QED
  BY <1>1, <1>2, <1>3 DEF Restarts, Shape, Put, m

LEMMA WithdrawRewardsRestarts ==
    ASSUME NEW l, Shape(l), NEW d, NEW v \in Vals, NEW tokens, NEW at, NEW stake,
           NEW K, NEW h
    PROVE  Restarts(l, WithdrawRewards(l, d, v, tokens, at, stake), K, h)
<1> DEFINE w == WithdrawRewards(l, d, v, tokens, at, stake)
           n == IncrementPeriod(l, v, tokens)
           info == l.start[<<d, v>>]
           reward == Payable(n.rewards[v],
                             DelegationRewards(n.rewards[v], info, at, l.rewards[v].period, stake))
           r == PaidOut(n.rewards[v], info.period, reward)
<1>1. Restarts(l, n, K, h) /\ Shape(n)
  BY IncrementPeriodRestarts DEF Restarts
<1>2. w = [n EXCEPT !.balance = @ - Truncate(reward),
                    !.pool = @ + (reward - Truncate(reward)),
                    !.rewards[v] = r,
                    !.start = Drop(@, <<d, v>>)]
  BY DEF WithdrawRewards
<1> HIDE DEF n, reward, info, w
<1>3. {"slashes", "historical"} \subseteq DOMAIN r /\ r.slashes = n.rewards[v].slashes
  BY <1>1 DEF PaidOut, DecrementRef, Shape
<1> HIDE DEF r
<1>4. /\ w.start = Drop(n.start, <<d, v>>) /\ w.rewards = [n.rewards EXCEPT ![v] = r]
      /\ {"rewards", "start", "pool", "balance"} \subseteq DOMAIN w
  BY <1>1, <1>2 DEF Shape
<1>5. Restarts(n, w, K, h)
  BY <1>1, <1>3, <1>4 DEF Restarts, Shape, Drop
<1>6. Restarts(l, w, K, h)
  BY <1>1, <1>5, RestartsTwice
<1> QED
  BY <1>6 DEF w

LEMMA AllocateTokensRestarts ==
    ASSUME NEW l, Shape(l), NEW v \in Vals, NEW coins, NEW amount, NEW part, NEW K, NEW h
    PROVE  Restarts(l, AllocateTokens(l, v, coins, amount, part), K, h)
<1> DEFINE m == AllocateTokens(l, v, coins, amount, part)
           r == Earned(l.rewards[v], amount, part)
<1>1. /\ m.start = l.start /\ m.rewards = [l.rewards EXCEPT ![v] = r]
      /\ {"rewards", "start", "pool", "balance"} \subseteq DOMAIN m
  BY DEF Shape, AllocateTokens
<1>2. {"slashes", "historical"} \subseteq DOMAIN r /\ r.slashes = l.rewards[v].slashes
  BY DEF Earned, Shape
<1> HIDE DEF m, r
<1> QED
  BY <1>1, <1>2 DEF Restarts, Shape, m

LEMMA WithdrawCommissionRestarts ==
    ASSUME NEW l, Shape(l), NEW v \in Vals, NEW K, NEW h
    PROVE  Restarts(l, WithdrawCommission(l, v), K, h)
<1> DEFINE m == WithdrawCommission(l, v)
           r == WithoutCommission(l.rewards[v])
<1>1. /\ m.start = l.start /\ m.rewards = [l.rewards EXCEPT ![v] = r]
      /\ {"rewards", "start", "pool", "balance"} \subseteq DOMAIN m
  BY DEF Shape, WithdrawCommission
<1>2. {"slashes", "historical"} \subseteq DOMAIN r /\ r.slashes = l.rewards[v].slashes
  BY DEF WithoutCommission, Shape
<1> HIDE DEF m, r
<1> QED
  BY <1>1, <1>2 DEF Restarts, Shape, m

LEMMA InitializeValidatorRestarts ==
    ASSUME NEW l, Shape(l), NEW v \in Vals, NEW K, NEW h
    PROVE  Restarts(l, InitializeValidator(DonateOutstanding(l, v), v), K, h)
<1> DEFINE n == DonateOutstanding(l, v)
           m == InitializeValidator(n, v)
           r == [outstanding |-> 0, commission |-> 0, current |-> 0, period |-> 1,
                 historical  |-> Put(n.rewards[v].historical, 0, [ratio |-> 0, refs |-> 1]),
                 slashes     |-> n.rewards[v].slashes]
<1>1. n.start = l.start /\ n.rewards = l.rewards /\ Shape(n)
  BY DEF DonateOutstanding, Shape
<1> HIDE DEF n
<1>2. /\ m.start = n.start /\ m.rewards = [n.rewards EXCEPT ![v] = r]
      /\ {"rewards", "start", "pool", "balance"} \subseteq DOMAIN m
  BY <1>1 DEF Shape, InitializeValidator
<1>3. {"slashes", "historical"} \subseteq DOMAIN r /\ r.slashes = l.rewards[v].slashes
  BY <1>1
<1> HIDE DEF m, r
<1>4. Restarts(l, m, K, h)
  BY <1>1, <1>2, <1>3 DEF Restarts, Shape
<1> QED
  BY <1>4 DEF m, n

\* A slash adds one event, at the height given.
LEMMA RecordSlashHeights ==
    ASSUME NEW l, Shape(l), NEW v \in Vals, NEW tokens, NEW h, NEW fraction
    PROVE  LET m == RecordSlash(l, v, tokens, h, fraction) IN
           /\ m.start = l.start
           /\ \A u \in Vals : \A e \in m.rewards[u].slashes :
                 e \in l.rewards[u].slashes \/ e.height = h
<1> DEFINE m == RecordSlash(l, v, tokens, h, fraction)
           n == IncrementPeriod(l, v, tokens)
           r == WithSlash(n.rewards[v], h, fraction)
           e == [height |-> h, period |-> n.rewards[v].period - 1, fraction |-> fraction]
<1>1. Shape(n) /\ n.start = l.start /\ \A u \in Vals : n.rewards[u].slashes = l.rewards[u].slashes
  <2>1. Restarts(l, n, {}, h)
    BY IncrementPeriodRestarts
  <2>2. n.start = l.start
    BY DEF IncrementPeriod, Shape
  <2> QED
    BY <2>1, <2>2 DEF Restarts
<1>2. m = [n EXCEPT !.rewards[v] = r]
  BY DEF RecordSlash
<1> HIDE DEF n, m
<1>3. r.slashes = n.rewards[v].slashes \union {e}
  BY <1>1 DEF WithSlash, IncrementRef, Shape
<1>4. e.height = h
  OBVIOUS
<1> HIDE DEF r, e
<1>5. m.start = n.start /\ m.rewards = [n.rewards EXCEPT ![v] = r]
  BY <1>1, <1>2 DEF Shape
<1>6. \A u \in Vals : \A x \in m.rewards[u].slashes :
         x \in l.rewards[u].slashes \/ x.height = h
  BY <1>1, <1>3, <1>4, <1>5 DEF Shape
<1> QED
  BY <1>1, <1>5, <1>6 DEF m

----------------------------------------------------------------------------
\* What the operators of staking do to them.

\* A validator keeps the height at which it began unbonding.
KeepsUnbonding(s, u) ==
    \A v \in Vals : u.validator[v].unbondingHeight = s.validator[v].unbondingHeight

LEMMA ShapeOfStaking ==
    ASSUME NEW s, StakingOK(s)
    PROVE  Shape(s.ledger)
<1>1. LedgerOK(s.ledger)
  BY DEF StakingOK, LedgerCounted
<1> QED
  BY <1>1 DEF LedgerOK, RewardsOK, Shape

LEMMA DelegatedHeights ==
    ASSUME NEW s, StakingOK(s), NEW d, NEW v \in Vals, NEW n, NEW K, NEW h, <<d, v>> \in K
    PROVE  /\ Restarts(s.ledger, Delegated(s, d, v, n, h).ledger, K, h)
           /\ KeepsUnbonding(s, Delegated(s, d, v, n, h))
<1> DEFINE k == <<d, v>>
           has == k \in DOMAIN s.delegation
           issued == SharesFromTokens(s, v, n)
           hooked == IF has THEN Withdrawn(s, d, v, h)
                     ELSE IncrementPeriod(s.ledger, v, s.validator[v].tokens)
           val == AddTokens(s.validator[v], n, issued)
           t == [s EXCEPT
                   !.validator[v] = AddTokens(@, n, issued),
                   !.delegation = Put(@, k, issued + IF has THEN @[k] ELSE 0),
                   !.bondedPool = @ + IfBonded(s, v, n)]
           u == Delegated(s, d, v, n, h)
<1>1. u = [t EXCEPT !.ledger = InitializeDelegation(hooked, d, v, StakeOf(t, d, v), h)]
  BY DEF Delegated
<1>2. Restarts(s.ledger, hooked, K, h)
  <2>1. Restarts(s.ledger, Withdrawn(s, d, v, h), K, h)
    BY ShapeOfStaking, WithdrawRewardsRestarts DEF Withdrawn
  <2>2. Restarts(s.ledger, IncrementPeriod(s.ledger, v, s.validator[v].tokens), K, h)
    BY ShapeOfStaking, IncrementPeriodRestarts
  <2> QED
    BY <2>1, <2>2
<1>3. val.unbondingHeight = s.validator[v].unbondingHeight
  BY DEF AddTokens, StakingOK, Validator
<1> HIDE DEF hooked, has, issued, val, u
<1>4. /\ t.validator = [s.validator EXCEPT ![v] = val]
      /\ DOMAIN t = {"validator", "delegation", "powerIndex", "bondedPool", "ledger"}
  BY DEF StakingOK, val
<1> HIDE DEF t
<1>5. /\ u.validator = [s.validator EXCEPT ![v] = val]
      /\ u.ledger = InitializeDelegation(hooked, d, v, StakeOf(t, d, v), h)
  BY <1>1, <1>4
<1>6. Restarts(hooked, u.ledger, K, h)
  BY <1>2, <1>5, InitializeDelegationRestarts DEF Restarts
<1>7. Restarts(s.ledger, u.ledger, K, h)
  BY <1>2, <1>6, RestartsTwice
<1>8. KeepsUnbonding(s, u)
  BY <1>3, <1>5 DEF KeepsUnbonding, StakingOK
<1> QED
  BY <1>7, <1>8 DEF u

LEMMA UnbondedHeights ==
    ASSUME NEW s, StakingOK(s), NEW d, NEW v \in Vals, NEW n, NEW K, NEW h, <<d, v>> \in K
    PROVE  /\ Restarts(s.ledger, Unbonded(s, d, v, n, h).ledger, K, h)
           /\ KeepsUnbonding(s, Unbonded(s, d, v, n, h))
<1> DEFINE k == <<d, v>>
           left == s.delegation[k] - n
           hooked == Withdrawn(s, d, v, h)
           jail == d = v /\ Stake(s, v, left) < Precision
           val == RemoveTokens(s.validator[v], TokensRemoved(s, v, n), n, jail)
           u == Unbonded(s, d, v, n, h)
<1>1. /\ u.validator = [s.validator EXCEPT ![v] = val]
      /\ u.ledger = (IF left = 0 THEN hooked
                     ELSE InitializeDelegation(hooked, d, v, Stake(s, v, left), h))
  BY DEF Unbonded
<1>2. Restarts(s.ledger, hooked, K, h)
  BY ShapeOfStaking, WithdrawRewardsRestarts DEF Withdrawn
<1>3. val.unbondingHeight = s.validator[v].unbondingHeight
  BY DEF RemoveTokens, StakingOK, Validator
<1> HIDE DEF hooked, val, u, left
<1>4. Restarts(s.ledger, InitializeDelegation(hooked, d, v, Stake(s, v, left), h), K, h)
  <2>1. Restarts(hooked, InitializeDelegation(hooked, d, v, Stake(s, v, left), h), K, h)
    BY <1>2, InitializeDelegationRestarts DEF Restarts
  <2> QED
    BY <1>2, <2>1, RestartsTwice
<1>5. Restarts(s.ledger, u.ledger, K, h)
  BY <1>1, <1>2, <1>4
<1>6. KeepsUnbonding(s, u)
  BY <1>1, <1>3 DEF KeepsUnbonding, StakingOK
<1> QED
  BY <1>5, <1>6 DEF u

\* The active set depends on the index and on tokens only.
LEMMA TopOfTokens ==
    ASSUME NEW index, NEW val, NEW other,
           \A v \in index : val[v].tokens = other[v].tokens
    PROVE  Top(index, val) = Top(index, other)
<1>0. \A v \in index : Power(v, val) = Power(v, other)
  BY DEF Power
<1>1. \A u, v \in index : Ahead(u, v, val) <=> Ahead(u, v, other)
  BY <1>0 DEF Ahead
<1>2. ASSUME NEW v \in index
      PROVE  Rank(v, index, val) = Rank(v, index, other)
  <2>1. {u \in index : Ahead(u, v, val)} = {u \in index : Ahead(u, v, other)}
    BY <1>1
  <2> QED
    BY <2>1 DEF Rank
<1>3. Visited(index, val) = Visited(index, other)
  BY <1>0, <1>1, <1>2 DEF Visited
<1> QED
  BY <1>0, <1>3 DEF Top, Visited

----------------------------------------------------------------------------
\* The invariant: which heights the export has written again, stage by stage.

AfterEntries    == {"resetting", "powers", "infos", "writing", "exported"}
AfterSlashes    == {"validators", "delegations"} \union AfterEntries
AfterValidators == AfterEntries \ {"resetting"}
AfterInfos      == {"writing", "exported"}

\* The latest height a record may have, where the stages in S are those in which
\* an export for zero height has written it.
Latest(S) == IF forZeroHeight /\ stage \in S THEN 0 ELSE height

StartLimit(k) ==
    IF stage = "delegations" /\ k \in pending THEN height
    ELSE Latest({"delegations"} \union AfterEntries)

Starting  == \A k \in DOMAIN ledger.start : ledger.start[k].height <= StartLimit(k)
Slashing  == \A v \in Vals : \A e \in ledger.rewards[v].slashes :
                e.height <= Latest(AfterSlashes)
Unbonding == \A v \in Vals : validator[v].unbondingHeight <= Latest(AfterValidators)
Signing   == \A v \in Vals : signing[v] <= Latest(AfterInfos)
Entering  == \A e \in entries : e.height <= Latest(AfterEntries)

Heights == Starting /\ Slashing /\ Unbonding /\ Signing /\ Entering

\* The set is formed anew before infos are written: nobody starts unbonding then,
\* because the set of the exported state is still the top of the index.
ActiveIsTop ==
    ~ resumed /\ stage \in {"committed"} \union (ExportStages \ {"infos", "writing"})
        => last = Top(powerIndex, validator)

Exporting ==
    stage \in ExportStages => ~ resumed /\ (stage # "writing" => forZeroHeight)

HInv == Exporting /\ ActiveIsTop /\ Heights

LEMMA NothingOfHInv ==
    ASSUME HInv
    PROVE  NothingFromTheFuture
  BY DEF HInv, Heights, Starting, Slashing, Unbonding, Signing, Entering, Latest, StartLimit,
         AfterEntries, AfterSlashes, AfterValidators, AfterInfos, NothingFromTheFuture

LEMMA HeightTypes ==
    ASSUME IInv
    PROVE  /\ height \in Nat
           /\ \A k \in DOMAIN ledger.start : ledger.start[k].height \in Nat
           /\ \A v \in Vals : /\ \A e \in ledger.rewards[v].slashes : e.height \in Nat
                              /\ validator[v].unbondingHeight \in Nat
                              /\ signing[v] \in Int
           /\ \A e \in entries : e.height \in Nat
<1>1. LedgerOK(ledger) /\ OthersOK
  BY LedgerTyped DEF IInv
<1>2. \A k \in DOMAIN ledger.start : ledger.start[k].height \in Nat
  BY <1>1 DEF LedgerOK, IsPartial, StartingInfo
<1>3. \A v \in Vals : \A e \in ledger.rewards[v].slashes : e.height \in Nat
  BY <1>1 DEF LedgerOK, RewardsOK, SlashEvent
<1>4. \A v \in Vals : validator[v].unbondingHeight \in Nat
  BY <1>1 DEF OthersOK, Validator
<1>5. height \in Nat /\ \A v \in Vals : signing[v] \in Int
  BY <1>1 DEF OthersOK, NoInfo
<1>6. \A e \in entries : e.height \in Nat
  BY <1>1 DEF OthersOK, Entry
<1> QED
  BY <1>2, <1>3, <1>4, <1>5, <1>6

LEMMA InitHeights == Init => HInv
<1> SUFFICES ASSUME Init PROVE HInv
  OBVIOUS
<1>1. /\ height = 0 /\ stage = "committed" /\ entries = {}
      /\ \A k \in DOMAIN ledger.start : ledger.start[k].height = 0
      /\ \A v \in Vals : ledger.rewards[v].slashes = {}
      /\ \A v \in Vals : signing[v] <= 0
  BY DEF Init, InitChain, GenesisRewards, NoInfo
<1>2. \A v \in Vals : /\ validator[v].unbondingHeight = 0
                      /\ validator[v].tokens = GenesisValidator(v).tokens
  BY DEF Init, InitChain, GenesisValidator
<1>3. last = Top(powerIndex, validator)
  <2> DEFINE genesis == [v \in Vals |-> GenesisValidator(v)]
  <2>1. last = Top(Vals, genesis) /\ powerIndex = Vals
    BY DEF Init, InitChain, GenesisSet
  <2>2. \A v \in Vals : validator[v].tokens = genesis[v].tokens
    BY <1>2
  <2> HIDE DEF genesis
  <2> QED
    BY <2>1, <2>2, TopOfTokens
<1> QED
  BY <1>1, <1>2, <1>3 DEF HInv, Exporting, ActiveIsTop, Heights, Starting, Slashing, Unbonding,
     Signing, Entering, Latest, StartLimit, AfterEntries, AfterSlashes, AfterValidators,
     AfterInfos, ExportStages

----------------------------------------------------------------------------
\* Blocks.

LEMMA BlockLimits ==
    ASSUME stage \in BlockStages
    PROVE  /\ Latest(AfterEntries) = height /\ Latest(AfterSlashes) = height
           /\ Latest(AfterValidators) = height /\ Latest(AfterInfos) = height
           /\ \A k : StartLimit(k) = height
  BY DEF Latest, StartLimit, AfterEntries, AfterSlashes, AfterValidators, AfterInfos, BlockStages

LEMMA BlockLimitsAfter ==
    ASSUME stage' \in BlockStages
    PROVE  /\ Latest(AfterEntries)' = height' /\ Latest(AfterSlashes)' = height'
           /\ Latest(AfterValidators)' = height' /\ Latest(AfterInfos)' = height'
           /\ \A k : StartLimit(k)' = height'
  BY DEF Latest, StartLimit, AfterEntries, AfterSlashes, AfterValidators, AfterInfos, BlockStages

\* Within a block a height is either what it was or the height of the block.
LEMMA InBlock ==
    ASSUME IInv, HInv, UNCHANGED height, stage \in BlockStages, stage' \in BlockStages,
           \A k \in DOMAIN ledger'.start :
              \/ k \in DOMAIN ledger.start /\ ledger'.start[k] = ledger.start[k]
              \/ ledger'.start[k].height = height,
           \A v \in Vals : \A e \in ledger'.rewards[v].slashes :
              e \in ledger.rewards[v].slashes \/ e.height = height,
           \A v \in Vals : /\ validator'[v].unbondingHeight
                                 \in {validator[v].unbondingHeight, height}
                           /\ signing'[v] \in {signing[v], height},
           \A e \in entries' : e \in entries \/ e.height <= height,
           stage' = "committed" => last' = Top(powerIndex', validator')
    PROVE  HInv'
<1>1. height \in Nat
  BY HeightTypes
<1>2. Starting'
  BY <1>1, BlockLimits, BlockLimitsAfter DEF HInv, Heights, Starting
<1>3. Slashing'
  BY <1>1, BlockLimits, BlockLimitsAfter DEF HInv, Heights, Slashing
<1>4. Unbonding' /\ Signing'
  BY <1>1, BlockLimits, BlockLimitsAfter DEF HInv, Heights, Unbonding, Signing
<1>5. Entering'
  BY BlockLimits, BlockLimitsAfter DEF HInv, Heights, Entering
<1>6. Exporting' /\ ActiveIsTop'
  BY DEF Exporting, ActiveIsTop, BlockStages, ExportStages
<1> QED
  BY <1>2, <1>3, <1>4, <1>5, <1>6 DEF HInv, Heights

LEMMA BeginBlockHeights ==
    ASSUME IInv, HInv, BeginBlock, UNCHANGED exportVars
    PROVE  HInv'
<1>1. /\ stage = "committed" /\ stage' \in {"distributing", "slashing"}
      /\ height' = height + 1 /\ UNCHANGED <<stakingVars, ledger, signing>>
      /\ stage \in BlockStages /\ stage' \in BlockStages
  BY DEF BeginBlock, BlockStages
<1>2. Starting'
  BY <1>1, BlockLimits, BlockLimitsAfter, HeightTypes DEF HInv, Heights, Starting
<1>3. Slashing'
  BY <1>1, BlockLimits, BlockLimitsAfter, HeightTypes DEF HInv, Heights, Slashing
<1>4. Unbonding' /\ Signing'
  BY <1>1, BlockLimits, BlockLimitsAfter, HeightTypes
     DEF HInv, Heights, Unbonding, Signing, stakingVars
<1>5. Entering'
  BY <1>1, BlockLimits, BlockLimitsAfter, HeightTypes DEF HInv, Heights, Entering, stakingVars
<1>6. Exporting' /\ ActiveIsTop'
  BY <1>1 DEF Exporting, ActiveIsTop, ExportStages
<1> QED
  BY <1>2, <1>3, <1>4, <1>5, <1>6 DEF HInv, Heights

\* A step of a block that moves the ledger, and nothing else with a height.
LEMMA LedgerHeights ==
    ASSUME IInv, HInv, NEW K, Restarts(ledger, ledger', K, height),
           \A v \in Vals : validator'[v].unbondingHeight = validator[v].unbondingHeight,
           UNCHANGED <<height, signing>>, stage \in BlockStages,
           stage' \in BlockStages \ {"committed"},
           \A e \in entries' : e \in entries \/ e.height <= height
    PROVE  HInv'
<1>1. \A j \in DOMAIN ledger'.start :
         \/ j \in DOMAIN ledger.start /\ ledger'.start[j] = ledger.start[j]
         \/ ledger'.start[j].height = height
  BY DEF Restarts
<1>2. \A v \in Vals : \A e \in ledger'.rewards[v].slashes : e \in ledger.rewards[v].slashes
  BY DEF Restarts
<1> QED
  BY <1>1, <1>2, InBlock

LEMMA AllocateHeights ==
    ASSUME IInv, HInv, NEW v \in Vals, AllocateTokensToValidator(v), UNCHANGED exportVars
    PROVE  HInv'
<1>1. Restarts(ledger, ledger', {}, height)
  BY ShapeOfIInv, AllocateTokensRestarts DEF AllocateTokensToValidator
<1>2. /\ UNCHANGED <<height, signing, validator, entries>>
      /\ stage \in BlockStages /\ stage' \in BlockStages \ {"committed"}
  BY DEF AllocateTokensToValidator, stakingVars, BlockStages
<1> QED
  BY <1>1, <1>2, LedgerHeights

LEMMA NoOffenceHeights ==
    ASSUME IInv, HInv, NoOffence, UNCHANGED exportVars
    PROVE  HInv'
  BY InBlock DEF NoOffence, stakingVars, BlockStages

LEMMA SlashHeights ==
    ASSUME IInv, HInv, NEW v \in Vals, SlashAndJail(v), UNCHANGED exportVars
    PROVE  HInv'
<1>1. /\ stage = "slashing" /\ stage' = "delivering" /\ UNCHANGED <<height, entries, signing>>
  BY DEF SlashAndJail
<1>2. /\ ledger'.start = ledger.start
      /\ \A u \in Vals : \A e \in ledger'.rewards[u].slashes :
            e \in ledger.rewards[u].slashes \/ e.height = height
  BY ShapeOfIInv, RecordSlashHeights DEF SlashAndJail
<1>3. \A u \in Vals : validator'[u].unbondingHeight = validator[u].unbondingHeight
  BY DEF SlashAndJail, IInv, OthersOK, Validator
<1> QED
  BY <1>1, <1>2, <1>3, InBlock DEF BlockStages

\* What a transaction makes of the staking state.
LEMMA BecomesHeights ==
    ASSUME IInv, HInv, Deliver, UNCHANGED exportVars, NEW K, NEW s,
           Restarts(ledger, s.ledger, K, height), KeepsUnbonding(Staking, s), Becomes(s),
           \A e \in entries' : e \in entries \/ e.height <= height
    PROVE  HInv'
<1>1. ledger' = s.ledger /\ validator' = s.validator
  BY DEF Becomes
<1>2. \A v \in Vals : validator'[v].unbondingHeight = validator[v].unbondingHeight
  BY <1>1 DEF KeepsUnbonding, Staking
<1>3. UNCHANGED <<height, signing>> /\ stage = "delivering" /\ stage' = "ending"
  BY DEF Deliver
<1> QED
  BY <1>1, <1>2, <1>3, LedgerHeights DEF BlockStages

LEMMA StakingAtDelivery ==
    ASSUME IInv, Deliver
    PROVE  /\ StakingOK(Staking) /\ Staking.ledger = ledger /\ Staking.validator = validator
           /\ Staking.delegation = delegation
  BY StakingOfIInv DEF Deliver, Staking

LEMMA DelegateHeights ==
    ASSUME IInv, HInv, NEW d \in Accounts, NEW v \in Vals, Delegate(d, v), UNCHANGED exportVars
    PROVE  HInv'
<1> DEFINE s == Delegated(Staking, d, v, 1, height)
           K == {<<d, v>>}
<1>1. Deliver /\ Becomes(s) /\ entries' = entries
  BY DEF Delegate
<1>0. <<d, v>> \in K
  OBVIOUS
<1> HIDE DEF K
<1>2. Restarts(Staking.ledger, s.ledger, K, height) /\ KeepsUnbonding(Staking, s)
  BY <1>1, <1>0, StakingAtDelivery, DelegatedHeights
<1> HIDE DEF s
<1>3. Restarts(ledger, s.ledger, K, height)
  BY <1>1, <1>2, StakingAtDelivery
<1> QED
  BY <1>1, <1>2, <1>3, BecomesHeights

LEMMA UndelegateHeights ==
    ASSUME IInv, HInv, NEW d \in Accounts, NEW v \in Vals, Undelegate(d, v), UNCHANGED exportVars
    PROVE  HInv'
<1>1. PICK n \in Undelegable(d, v) : Becomes(Unbonded(Staking, d, v, n, height))
  BY DEF Undelegate
<1> DEFINE s == Unbonded(Staking, d, v, n, height)
           K == {<<d, v>>}
<1>0. <<d, v>> \in K
  OBVIOUS
<1> HIDE DEF K
<1>2. Deliver
  BY DEF Undelegate
<1>3. Restarts(Staking.ledger, s.ledger, K, height) /\ KeepsUnbonding(Staking, s)
  BY <1>2, <1>0, StakingAtDelivery, UnbondedHeights
<1>4. \A e \in entries' : e \in entries \/ e.height <= height
  BY HeightTypes DEF Undelegate
<1>5. Becomes(s)
  BY <1>1
<1> HIDE DEF s
<1>6. Restarts(ledger, s.ledger, K, height)
  BY <1>2, <1>3, StakingAtDelivery
<1> QED
  BY <1>2, <1>3, <1>4, <1>5, <1>6, BecomesHeights

LEMMA RedelegateHeights ==
    ASSUME IInv, HInv, NEW d \in Accounts, NEW v \in Vals, NEW w \in Vals,
           BeginRedelegate(d, v, w), UNCHANGED exportVars
    PROVE  HInv'
<1>1. Deliver
  BY DEF BeginRedelegate
<1>2. PICK n \in Undelegable(d, v) :
         Becomes(Delegated(Unbonded(Staking, d, v, n, height), d, w,
                           TokensRemoved(Staking, v, n), height))
  BY DEF BeginRedelegate
<1> DEFINE u == Unbonded(Staking, d, v, n, height)
           s == Delegated(u, d, w, TokensRemoved(Staking, v, n), height)
           K == {<<d, v>>, <<d, w>>}
<1>0. <<d, v>> \in K /\ <<d, w>> \in K
  OBVIOUS
<1> HIDE DEF K
<1>3. StakingOK(u)
  BY <1>1, StakingAtDelivery, HeightTypes, UndelegableLemma, UnbondedLemma DEF BeginRedelegate
<1>4. Restarts(Staking.ledger, u.ledger, K, height) /\ KeepsUnbonding(Staking, u)
  BY <1>1, <1>0, StakingAtDelivery, UnbondedHeights
<1>5. Becomes(s)
  BY <1>2
<1> HIDE DEF u
<1>6. Restarts(u.ledger, s.ledger, K, height) /\ KeepsUnbonding(u, s)
  BY <1>3, <1>0, DelegatedHeights
<1> HIDE DEF s
<1>7. Restarts(ledger, s.ledger, K, height)
  <2>1. Restarts(ledger, u.ledger, K, height)
    BY <1>1, <1>4, StakingAtDelivery
  <2> QED
    BY <1>6, <2>1, RestartsTwice
<1>8. KeepsUnbonding(Staking, s)
  BY <1>4, <1>6 DEF KeepsUnbonding
<1>9. \A e \in entries' : e \in entries \/ e.height <= height
  <2>1. validator[v].unbondingHeight <= height
    BY <1>1, BlockLimits DEF HInv, Heights, Unbonding, Deliver, BlockStages
  <2> QED
    BY <2>1, HeightTypes DEF BeginRedelegate
<1> QED
  BY <1>1, <1>5, <1>7, <1>8, <1>9, BecomesHeights

LEMMA WithdrawRewardHeights ==
    ASSUME IInv, HInv, NEW d \in Accounts, NEW v \in Vals, WithdrawDelegatorReward(d, v),
           UNCHANGED exportVars
    PROVE  HInv'
<1>1. Deliver /\ UNCHANGED stakingVars
  BY DEF WithdrawDelegatorReward
<1> DEFINE K == {<<d, v>>}
<1>0. <<d, v>> \in K
  OBVIOUS
<1> HIDE DEF K
<1>2. Restarts(ledger, ledger', K, height)
  <2> DEFINE w == Withdrawn(Staking, d, v, height)
  <2>1. Restarts(ledger, w, K, height)
    BY <1>1, StakingAtDelivery, ShapeOfIInv, WithdrawRewardsRestarts DEF Withdrawn
  <2>2. ledger' = InitializeDelegation(w, d, v, StakeOf(Staking, d, v), height)
    BY DEF WithdrawDelegatorReward
  <2>3. Shape(w)
    BY <2>1 DEF Restarts
  <2> HIDE DEF w
  <2>4. Restarts(w, ledger', K, height)
    BY <1>0, <2>2, <2>3, InitializeDelegationRestarts
  <2> QED
    BY <2>1, <2>4, RestartsTwice
<1>3. UNCHANGED <<height, signing, validator, entries>> /\ stage = "delivering"
      /\ stage' = "ending"
  BY <1>1 DEF Deliver, stakingVars
<1> QED
  BY <1>2, <1>3, LedgerHeights DEF BlockStages

LEMMA UnjailHeights ==
    ASSUME IInv, HInv, NEW v \in Vals, Unjail(v), UNCHANGED exportVars
    PROVE  HInv'
<1>1. \A u \in Vals : validator'[u].unbondingHeight = validator[u].unbondingHeight
  BY DEF Unjail, IInv, OthersOK, Validator
<1>2. /\ UNCHANGED <<height, signing, ledger, entries>>
      /\ stage = "delivering" /\ stage' = "ending"
  BY DEF Unjail, Deliver
<1> QED
  BY <1>1, <1>2, InBlock DEF BlockStages

\* The set is formed: tokens stay as they are, so it is still the top after it.
LEMMA AppliedHeights ==
    ASSUME IInv, NEW h, ApplyAndReturnValidatorSetUpdates(validator, h)
    PROVE  /\ last' = Top(powerIndex, validator) /\ last' = Top(powerIndex, validator')
           /\ \A v \in Vals :
                 /\ \/ validator'[v].unbondingHeight = validator[v].unbondingHeight
                    \/ v \in last \ last' /\ validator'[v].unbondingHeight = h
                 /\ signing'[v] = IF v \in last' \ last THEN h ELSE signing[v]
<1>1. validator \in [Vals -> Validator] /\ DOMAIN signing = Vals /\ powerIndex \subseteq Vals
  BY DEF IInv, OthersOK
<1>2. last' = Top(powerIndex, validator)
  BY DEF ApplyAndReturnValidatorSetUpdates
<1>3. validator' = Applied(powerIndex, validator, h)
  BY DEF ApplyAndReturnValidatorSetUpdates
<1>4. \A v \in Vals : validator'[v].tokens = validator[v].tokens
  BY <1>1, <1>3 DEF Applied, Validator
<1>5. Top(powerIndex, validator') = Top(powerIndex, validator)
  BY <1>1, <1>4, TopOfTokens
<1>6. \A v \in Vals : \/ validator'[v].unbondingHeight = validator[v].unbondingHeight
                      \/ v \in last \ last' /\ validator'[v].unbondingHeight = h
  BY <1>1, <1>2, <1>3 DEF Applied, Validator
<1>7. \A v \in Vals : signing'[v] = IF v \in last' \ last THEN h ELSE signing[v]
  BY <1>1, <1>2 DEF ApplyAndReturnValidatorSetUpdates
<1> QED
  BY <1>2, <1>5, <1>6, <1>7

LEMMA EndBlockHeights ==
    ASSUME IInv, HInv, EndBlock, UNCHANGED exportVars
    PROVE  HInv'
<1>1. /\ stage \in {"delivering", "ending"} /\ stage' = "committed"
      /\ UNCHANGED <<height, powerIndex, entries, ledger>>
      /\ ApplyAndReturnValidatorSetUpdates(validator, height)
  BY DEF EndBlock
<1>2. /\ last' = Top(powerIndex', validator')
      /\ \A v \in Vals : /\ validator'[v].unbondingHeight
                                 \in {validator[v].unbondingHeight, height}
                         /\ signing'[v] \in {signing[v], height}
  BY <1>1, AppliedHeights
<1> QED
  BY <1>1, <1>2, InBlock DEF BlockStages

LEMMA ChainStepHeights ==
    ASSUME IInv, HInv, ChainStep
    PROVE  HInv'
<1>1. Block(horizon) /\ UNCHANGED exportVars
  BY DEF ChainStep
<1>2. CASE BeginBlock
  BY <1>1, <1>2, BeginBlockHeights
<1>3. CASE \E v \in todo : AllocateTokensToValidator(v)
  BY <1>1, <1>3, DomainLemma, AllocateHeights
<1>4. CASE NoOffence
  BY <1>1, <1>4, NoOffenceHeights
<1>5. CASE \E v \in last : SlashAndJail(v)
  BY <1>1, <1>5, DomainLemma, SlashHeights
<1>6. CASE Transaction
  <2>1. CASE \E d \in Accounts, v \in Vals : Delegate(d, v)
    BY <1>1, <2>1, DelegateHeights
  <2>2. CASE \E d \in Accounts, v \in Vals : Undelegate(d, v)
    BY <1>1, <2>2, UndelegateHeights
  <2>3. CASE \E d \in Accounts, v \in Vals : WithdrawDelegatorReward(d, v)
    BY <1>1, <2>3, WithdrawRewardHeights
  <2>4. CASE \E d \in Accounts, v \in Vals, w \in Vals : BeginRedelegate(d, v, w)
    BY <1>1, <2>4, RedelegateHeights
  <2>5. CASE \E v \in Vals : Unjail(v)
    BY <1>1, <2>5, UnjailHeights
  <2> QED
    BY <1>6, <2>1, <2>2, <2>3, <2>4, <2>5, DomainLemma DEF Transaction
<1>7. CASE EndBlock
  BY <1>1, <1>7, EndBlockHeights
<1> QED
  BY <1>1, <1>2, <1>3, <1>4, <1>5, <1>6, <1>7 DEF Block

----------------------------------------------------------------------------
\* The export.

LEMMA BeginExportHeights ==
    ASSUME IInv, HInv, NEW zero \in ZeroHeight, NEW list \in JailLists, BeginExport(zero, list)
    PROVE  HInv'
<1>1. /\ stage = "committed" /\ ~ resumed /\ ~ resumed'
      /\ zero \in BOOLEAN /\ forZeroHeight' = zero
      /\ \/ ~ zero /\ stage' = "writing"
         \/ zero /\ stage' \in {"panicked", "commissions"}
      /\ UNCHANGED <<height, validator, last, powerIndex, entries, ledger, signing>>
  BY ExportAssumption DEF BeginExport, stakingVars
<1>2. /\ Latest(AfterEntries)' = height /\ Latest(AfterSlashes)' = height
      /\ Latest(AfterValidators)' = height /\ Latest(AfterInfos)' = height
      /\ \A k : StartLimit(k)' = height
  BY <1>1 DEF Latest, StartLimit, AfterEntries, AfterSlashes, AfterValidators, AfterInfos
<1>3. stage \in BlockStages
  BY <1>1 DEF BlockStages
<1>4. Starting' /\ Slashing'
  BY <1>1, <1>2, <1>3, BlockLimits DEF HInv, Heights, Starting, Slashing
<1>5. Unbonding' /\ Signing' /\ Entering'
  BY <1>1, <1>2, <1>3, BlockLimits DEF HInv, Heights, Unbonding, Signing, Entering
<1>6. Exporting' /\ ActiveIsTop'
  BY <1>1 DEF HInv, Exporting, ActiveIsTop, ExportStages
<1> QED
  BY <1>4, <1>5, <1>6 DEF HInv, Heights

\* An export that panics, and a file that is refused: no limit is claimed.
LEMMA StoppedHeights ==
    ASSUME IInv, HInv, stage' \in {"panicked", "refused"},
           UNCHANGED <<height, validator, entries, ledger, signing>>
    PROVE  HInv'
<1>1. /\ Latest(AfterEntries)' = height /\ Latest(AfterSlashes)' = height
      /\ Latest(AfterValidators)' = height /\ Latest(AfterInfos)' = height
      /\ \A k : StartLimit(k)' = height
  BY DEF Latest, StartLimit, AfterEntries, AfterSlashes, AfterValidators, AfterInfos
<1>2. \A S : Latest(S) \in {0, height}
  BY DEF Latest
<1>3. \A k : StartLimit(k) \in {0, height}
  BY <1>2 DEF StartLimit
<1>4. Starting'
  BY <1>1, <1>3, HeightTypes DEF HInv, Heights, Starting
<1>5. Slashing'
  BY <1>1, <1>2, HeightTypes DEF HInv, Heights, Slashing
<1>6. Unbonding' /\ Signing'
  BY <1>1, <1>2, HeightTypes DEF HInv, Heights, Unbonding, Signing
<1>7. Entering'
  BY <1>1, <1>2, HeightTypes DEF HInv, Heights, Entering
<1>8. Exporting' /\ ActiveIsTop'
  BY DEF Exporting, ActiveIsTop, ExportStages
<1> QED
  BY <1>4, <1>5, <1>6, <1>7, <1>8 DEF HInv, Heights

LEMMA PanicsHeights ==
    ASSUME IInv, HInv, ExportStep(stage), Panics
    PROVE  HInv'
  BY StoppedHeights DEF ExportStep, Panics, stakingVars

\* The withdrawals leave all limits at the height of the state.
LEMMA WithdrawingHeights ==
    ASSUME IInv, HInv, NEW K, Restarts(ledger, ledger', K, height), ExportStep(stage),
           stage \in {"commissions", "rewards"}, stage' \in {"commissions", "rewards"},
           UNCHANGED stakingVars
    PROVE  HInv'
<1>1. UNCHANGED <<height, signing, forZeroHeight, resumed, validator, last, powerIndex, entries>>
  BY DEF ExportStep, stakingVars
<1>2. \A S \in {AfterEntries, AfterSlashes, AfterValidators, AfterInfos} :
         Latest(S) = height /\ Latest(S)' = height
  BY <1>1 DEF Latest, AfterEntries, AfterSlashes, AfterValidators, AfterInfos
<1>3. \A k : StartLimit(k) = height /\ StartLimit(k)' = height
  BY <1>1 DEF Latest, StartLimit, AfterEntries
<1>4. Starting'
  BY <1>3, HeightTypes DEF HInv, Heights, Starting, Restarts
<1>5. Slashing'
  BY <1>2 DEF HInv, Heights, Slashing, Restarts
<1>6. Unbonding' /\ Signing' /\ Entering'
  BY <1>1, <1>2 DEF HInv, Heights, Unbonding, Signing, Entering
<1>7. Exporting' /\ ActiveIsTop'
  BY <1>1 DEF HInv, Exporting, ActiveIsTop, ExportStages
<1> QED
  BY <1>4, <1>5, <1>6, <1>7 DEF HInv, Heights

LEMMA CommissionHeights ==
    ASSUME IInv, HInv, NEW v \in Vals, WithdrawAllCommission(v)
    PROVE  HInv'
<1>1. stage = "commissions" /\ ExportStep(stage)
  BY DEF WithdrawAllCommission, ExportStep
<1>2. CASE Panics
  BY <1>1, <1>2, PanicsHeights
<1>3. CASE ~ Panics
  <2>1. /\ ledger' = WithdrawCommission(ledger, v) /\ stage' \in {"commissions", "rewards"}
        /\ UNCHANGED stakingVars
    BY <1>1, <1>3 DEF WithdrawAllCommission
  <2>2. Restarts(ledger, ledger', {}, height)
    BY <2>1, ShapeOfIInv, WithdrawCommissionRestarts
  <2> QED
    BY <1>1, <2>1, <2>2, WithdrawingHeights
<1> QED
  BY <1>2, <1>3

LEMMA RewardsHeights ==
    ASSUME IInv, HInv, NEW d \in Accounts, NEW v \in Vals, WithdrawAllRewards(d, v)
    PROVE  HInv'
<1>1. stage = "rewards" /\ ExportStep(stage)
  BY DEF WithdrawAllRewards, ExportStep
<1>2. CASE Panics
  BY <1>1, <1>2, PanicsHeights
<1>3. CASE ~ Panics
  <2> DEFINE w == Withdrawn(Staking, d, v, height)
             K == {<<d, v>>}
  <2>1. /\ ledger' = InitializeDelegation(w, d, v, StakeOf(Staking, d, v), height)
        /\ UNCHANGED stakingVars /\ stage' = "rewards"
    BY <1>1, <1>3, DomainLemma DEF WithdrawAllRewards
  <2>2. <<d, v>> \in K
    OBVIOUS
  <2> HIDE DEF K
  <2>3. Restarts(ledger, w, K, height) /\ Shape(w)
    <3>1. Staking.ledger = ledger
      BY DEF Staking
    <3>2. Restarts(ledger, w, K, height)
      BY <3>1, ShapeOfIInv, WithdrawRewardsRestarts DEF Withdrawn
    <3> QED
      BY <3>2 DEF Restarts
  <2> HIDE DEF w
  <2>4. Restarts(w, ledger', K, height)
    BY <2>1, <2>2, <2>3, InitializeDelegationRestarts
  <2>5. Restarts(ledger, ledger', K, height)
    BY <2>3, <2>4, RestartsTwice
  <2> QED
    BY <1>1, <2>1, <2>5, WithdrawingHeights
<1> QED
  BY <1>2, <1>3

LEMMA ClearPeriodsHeights ==
    ASSUME IInv, HInv, ClearPeriods
    PROVE  HInv'
<1>1. /\ stage = "rewards" /\ stage' = "validators"
      /\ UNCHANGED <<height, signing, forZeroHeight, resumed, validator, last, powerIndex,
                     entries>>
  BY DEF ClearPeriods, ExportStep, stakingVars
<1>2. ledger'.start = ledger.start /\ \A v \in Vals : ledger'.rewards[v].slashes = {}
  <2> DEFINE l == DeleteSlashEvents(ledger)
  <2>1. /\ l.start = ledger.start /\ {"rewards", "start"} \subseteq DOMAIN l
        /\ DOMAIN l.rewards = Vals
        /\ \A v \in Vals : "slashes" \in DOMAIN l.rewards[v] /\ l.rewards[v].slashes = {}
    BY ShapeOfIInv DEF DeleteSlashEvents, Shape
  <2>2. ledger' = DeleteHistoricalRewards(l)
    BY DEF ClearPeriods
  <2> HIDE DEF l
  <2> QED
    BY <2>1, <2>2 DEF DeleteHistoricalRewards
<1>3. \A S \in {AfterEntries, AfterValidators, AfterInfos} :
         Latest(S) = height /\ Latest(S)' = height
  BY <1>1 DEF Latest, AfterEntries, AfterValidators, AfterInfos
<1>4. \A k : StartLimit(k) = height /\ StartLimit(k)' = height
  BY <1>1 DEF Latest, StartLimit, AfterEntries
<1>5. Starting' /\ Slashing'
  BY <1>2, <1>4 DEF HInv, Heights, Starting, Slashing
<1>6. Unbonding' /\ Signing' /\ Entering'
  BY <1>1, <1>3 DEF HInv, Heights, Unbonding, Signing, Entering
<1>7. Exporting' /\ ActiveIsTop'
  BY <1>1 DEF HInv, Exporting, ActiveIsTop, ExportStages
<1> QED
  BY <1>5, <1>6, <1>7 DEF HInv, Heights

LEMMA ReinitializeValidatorHeights ==
    ASSUME IInv, HInv, NEW v \in Vals, ReinitializeValidator(v)
    PROVE  HInv'
<1>1. /\ stage = "validators" /\ Restarts(ledger, ledger', {}, height)
      /\ \/ stage' = "validators"
         \/ stage' = "delegations" /\ pending' = DOMAIN delegation
      /\ UNCHANGED <<height, signing, forZeroHeight, resumed, validator, last, powerIndex,
                     entries>>
  BY ShapeOfIInv, InitializeValidatorRestarts
     DEF ReinitializeValidator, ExportStep, stakingVars
<1>2. \A S \in {AfterEntries, AfterValidators, AfterInfos} :
         Latest(S) = height /\ Latest(S)' = height
  BY <1>1 DEF Latest, AfterEntries, AfterValidators, AfterInfos
<1>3. Latest(AfterSlashes)' = Latest(AfterSlashes)
  BY <1>1 DEF Latest, AfterSlashes
<1>4. DOMAIN ledger.start = DOMAIN delegation
  BY DEF IInv, CountsOK, Covers
<1>5. \A k \in DOMAIN delegation : StartLimit(k) = height /\ StartLimit(k)' = height
  BY <1>1 DEF Latest, StartLimit, AfterEntries
<1>6. Starting'
  BY <1>1, <1>4, <1>5 DEF HInv, Heights, Starting, Restarts
<1>7. Slashing'
  BY <1>1, <1>3 DEF HInv, Heights, Slashing, Restarts
<1>8. Unbonding' /\ Signing' /\ Entering'
  BY <1>1, <1>2 DEF HInv, Heights, Unbonding, Signing, Entering
<1>9. Exporting' /\ ActiveIsTop'
  BY <1>1 DEF HInv, Exporting, ActiveIsTop, ExportStages
<1> QED
  BY <1>6, <1>7, <1>8, <1>9 DEF HInv, Heights

LEMMA ReinitializeDelegationHeights ==
    ASSUME IInv, HInv, NEW d \in Accounts, NEW v \in Vals, ReinitializeDelegation(d, v)
    PROVE  HInv'
<1> DEFINE key == <<d, v>>
           K == {key}
<1>1. stage = "delegations" /\ ExportStep(stage)
  BY DEF ReinitializeDelegation, ExportStep
<1>2. CASE Panics
  BY <1>1, <1>2, PanicsHeights
<1>3. CASE ~ Panics
  <2> DEFINE m == IncrementPeriod(ledger, v, validator[v].tokens)
  <2>1. /\ ledger' = InitializeDelegation(m, d, v, StakeOf(Staking, d, v), 0)
        /\ pending' = pending \ {key}
        /\ UNCHANGED <<stage, stakingVars>>
    BY <1>3 DEF ReinitializeDelegation
  <2>2. UNCHANGED <<stage, height, signing, forZeroHeight, resumed, validator, last,
                    powerIndex, entries>>
    BY <1>1, <2>1 DEF ExportStep, stakingVars
  <2>3. key \in K /\ \A j \in K : j = key
    OBVIOUS
  <2> HIDE DEF K
  <2>4. Restarts(ledger, m, K, 0) /\ Shape(m)
    <3>1. Restarts(ledger, m, K, 0)
      BY ShapeOfIInv, IncrementPeriodRestarts
    <3> QED
      BY <3>1 DEF Restarts
  <2> HIDE DEF m
  <2>5. Restarts(m, ledger', K, 0) /\ ledger'.start[key].height = 0
    BY <2>1, <2>3, <2>4, InitializeDelegationRestarts
  <2>6. Restarts(ledger, ledger', K, 0)
    BY <2>4, <2>5, RestartsTwice
  <2>7. \A j : /\ j # key => StartLimit(j)' = StartLimit(j)
               /\ StartLimit(key)' = 0
    <3>1. forZeroHeight
      BY <1>1 DEF HInv, Exporting, ExportStages
    <3> QED
      BY <1>1, <2>1, <2>2, <3>1 DEF StartLimit, Latest, AfterEntries
  <2> HIDE DEF key
  <2>8. Starting'
    BY <2>3, <2>5, <2>6, <2>7 DEF HInv, Heights, Starting, Restarts
  <2>9. Slashing'
    BY <2>2, <2>6 DEF HInv, Heights, Slashing, Restarts, Latest
  <2>10. Unbonding' /\ Signing' /\ Entering'
    BY <2>2 DEF HInv, Heights, Unbonding, Signing, Entering, Latest
  <2>11. Exporting' /\ ActiveIsTop'
    BY <2>2 DEF HInv, Exporting, ActiveIsTop
  <2> QED
    BY <2>8, <2>9, <2>10, <2>11 DEF HInv, Heights
<1> QED
  BY <1>2, <1>3

LEMMA ResetEntriesHeights ==
    ASSUME IInv, HInv, ResetEntries
    PROVE  HInv'
<1>1. /\ stage = "delegations" /\ stage' = "resetting" /\ pending = {} /\ forZeroHeight
      /\ ~ resumed
      /\ UNCHANGED <<height, signing, forZeroHeight, resumed, validator, last, powerIndex,
                     ledger>>
  BY DEF ResetEntries, ExportStep, HInv, Exporting, ExportStages
<1>2. \A S \in {AfterValidators, AfterInfos} : Latest(S) = height /\ Latest(S)' = height
  BY <1>1 DEF Latest, AfterEntries, AfterValidators, AfterInfos
<1>3. /\ Latest(AfterSlashes) = 0 /\ Latest(AfterSlashes)' = 0 /\ Latest(AfterEntries)' = 0
      /\ \A k : StartLimit(k) = 0 /\ StartLimit(k)' = 0
  BY <1>1 DEF Latest, StartLimit, AfterEntries, AfterSlashes
<1>4. \A e \in entries' : e.height = 0
  BY DEF ResetEntries, IInv, OthersOK, Entry
<1>5. Starting' /\ Slashing'
  BY <1>1, <1>3 DEF HInv, Heights, Starting, Slashing
<1>6. Unbonding' /\ Signing' /\ Entering'
  BY <1>1, <1>2, <1>3, <1>4 DEF HInv, Heights, Unbonding, Signing, Entering
<1>7. Exporting' /\ ActiveIsTop'
  BY <1>1 DEF HInv, Exporting, ActiveIsTop, ExportStages
<1> QED
  BY <1>5, <1>6, <1>7 DEF HInv, Heights

LEMMA ResetValidatorsHeights ==
    ASSUME IInv, HInv, ResetValidators
    PROVE  HInv'
<1>1. /\ stage = "resetting" /\ stage' = "powers" /\ forZeroHeight /\ ~ resumed
      /\ UNCHANGED <<height, signing, forZeroHeight, resumed, last, powerIndex, entries,
                     ledger>>
  BY DEF ResetValidators, ExportStep, HInv, Exporting, ExportStages
<1>2. Latest(AfterInfos) = height /\ Latest(AfterInfos)' = height
  BY <1>1 DEF Latest, AfterInfos
<1>3. /\ Latest(AfterSlashes) = 0 /\ Latest(AfterSlashes)' = 0
      /\ Latest(AfterEntries) = 0 /\ Latest(AfterEntries)' = 0 /\ Latest(AfterValidators)' = 0
      /\ \A k : StartLimit(k) = 0 /\ StartLimit(k)' = 0
  BY <1>1 DEF Latest, StartLimit, AfterEntries, AfterSlashes, AfterValidators
<1>4. \A v \in Vals : /\ validator'[v].unbondingHeight = 0
                      /\ validator'[v].tokens = validator[v].tokens
  BY DEF ResetValidators, IInv, OthersOK, Validator
<1>5. Top(powerIndex, validator') = Top(powerIndex, validator)
  BY <1>4, TopOfTokens DEF IInv, OthersOK
<1>6. Starting' /\ Slashing'
  BY <1>1, <1>3 DEF HInv, Heights, Starting, Slashing
<1>7. Unbonding' /\ Signing' /\ Entering'
  BY <1>1, <1>2, <1>3, <1>4 DEF HInv, Heights, Unbonding, Signing, Entering
<1>8. Exporting' /\ ActiveIsTop'
  BY <1>1, <1>5 DEF HInv, Exporting, ActiveIsTop, ExportStages
<1> QED
  BY <1>6, <1>7, <1>8 DEF HInv, Heights

\* Nobody starts or stops being active here, so no old height comes back.
LEMMA ApplyPowersHeights ==
    ASSUME IInv, HInv, ApplyPowers
    PROVE  HInv'
<1>1. /\ stage = "powers" /\ forZeroHeight /\ ~ resumed /\ last = Top(powerIndex, validator)
      /\ UNCHANGED <<height, forZeroHeight, resumed, entries, ledger, powerIndex>>
  BY DEF ApplyPowers, HInv, Exporting, ActiveIsTop, ExportStages, exportVars
<1>2. CASE MayApply(powerIndex, validator)
  <2>1. stage' = "infos" /\ ApplyAndReturnValidatorSetUpdates(validator, height)
    BY <1>2 DEF ApplyPowers
  <2>2. \A v \in Vals : /\ validator'[v].unbondingHeight = validator[v].unbondingHeight
                        /\ signing'[v] = signing[v]
    <3>1. last' = last
      BY <1>1, <2>1, AppliedHeights
    <3> QED
      BY <2>1, <3>1, AppliedHeights
  <2>3. \A S \in {AfterEntries, AfterSlashes, AfterValidators} :
           Latest(S) = 0 /\ Latest(S)' = 0
    BY <1>1, <2>1 DEF Latest, AfterEntries, AfterSlashes, AfterValidators
  <2>4. Latest(AfterInfos) = height /\ Latest(AfterInfos)' = height
    BY <1>1, <2>1 DEF Latest, AfterInfos
  <2>5. \A k : StartLimit(k) = 0 /\ StartLimit(k)' = 0
    BY <1>1, <2>1 DEF Latest, StartLimit, AfterEntries
  <2>6. Starting' /\ Slashing'
    BY <1>1, <2>3, <2>5 DEF HInv, Heights, Starting, Slashing
  <2>7. Unbonding' /\ Signing' /\ Entering'
    BY <1>1, <2>2, <2>3, <2>4 DEF HInv, Heights, Unbonding, Signing, Entering
  <2>8. Exporting' /\ ActiveIsTop'
    BY <1>1, <2>1 DEF Exporting, ActiveIsTop
  <2> QED
    BY <2>6, <2>7, <2>8 DEF HInv, Heights
<1>3. CASE ~ MayApply(powerIndex, validator)
  BY <1>1, <1>3, StoppedHeights DEF ApplyPowers
<1> QED
  BY <1>2, <1>3

LEMMA SigningInfosHeights ==
    ASSUME IInv, HInv, ResetSigningInfos
    PROVE  HInv'
<1>1. /\ stage = "infos" /\ stage' = "writing" /\ forZeroHeight /\ ~ resumed
      /\ UNCHANGED <<height, forZeroHeight, resumed, validator, last, powerIndex, entries,
                     ledger>>
  BY DEF ResetSigningInfos, HInv, Exporting, ExportStages, exportVars, stakingVars
<1>2. \A v \in Vals : signing'[v] <= 0
  BY DEF ResetSigningInfos, NoInfo, IInv, OthersOK
<1>3. \A S \in {AfterEntries, AfterSlashes, AfterValidators} :
         Latest(S) = 0 /\ Latest(S)' = 0
  BY <1>1 DEF Latest, AfterEntries, AfterSlashes, AfterValidators
<1>4. Latest(AfterInfos)' = 0
  BY <1>1 DEF Latest, AfterInfos
<1>5. \A k : StartLimit(k) = 0 /\ StartLimit(k)' = 0
  BY <1>1 DEF Latest, StartLimit, AfterEntries
<1>6. Starting' /\ Slashing'
  BY <1>1, <1>3, <1>5 DEF HInv, Heights, Starting, Slashing
<1>7. Unbonding' /\ Signing' /\ Entering'
  BY <1>1, <1>2, <1>3, <1>4 DEF HInv, Heights, Unbonding, Signing, Entering
<1>8. Exporting' /\ ActiveIsTop'
  BY <1>1 DEF Exporting, ActiveIsTop
<1> QED
  BY <1>6, <1>7, <1>8 DEF HInv, Heights

LEMMA PrepHeights ==
    ASSUME IInv, HInv, PrepForZeroHeightGenesis
    PROVE  HInv'
<1>1. CASE \E v \in todo : WithdrawAllCommission(v)
  BY <1>1, DomainLemma, CommissionHeights
<1>2. CASE \E k \in pending : WithdrawAllRewards(k[1], k[2])
  <2>1. PICK k \in pending : WithdrawAllRewards(k[1], k[2])
    BY <1>2
  <2>2. k[1] \in Accounts /\ k[2] \in Vals
    BY DomainLemma DEF Pairs
  <2> QED
    BY <2>1, <2>2, RewardsHeights
<1>3. CASE \E v \in todo : ReinitializeValidator(v)
  BY <1>3, DomainLemma, ReinitializeValidatorHeights
<1>4. CASE \E k \in pending : ReinitializeDelegation(k[1], k[2])
  <2>1. PICK k \in pending : ReinitializeDelegation(k[1], k[2])
    BY <1>4
  <2>2. k[1] \in Accounts /\ k[2] \in Vals
    BY DomainLemma DEF Pairs
  <2> QED
    BY <2>1, <2>2, ReinitializeDelegationHeights
<1>5. CASE ClearPeriods \/ ResetEntries \/ ResetValidators \/ ApplyPowers \/ ResetSigningInfos
  BY <1>5, ClearPeriodsHeights, ResetEntriesHeights, ResetValidatorsHeights,
     ApplyPowersHeights, SigningInfosHeights
<1> QED
  BY <1>1, <1>2, <1>3, <1>4, <1>5 DEF PrepForZeroHeightGenesis

LEMMA WriteGenesisHeights ==
    ASSUME IInv, HInv, WriteGenesis
    PROVE  HInv'
<1>1. /\ stage = "writing" /\ stage' = "exported"
      /\ UNCHANGED <<height, forZeroHeight, resumed, validator, last, powerIndex, entries,
                     ledger, signing>>
  BY DEF WriteGenesis, stakingVars
<1>2. \A S \in {AfterEntries, AfterSlashes, AfterValidators, AfterInfos} :
         Latest(S)' = Latest(S)
  BY <1>1 DEF Latest, AfterEntries, AfterSlashes, AfterValidators, AfterInfos
<1>3. \A k : StartLimit(k)' = StartLimit(k)
  BY <1>1 DEF Latest, StartLimit, AfterEntries
<1>4. Starting' /\ Slashing'
  BY <1>1, <1>2, <1>3 DEF HInv, Heights, Starting, Slashing
<1>5. Unbonding' /\ Signing' /\ Entering'
  BY <1>1, <1>2 DEF HInv, Heights, Unbonding, Signing, Entering
<1>6. Exporting' /\ ActiveIsTop'
  BY <1>1 DEF Exporting, ActiveIsTop, ExportStages
<1> QED
  BY <1>4, <1>5, <1>6 DEF HInv, Heights

\* The chain of the file starts at the latest height that is left in it.
LEMMA ImportGenesisHeights ==
    ASSUME IInv, HInv, ImportGenesis
    PROVE  HInv'
<1>1. /\ stage = "exported"
      /\ UNCHANGED <<validator, entries, ledger, signing>>
  BY DEF ImportGenesis
<1>2. CASE ~ Importable
  BY <1>1, <1>2, StoppedHeights DEF ImportGenesis
<1>3. CASE Importable
  <2>1. /\ stage' = "committed" /\ resumed'
        /\ height' = IF forZeroHeight THEN 0 ELSE height
    BY <1>3 DEF ImportGenesis
  <2>2. stage' \in BlockStages
    BY <2>1 DEF BlockStages
  <2>3. /\ Latest(AfterEntries) = height' /\ Latest(AfterSlashes) = height'
        /\ Latest(AfterValidators) = height' /\ Latest(AfterInfos) = height'
        /\ \A k : StartLimit(k) = height'
    BY <1>1, <2>1
       DEF Latest, StartLimit, AfterEntries, AfterSlashes, AfterValidators, AfterInfos
  <2>4. Starting' /\ Slashing'
    BY <1>1, <2>2, <2>3, BlockLimitsAfter DEF HInv, Heights, Starting, Slashing
  <2>5. Unbonding' /\ Signing' /\ Entering'
    BY <1>1, <2>2, <2>3, BlockLimitsAfter DEF HInv, Heights, Unbonding, Signing, Entering
  <2>6. Exporting' /\ ActiveIsTop'
    BY <2>1 DEF Exporting, ActiveIsTop, ExportStages
  <2> QED
    BY <2>4, <2>5, <2>6 DEF HInv, Heights
<1> QED
  BY <1>2, <1>3

----------------------------------------------------------------------------
LEMMA StutterHeights ==
    ASSUME HInv, UNCHANGED vars
    PROVE  HInv'
  BY DEF HInv, Exporting, ActiveIsTop, Heights, Starting, Slashing, Unbonding, Signing,
         Entering, StartLimit, Latest, vars, chainVars, exportVars, stakingVars

LEMMA NextHeights ==
    ASSUME IInv, HInv, [Next]_vars
    PROVE  HInv'
<1>1. CASE ChainStep
  BY <1>1, ChainStepHeights
<1>2. CASE \E zero \in ZeroHeight, list \in JailLists : BeginExport(zero, list)
  BY <1>2, BeginExportHeights
<1>3. CASE PrepForZeroHeightGenesis
  BY <1>3, PrepHeights
<1>4. CASE WriteGenesis
  BY <1>4, WriteGenesisHeights
<1>5. CASE ImportGenesis
  BY <1>5, ImportGenesisHeights
<1>6. CASE UNCHANGED vars
  BY <1>6, StutterHeights
<1> QED
  BY <1>1, <1>2, <1>3, <1>4, <1>5, <1>6 DEF Next

LEMMA HeightsInvariance == Spec => []HInv
<1>1. Init => HInv
  BY InitHeights
<1>2. IInv /\ HInv /\ [Next]_vars => HInv'
  BY NextHeights
<1> QED
  BY <1>1, <1>2, Invariance, PTL DEF Spec

\* In every committed state, of the chain and of the one that the exported genesis
\* starts, no record has a height the chain has not reached: of the old heights an
\* export for zero height leaves none, though one of its steps runs with them
\* (export.go:117-254).
THEOREM NothingIsFromTheFuture == Spec => []NothingFromTheFuture
<1>1. HInv => NothingFromTheFuture
  BY NothingOfHInv
<1> QED
  BY <1>1, HeightsInvariance, PTL
=============================================================================
