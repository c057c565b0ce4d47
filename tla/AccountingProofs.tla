--------------------------- MODULE AccountingProofs ---------------------------
(***************************************************************************)
(* That the rewards stay accounted for in ZeroHeightExport: at every step  *)
(* of a block, of the export and of the chain started from its genesis the *)
(* module account is solvent, every delegation can withdraw, and the       *)
(* ledger moves only as RewardLedger allows.                               *)
(*                                                                         *)
(* And that the active set agrees with the validators, the power index and *)
(* the bonded pool, that the exported genesis is accepted, and that the    *)
(* export panics for the list only.                                        *)
(***************************************************************************)
EXTENDS ZeroHeightExportProofs

----------------------------------------------------------------------------
\* The invariant.

\* Between the two loops that write a validator's rewards again.
Paid(r) == r.commission >= 0 /\ r.current >= 0 /\ Margin(r) >= 0

Renewed(r) ==
    /\ r.outstanding = 0 /\ r.commission = 0 /\ r.current = 0 /\ r.slashes = {}
    /\ DOMAIN r.historical = {0}

\* What an export for zero height has donated stays donated.
Drained ==
    forZeroHeight /\ stage \in {"delegations"} \union AfterEntries =>
        \A v \in Vals : ledger.rewards[v].outstanding = 0

Covered ==
    /\ SharesOK(Staking)
    /\ stage # "validators" =>
          LedgerSound(ledger, Counting, CapsOf(Staking), Latest(AfterSlashes))
    /\ stage = "validators" =>
          \A v \in Vals : IF v \in todo THEN Paid(ledger.rewards[v])
                          ELSE Renewed(ledger.rewards[v])
    /\ Drained

Amounts(l) == <<l.balance, l.pool, OutstandingOf(l)>>

\* What a step may do to the ledger.
Moves(l, m) ==
    \/ Amounts(m) = Amounts(l)
    \/ \E v \in Vals : Collects(l, m, v) \/ Settles(l, m, v)
    \/ \E v, w \in Vals : v # w /\ \E n : LedgerOK(n) /\ Settles(l, n, v) /\ Settles(n, m, w)

Whole == Balanced(ledger) /\ Coins(ledger.balance)

LEMMA AmountsSame ==
    ASSUME NEW l, NEW m, Amounts(m) = Amounts(l)
    PROVE  /\ m.balance = l.balance /\ m.pool = l.pool
           /\ \A v \in Vals : m.rewards[v].outstanding = l.rewards[v].outstanding
<1>1. m.balance = l.balance /\ m.pool = l.pool /\ OutstandingOf(m) = OutstandingOf(l)
  BY DEF Amounts
<1>2. \A v \in Vals : OutstandingOf(m)[v] = OutstandingOf(l)[v]
  BY <1>1
<1> QED
  BY <1>1, <1>2 DEF OutstandingOf

LEMMA SettledCoins ==
    ASSUME NEW l, LedgerOK(l), NEW m, LedgerOK(m), Coins(l.balance), Coins(m.balance - l.balance)
    PROVE  Coins(m.balance)
<1>1. l.balance \in Int /\ m.balance \in Int
  BY LedgerTypes
<1>2. m.balance = l.balance + (m.balance - l.balance) /\ m.balance - l.balance \in Int
  BY <1>1
<1>3. Coins(l.balance + (m.balance - l.balance))
  BY <1>1, <1>2, CoinsLemma
<1> QED
  BY <1>2, <1>3

\* Whatever moves like that leaves a ledger that balances and whole coins.
LEMMA MovesKeepWhole ==
    ASSUME NEW l, LedgerOK(l), Balanced(l), Coins(l.balance),
           NEW m, LedgerOK(m), Moves(l, m)
    PROVE  Balanced(m) /\ Coins(m.balance)
<1>1. CASE Amounts(m) = Amounts(l)
  <2>1. m.balance = l.balance /\ m.pool = l.pool /\ OutstandingOf(m) = OutstandingOf(l)
    BY <1>1 DEF Amounts
  <2> QED
    BY <2>1 DEF Balanced
<1>2. CASE \E v \in Vals : Collects(l, m, v) \/ Settles(l, m, v)
  <2>1. PICK v \in Vals : Collects(l, m, v) \/ Settles(l, m, v)
    BY <1>2
  <2>2. /\ Coins(m.balance - l.balance)
        /\ \A u \in Vals \ {v} : m.rewards[u].outstanding = l.rewards[u].outstanding
        /\ m.pool >= l.pool
        /\ m.balance - l.balance
             = (m.pool - l.pool) + (m.rewards[v].outstanding - l.rewards[v].outstanding)
    BY <2>1 DEF Collects, Settles
  <2> QED
    BY <2>2, BalancedKept, SettledCoins
<1>3. CASE \E v, w \in Vals : v # w /\ \E n : LedgerOK(n) /\ Settles(l, n, v) /\ Settles(n, m, w)
  <2>0. PICK v \in Vals, w \in Vals : \E n : LedgerOK(n) /\ Settles(l, n, v) /\ Settles(n, m, w)
    BY <1>3
  <2>1. PICK n : LedgerOK(n) /\ Settles(l, n, v) /\ Settles(n, m, w)
    BY <2>0
  <2>2. Coins(n.balance - l.balance) /\ Coins(m.balance - n.balance)
    BY <2>1 DEF Settles
  <2>3. Balanced(n) /\ Coins(n.balance)
    BY <2>1, <2>2, BalancedWhenSettled, SettledCoins
  <2> QED
    BY <2>1, <2>2, <2>3, BalancedWhenSettled, SettledCoins
<1> QED
  BY <1>1, <1>2, <1>3 DEF Moves

\* No account is overdrawn in a ledger that is sound.
LEMMA SoundIsPaid ==
    ASSUME NEW l, NEW live, NEW caps, NEW h, LedgerSound(l, live, caps, h), NEW v \in Vals
    PROVE  Paid(l.rewards[v])
<1> DEFINE r == l.rewards[v]
           infos == Infos(l, live, v)
           cap == caps[v]
<1>1. Sound(Accounts, r, infos, cap, h) /\ Counted(r, Periods(infos))
  BY InfosLemma DEF LedgerSound
<1> HIDE DEF r, infos, cap
<1>2. Margin(r) \in Nat
  BY <1>1, FiniteLemma, MarginIsNat
<1>3. r.commission >= 0 /\ r.current >= 0
  BY <1>1 DEF Sound
<1> QED
  BY <1>2, <1>3 DEF Paid, r

\* An account that settles and had nothing outstanding still has nothing.
LEMMA StaysDrained ==
    ASSUME NEW l, NEW m, LedgerOK(m), NEW v \in Vals, Settles(l, m, v),
           \A u \in Vals : l.rewards[u].outstanding = 0, Paid(m.rewards[v])
    PROVE  \A u \in Vals : m.rewards[u].outstanding = 0
<1>1. \A u \in Vals \ {v} : m.rewards[u].outstanding = 0
  BY DEF Settles
<1>2. m.rewards[v].outstanding <= 0
  BY DEF Settles
<1>3. m.rewards[v].outstanding >= 0
  BY LedgerTypes DEF Paid, Margin
<1> QED
  BY <1>1, <1>2, <1>3, LedgerTypes

----------------------------------------------------------------------------
\* Stages in which every delegation counts and heights are those of the chain.

PlainStages == BlockStages \union {"commissions", "rewards"}

LEMMA StakingFields ==
    /\ Staking.validator = validator /\ Staking.delegation = delegation
    /\ Staking.powerIndex = powerIndex /\ Staking.bondedPool = bondedPool
    /\ Staking.ledger = ledger
  BY DEF Staking

LEMMA StakingTypes ==
    ASSUME IInv
    PROVE  /\ Staking.validator \in [Vals -> Validator]
           /\ IsPartial(Staking.delegation, Pairs, Nat)
           /\ CapsOf(Staking) \in CapsType
           /\ \A v \in Vals : validator[v].tokens \in Nat /\ validator[v].shares \in Nat
           /\ height \in Nat
<1>1. /\ Staking.validator \in [Vals -> Validator]
      /\ IsPartial(Staking.delegation, Pairs, Nat) /\ height \in Nat
  BY StakingFields DEF IInv, OthersOK
<1> DEFINE s == Staking
<1>2. s.validator \in [Vals -> Validator] /\ IsPartial(s.delegation, Pairs, Nat)
  BY <1>1
<1>3. s.validator = validator
  BY StakingFields
<1> HIDE DEF s
<1>4. CapsOf(s) \in CapsType
      /\ \A v \in Vals : s.validator[v].tokens \in Nat /\ s.validator[v].shares \in Nat
  BY <1>2, DelegationTypes
<1> QED
  BY <1>1, <1>3, <1>4 DEF s

LEMMA PlainSound ==
    ASSUME IInv, Covered, stage \in PlainStages
    PROVE  StakingSound(Staking, height) /\ LedgerOK(ledger)
<1>1. /\ stage \notin {"validators", "delegations"} \union AfterEntries
      /\ Counting = DOMAIN delegation /\ Latest(AfterSlashes) = height
  BY DEF PlainStages, BlockStages, Counting, Latest, AfterSlashes, AfterEntries
<1>2. StakingOK(Staking)
  BY <1>1, StakingOfIInv
<1>3. SharesOK(Staking) /\ LedgerSound(ledger, DOMAIN delegation, CapsOf(Staking), height)
  BY <1>1 DEF Covered
<1>4. LedgerOK(ledger)
  BY LedgerTyped DEF IInv
<1> QED
  BY <1>2, <1>3, <1>4, StakingFields DEF StakingSound

LEMMA StakingAfter ==
    ASSUME IInv', stage' \notin {"validators", "delegations"}, NEW t, t = Staking'
    PROVE  StakingOK(t)
<1>1. LedgerCounted(ledger', DOMAIN delegation') /\ Covers(ledger', DOMAIN delegation')
  BY DEF IInv, CountsOK, Counting
<1>2. /\ validator' \in [Vals -> Validator] /\ IsPartial(delegation', Pairs, Nat)
      /\ powerIndex' \subseteq Vals
  BY DEF IInv, OthersOK
<1> QED
  BY <1>1, <1>2 DEF StakingOK, Staking

LEMMA PlainAfter ==
    ASSUME stage' \in PlainStages, NEW t, t = Staking', StakingSound(t, height')
    PROVE  Covered'
<1>1. /\ stage' \notin {"validators", "delegations"} \union AfterEntries
      /\ Counting' = DOMAIN delegation' /\ Latest(AfterSlashes)' = height'
  BY DEF PlainStages, BlockStages, Counting, Latest, AfterSlashes, AfterEntries
<1>2. t.ledger = ledger' /\ t.delegation = delegation'
  BY DEF Staking
<1>3. SharesOK(t) /\ LedgerSound(ledger', DOMAIN delegation', CapsOf(t), height')
  BY <1>2 DEF StakingSound
<1>4. Drained'
  BY <1>1 DEF Drained
<1> QED
  BY <1>1, <1>3, <1>4 DEF Covered

\* Steps that leave the ledger, the delegations, tokens and shares alone.
LEMMA SameStakes ==
    ASSUME IInv, UNCHANGED delegation,
           \A v \in Vals : /\ validator'[v].tokens = validator[v].tokens
                           /\ validator'[v].shares = validator[v].shares
    PROVE  /\ CapsOf(Staking') = CapsOf(Staking)
           /\ SharesOK(Staking) => SharesOK(Staking')
<1> DEFINE s == Staking
           t == Staking'
<1>1. /\ s.validator = validator /\ s.delegation = delegation
      /\ t.validator = validator' /\ t.delegation = s.delegation
  BY DEF Staking
<1> HIDE DEF s, t
<1>2. \A v \in Vals : CapsOf(t)[v] = CapsOf(s)[v]
  <2>1. \A v \in Vals : /\ t.validator[v].tokens = s.validator[v].tokens
                        /\ t.validator[v].shares = s.validator[v].shares
    BY <1>1
  <2> QED
    BY <1>1, <2>1, CapsSame
<1>3. CapsOf(t) = CapsOf(s)
  BY <1>2 DEF CapsOf
<1>4. SharesOK(s) => SharesOK(t)
  BY <1>1 DEF SharesOK, Spare
<1> QED
  BY <1>3, <1>4 DEF s, t

LEMMA SameCovered ==
    ASSUME IInv, Covered, UNCHANGED <<ledger, delegation>>,
           \A v \in Vals : /\ validator'[v].tokens = validator[v].tokens
                           /\ validator'[v].shares = validator[v].shares,
           stage # "validators", stage' # "validators", Counting' = Counting,
           Latest(AfterSlashes)' \in Nat, Latest(AfterSlashes) <= Latest(AfterSlashes)',
           forZeroHeight' /\ stage' \in AfterEntries
             => forZeroHeight /\ stage \in {"delegations"} \union AfterEntries,
           stage' # "delegations"
    PROVE  Covered' /\ Moves(ledger, ledger')
<1> DEFINE caps == CapsOf(Staking)
           h == Latest(AfterSlashes)
           i == Latest(AfterSlashes)'
           live == Counting
<1>1. caps \in CapsType /\ h \in Nat
  BY StakingTypes DEF Latest
<1>2. LedgerSound(ledger, live, caps, h) /\ SharesOK(Staking)
  BY DEF Covered
<1>3. \A v \in Vals : \A d \in Accounts : <<d, v>> \in live => caps[v][d] <= caps[v][d]
  BY <1>1 DEF CapsType
<1>4. i \in Nat /\ h <= i
  OBVIOUS
<1> HIDE DEF caps, h, i, live
<1>5. LedgerSound(ledger, live, caps, i)
  BY <1>1, <1>2, <1>3, <1>4, SoundLater
<1>6. CapsOf(Staking') = caps /\ SharesOK(Staking')
  BY <1>2, SameStakes DEF caps
<1>7. LedgerSound(ledger', Counting', CapsOf(Staking'), Latest(AfterSlashes)')
  BY <1>5, <1>6 DEF i, live
<1>8. Drained'
  BY DEF Covered, Drained
<1>9. Covered'
  BY <1>6, <1>7, <1>8 DEF Covered
<1>10. Moves(ledger, ledger')
  BY DEF Moves
<1> QED
  BY <1>9, <1>10

----------------------------------------------------------------------------
\* Blocks.

LEMMA PlainLimits ==
    /\ stage \in PlainStages => Counting = DOMAIN delegation /\ Latest(AfterSlashes) = height
    /\ stage \in PlainStages => stage \notin {"validators", "delegations"} \union AfterEntries
  BY DEF PlainStages, BlockStages, Counting, Latest, AfterSlashes, AfterEntries

LEMMA PlainLimitsAfter ==
    /\ stage' \in PlainStages => Counting' = DOMAIN delegation' /\ Latest(AfterSlashes)' = height'
    /\ stage' \in PlainStages => stage' \notin {"validators", "delegations"} \union AfterEntries
  BY DEF PlainStages, BlockStages, Counting, Latest, AfterSlashes, AfterEntries

LEMMA SameInBlock ==
    ASSUME IInv, Covered, UNCHANGED <<ledger, delegation>>,
           \A v \in Vals : /\ validator'[v].tokens = validator[v].tokens
                           /\ validator'[v].shares = validator[v].shares,
           stage \in PlainStages, stage' \in PlainStages, height' \in Nat, height <= height'
    PROVE  Covered' /\ Moves(ledger, ledger')
  BY PlainLimits, PlainLimitsAfter, SameCovered

LEMMA BeginBlockCovered ==
    ASSUME IInv, Covered, BeginBlock
    PROVE  Covered' /\ Moves(ledger, ledger')
<1>1. /\ UNCHANGED <<ledger, delegation, validator>> /\ height \in Nat /\ height' = height + 1
      /\ stage \in PlainStages /\ stage' \in PlainStages
  BY StakingTypes DEF BeginBlock, stakingVars, PlainStages, BlockStages
<1> QED
  BY <1>1, SameInBlock

\* A step that changes the ledger only.
LEMMA LedgerCovered ==
    ASSUME IInv, Covered, stage \in PlainStages, stage' \in PlainStages,
           UNCHANGED <<height, stakingVars>>,
           LedgerSound(ledger', DOMAIN delegation, CapsOf(Staking), height)
    PROVE  Covered'
<1>1. UNCHANGED <<validator, delegation>> /\ height' = height
  BY DEF stakingVars
<1>2. CapsOf(Staking') = CapsOf(Staking) /\ SharesOK(Staking')
  BY <1>1, SameStakes DEF Covered
<1>3. LedgerSound(ledger', Counting', CapsOf(Staking'), Latest(AfterSlashes)')
  BY <1>1, <1>2, PlainLimitsAfter
<1>4. Drained'
  BY PlainLimitsAfter DEF Drained
<1> QED
  BY <1>2, <1>3, <1>4, PlainLimitsAfter DEF Covered

LEMMA AllocateCovered ==
    ASSUME IInv, Covered, NEW v \in Vals, AllocateTokensToValidator(v)
    PROVE  Covered' /\ Moves(ledger, ledger')
<1>1. /\ stage \in PlainStages /\ stage' \in PlainStages /\ UNCHANGED <<height, stakingVars>>
      /\ ledger' = AllocateTokens(ledger, v, Fees, Earning, Commission)
  BY DEF AllocateTokensToValidator, PlainStages, BlockStages
<1> DEFINE caps == CapsOf(Staking)
           live == DOMAIN delegation
<1>2. LedgerSound(ledger, live, caps, height) /\ caps \in CapsType /\ height \in Nat
  BY <1>1, PlainSound, StakingTypes, StakingFields DEF StakingSound
<1>3. Allocable(Fees, Earning, Commission)
  <2> DEFINE coins == Fees * Precision
  <2>1. coins \in Nat /\ Earning \in 0 .. coins /\ Commission \in 0 .. Earning /\ Fees \in Nat
    BY ChainAssumption, PrecisionAssumption, ProductType
  <2> HIDE DEF coins
  <2>2. Earning \in Nat /\ Earning <= coins
    BY <2>1
  <2> QED
    BY <2>1, <2>2 DEF Allocable, coins
<1> HIDE DEF caps, live
<1>4. LedgerSound(ledger', live, caps, height) /\ Collects(ledger, ledger', v)
  BY <1>1, <1>2, <1>3, AllocateTokensSound
<1>5. Covered'
  BY <1>1, <1>4, LedgerCovered DEF caps, live
<1> QED
  BY <1>4, <1>5 DEF Moves

LEMMA NoOffenceCovered ==
    ASSUME IInv, Covered, NoOffence
    PROVE  Covered' /\ Moves(ledger, ledger')
<1>1. /\ UNCHANGED <<ledger, delegation, validator, height>> /\ height \in Nat
      /\ stage \in PlainStages /\ stage' \in PlainStages
  BY StakingTypes DEF NoOffence, stakingVars, PlainStages, BlockStages
<1> QED
  BY <1>1, SameInBlock

LEMMA SlashCovered ==
    ASSUME IInv, IInv', Covered, NEW v \in Vals, SlashAndJail(v)
    PROVE  Covered' /\ Moves(ledger, ledger')
<1> DEFINE b == Burned(v)
           s == Staking
           t == Staking'
<1>1. /\ stage \in PlainStages /\ stage' \in PlainStages
      /\ UNCHANGED <<height, delegation>>
      /\ validator' = [validator EXCEPT ![v].jailed = TRUE, ![v].tokens = @ - b]
      /\ ledger' = IF b = 0 THEN ledger
                   ELSE RecordSlash(ledger, v, validator[v].tokens, height, EffectiveFraction(v))
  BY DEF SlashAndJail, PlainStages, BlockStages
<1>2. validator \in [Vals -> Validator] /\ b \in Nat /\ b <= validator[v].tokens
      /\ validator[v].tokens \in Nat /\ height \in Nat
  BY BurnedType, StakingTypes DEF IInv, OthersOK
<1>3. /\ validator'[v].tokens = validator[v].tokens - b
      /\ validator'[v].shares = validator[v].shares
      /\ \A u \in Vals \ {v} : validator'[u] = validator[u]
  BY <1>1, <1>2 DEF Validator
<1>4. CASE b = 0
  <2>1. \A u \in Vals : /\ validator'[u].tokens = validator[u].tokens
                        /\ validator'[u].shares = validator[u].shares
    BY <1>2, <1>3, <1>4
  <2> QED
    BY <1>1, <1>2, <1>4, <2>1, SameInBlock
<1>5. CASE b # 0
  <2>1. /\ s.validator = validator /\ s.delegation = delegation /\ s.ledger = ledger
        /\ t.validator = validator' /\ t.delegation = delegation' /\ t.ledger = ledger'
    BY DEF Staking
  <2>2. t.validator \in [Vals -> Validator] /\ StakingOK(t)
    <3>1. stage' \notin {"validators", "delegations"}
      BY <1>1, PlainLimitsAfter
    <3>2. StakingOK(t)
      BY <3>1, StakingAfter
    <3> QED
      BY <2>1, <3>2 DEF IInv, OthersOK
  <2>3. EffectiveFraction(v)
          = (b * Precision + validator[v].tokens - 1) \div validator[v].tokens
    BY DEF EffectiveFraction
  <2>4. StakingSound(s, height)
    BY <1>1, PlainSound
  <2> HIDE DEF b, s, t
  <2>5. /\ SharesOK(t) /\ LedgerSound(t.ledger, DOMAIN s.delegation, CapsOf(t), height)
        /\ Settles(s.ledger, t.ledger, v)
    <3>1. t.ledger = RecordSlash(s.ledger, v, s.validator[v].tokens, height,
                        (b * Precision + s.validator[v].tokens - 1) \div s.validator[v].tokens)
      BY <1>1, <1>5, <2>1, <2>3
    <3>2. /\ t.delegation = s.delegation /\ b \in Nat \ {0} /\ b <= s.validator[v].tokens
          /\ t.validator[v].tokens = s.validator[v].tokens - b
          /\ t.validator[v].shares = s.validator[v].shares
          /\ \A u \in Vals \ {v} : t.validator[u] = s.validator[u]
      BY <1>1, <1>2, <1>3, <1>5, <2>1
    <3>3. v \in Vals
      BY <1>2
    <3>4. t.validator \in [Vals -> Validator] /\ height \in Nat
      BY <1>2, <2>2
    <3>5. /\ b \in Nat \ {0} /\ b <= s.validator[v].tokens /\ t.delegation = s.delegation
          /\ t.validator[v].tokens = s.validator[v].tokens - b
          /\ t.validator[v].shares = s.validator[v].shares
          /\ \A u \in Vals \ {v} : t.validator[u] = s.validator[u]
      BY <3>2
    <3> QED
      BY <2>4, <3>1, <3>3, <3>4, <3>5, SlashedSound
  <2>6. StakingSound(t, height')
    BY <1>1, <2>1, <2>2, <2>5 DEF StakingSound
  <2>7. Covered'
    BY <1>1, <2>6, PlainAfter DEF t
  <2> QED
    BY <2>1, <2>5, <2>7 DEF Moves
<1> QED
  BY <1>4, <1>5

LEMMA DeliverSound ==
    ASSUME IInv, Covered, Deliver
    PROVE  /\ StakingSound(Staking, height) /\ LedgerOK(ledger) /\ height \in Nat
           /\ stage \in PlainStages /\ stage' \in PlainStages /\ height' = height
<1>1. stage \in PlainStages /\ stage' \in PlainStages /\ height' = height
  BY DEF Deliver, PlainStages, BlockStages
<1> QED
  BY <1>1, PlainSound, StakingTypes

LEMMA BecomesCovered ==
    ASSUME IInv, Covered, Deliver, NEW t, Becomes(t), StakingSound(t, height)
    PROVE  Covered'
<1>1. StakingOK(t)
  BY DEF StakingSound
<1>2. t = Staking'
  BY <1>1 DEF StakingOK, Becomes, Staking
<1>3. StakingSound(t, height')
  BY DeliverSound
<1> QED
  BY <1>2, <1>3, DeliverSound, PlainAfter

LEMMA DelegateCovered ==
    ASSUME IInv, Covered, NEW d \in Accounts, NEW v \in Vals, Delegate(d, v)
    PROVE  Covered' /\ Moves(ledger, ledger')
<1> DEFINE s == Staking
           t == Delegated(s, d, v, 1, height)
<1>1. /\ Deliver /\ Becomes(t) /\ ledger' = t.ledger /\ s.ledger = ledger
      /\ s.validator[v].tokens > 0 \/ s.validator[v].shares = 0
  BY DEF Delegate, Becomes, Staking
<1>2. StakingSound(s, height) /\ height \in Nat /\ 1 \in Nat
  BY <1>1, DeliverSound
<1> HIDE DEF s
<1>3. StakingSound(t, height) /\ Settles(s.ledger, t.ledger, v)
  BY <1>1, <1>2, DelegatedSound
<1> HIDE DEF t
<1>4. Covered'
  BY <1>1, <1>3, BecomesCovered
<1> QED
  BY <1>1, <1>3, <1>4 DEF Moves

LEMMA UndelegateCovered ==
    ASSUME IInv, Covered, NEW d \in Accounts, NEW v \in Vals, Undelegate(d, v)
    PROVE  Covered' /\ Moves(ledger, ledger')
<1> DEFINE s == Staking
<1>1. /\ Deliver /\ s.ledger = ledger /\ s.delegation = delegation
      /\ <<d, v>> \in DOMAIN delegation /\ validator[v].tokens > 0
  BY DEF Undelegate, Staking
<1>2. PICK n \in Undelegable(d, v) : Becomes(Unbonded(s, d, v, n, height))
  BY DEF Undelegate
<1>3. /\ n \in Nat /\ n <= s.delegation[<<d, v>>] /\ n <= s.validator[v].shares
      /\ TokensRemoved(s, v, n) \in 1 .. s.validator[v].tokens
  BY <1>1, UndelegableLemma
<1> DEFINE t == Unbonded(s, d, v, n, height)
<1>4. StakingSound(s, height) /\ height \in Nat
  BY <1>1, DeliverSound
<1>5. Becomes(t) /\ ledger' = t.ledger
  BY <1>2 DEF Becomes
<1> HIDE DEF s
<1>6. StakingSound(t, height) /\ Settles(s.ledger, t.ledger, v)
  BY <1>1, <1>3, <1>4, UnbondedSound
<1> HIDE DEF t
<1>7. Covered'
  BY <1>1, <1>5, <1>6, BecomesCovered
<1> QED
  BY <1>1, <1>5, <1>6, <1>7 DEF Moves

LEMMA RedelegateCovered ==
    ASSUME IInv, Covered, NEW d \in Accounts, NEW v \in Vals, NEW w \in Vals,
           BeginRedelegate(d, v, w)
    PROVE  Covered' /\ Moves(ledger, ledger')
<1> DEFINE s == Staking
<1>1. /\ Deliver /\ s.ledger = ledger /\ s.delegation = delegation /\ s.validator = validator
      /\ <<d, v>> \in DOMAIN delegation /\ validator[v].tokens > 0 /\ v # w
  BY DEF BeginRedelegate, Staking
<1>2. PICK n \in Undelegable(d, v) :
        LET tokens == TokensRemoved(s, v, n) IN
        /\ validator[w].tokens > 0 \/ validator[w].shares = 0
        /\ Becomes(Delegated(Unbonded(s, d, v, n, height), d, w, tokens, height))
  BY DEF BeginRedelegate
<1>3. /\ n \in Nat /\ n <= s.delegation[<<d, v>>] /\ n <= s.validator[v].shares
      /\ TokensRemoved(s, v, n) \in 1 .. s.validator[v].tokens
  BY <1>1, UndelegableLemma
<1> DEFINE u == Unbonded(s, d, v, n, height)
           tokens == TokensRemoved(s, v, n)
           t == Delegated(u, d, w, tokens, height)
<1>4. StakingSound(s, height) /\ height \in Nat /\ StakingOK(s)
  BY <1>1, DeliverSound DEF StakingSound
<1>5. Becomes(t) /\ ledger' = t.ledger
  BY <1>2 DEF Becomes
<1>6. tokens \in Nat
  <2>1. s.validator[v].tokens \in Nat
    BY <1>4 DEF StakingOK, Validator
  <2> QED
    BY <1>3, <2>1
<1>7. u.validator[w] = s.validator[w]
  BY <1>1, <1>4 DEF Unbonded, StakingOK
<1>8. u.validator[w].tokens > 0 \/ u.validator[w].shares = 0
  BY <1>1, <1>2, <1>7
<1> HIDE DEF s, tokens
<1>9. StakingSound(u, height) /\ Settles(s.ledger, u.ledger, v)
  BY <1>1, <1>3, <1>4, UnbondedSound DEF tokens
<1> HIDE DEF u
<1>10. StakingSound(t, height) /\ Settles(u.ledger, t.ledger, w)
  BY <1>4, <1>6, <1>8, <1>9, DelegatedSound
<1> HIDE DEF t
<1>11. Covered'
  BY <1>1, <1>5, <1>10, BecomesCovered
<1>12. LedgerOK(u.ledger)
  BY <1>9 DEF StakingSound, StakingOK, LedgerCounted
<1> QED
  BY <1>1, <1>5, <1>9, <1>10, <1>11, <1>12 DEF Moves

\* Withdrawing and starting again, in a transaction or in the export's loop.
LEMMA AgainCovered ==
    ASSUME IInv, Covered, stage \in PlainStages, stage' \in PlainStages,
           UNCHANGED <<height, stakingVars>>,
           NEW d \in Accounts, NEW v \in Vals, <<d, v>> \in DOMAIN delegation,
           ledger' = InitializeDelegation(Withdrawn(Staking, d, v, height), d, v,
                                          StakeOf(Staking, d, v), height)
    PROVE  Covered' /\ Moves(ledger, ledger')
<1> DEFINE s == Staking
           m == InitializeDelegation(Withdrawn(s, d, v, height), d, v,
                                     StakeOf(s, d, v), height)
<1>1. StakingSound(s, height) /\ height \in Nat
  BY PlainSound, StakingTypes
<1>2. s.ledger = ledger /\ s.delegation = delegation /\ ledger' = m
  BY DEF Staking
<1> HIDE DEF s
<1>3. LedgerSound(m, DOMAIN s.delegation, CapsOf(s), height) /\ Settles(s.ledger, m, v)
  BY <1>1, <1>2, AgainSound
<1> HIDE DEF m
<1>4. LedgerSound(ledger', DOMAIN delegation, CapsOf(Staking), height)
  BY <1>2, <1>3 DEF s
<1>5. Covered'
  BY <1>4, LedgerCovered
<1> QED
  BY <1>2, <1>3, <1>5 DEF Moves

LEMMA WithdrawRewardCovered ==
    ASSUME IInv, Covered, NEW d \in Accounts, NEW v \in Vals, WithdrawDelegatorReward(d, v)
    PROVE  Covered' /\ Moves(ledger, ledger')
<1>1. /\ Deliver /\ UNCHANGED stakingVars /\ <<d, v>> \in DOMAIN delegation
      /\ ledger' = InitializeDelegation(Withdrawn(Staking, d, v, height), d, v,
                                        StakeOf(Staking, d, v), height)
  BY DEF WithdrawDelegatorReward
<1> QED
  BY <1>1, DeliverSound, AgainCovered

LEMMA UnjailCovered ==
    ASSUME IInv, Covered, NEW v \in Vals, Unjail(v)
    PROVE  Covered' /\ Moves(ledger, ledger')
<1>1. /\ Deliver /\ UNCHANGED <<ledger, delegation>>
      /\ validator' = [validator EXCEPT ![v].jailed = FALSE]
  BY DEF Unjail
<1>2. validator \in [Vals -> Validator]
  BY DEF IInv, OthersOK
<1>3. \A u \in Vals : /\ validator'[u].tokens = validator[u].tokens
                      /\ validator'[u].shares = validator[u].shares
  BY <1>1, <1>2 DEF Validator
<1> QED
  BY <1>1, <1>3, DeliverSound, SameInBlock

LEMMA AppliedStakes ==
    ASSUME IInv, NEW h, ApplyAndReturnValidatorSetUpdates(validator, h)
    PROVE  \A u \in Vals : /\ validator'[u].tokens = validator[u].tokens
                           /\ validator'[u].shares = validator[u].shares
                           /\ validator'[u].jailed = validator[u].jailed
<1>1. validator \in [Vals -> Validator] /\ validator' = Applied(powerIndex, validator, h)
  BY DEF IInv, OthersOK, ApplyAndReturnValidatorSetUpdates
<1> QED
  BY <1>1 DEF Applied, Validator

LEMMA EndBlockCovered ==
    ASSUME IInv, Covered, EndBlock
    PROVE  Covered' /\ Moves(ledger, ledger')
<1>1. /\ stage \in PlainStages /\ stage' \in PlainStages /\ height' = height
      /\ UNCHANGED <<ledger, delegation>>
      /\ ApplyAndReturnValidatorSetUpdates(validator, height)
  BY DEF EndBlock, PlainStages, BlockStages
<1>2. height \in Nat
  BY StakingTypes
<1> QED
  BY <1>1, <1>2, AppliedStakes, SameInBlock

LEMMA ChainStepCovered ==
    ASSUME IInv, IInv', Covered, ChainStep
    PROVE  Covered' /\ Moves(ledger, ledger')
<1>1. Block(horizon)
  BY DEF ChainStep
<1>2. CASE BeginBlock
  BY <1>2, BeginBlockCovered
<1>3. CASE \E v \in todo : AllocateTokensToValidator(v)
  BY <1>3, DomainLemma, AllocateCovered
<1>4. CASE NoOffence
  BY <1>4, NoOffenceCovered
<1>5. CASE \E v \in last : SlashAndJail(v)
  BY <1>5, DomainLemma, SlashCovered
<1>6. CASE Transaction
  <2>1. CASE \E d \in Accounts, v \in Vals : Delegate(d, v)
    BY <2>1, DelegateCovered
  <2>2. CASE \E d \in Accounts, v \in Vals : Undelegate(d, v)
    BY <2>2, UndelegateCovered
  <2>3. CASE \E d \in Accounts, v \in Vals : WithdrawDelegatorReward(d, v)
    BY <2>3, WithdrawRewardCovered
  <2>4. CASE \E d \in Accounts, v \in Vals, w \in Vals : BeginRedelegate(d, v, w)
    BY <2>4, RedelegateCovered
  <2>5. CASE \E v \in Vals : Unjail(v)
    BY <2>5, UnjailCovered
  <2> QED
    BY <1>6, <2>1, <2>2, <2>3, <2>4, <2>5, DomainLemma DEF Transaction
<1>7. CASE EndBlock
  BY <1>7, EndBlockCovered
<1> QED
  BY <1>1, <1>2, <1>3, <1>4, <1>5, <1>6, <1>7 DEF Block

----------------------------------------------------------------------------
\* The export.

\* The export starts and stops: the latest height is the chain's again.
LEMMA StoppedCovered ==
    ASSUME IInv, Covered, UNCHANGED <<ledger, delegation, height>>,
           \A v \in Vals : /\ validator'[v].tokens = validator[v].tokens
                           /\ validator'[v].shares = validator[v].shares,
           stage \notin {"validators", "delegations"}, stage' \in {"panicked", "refused"}
    PROVE  Covered' /\ Moves(ledger, ledger')
<1>1. /\ stage' \notin {"validators", "delegations"} \union AfterEntries
      /\ Latest(AfterSlashes)' = height
  BY DEF Latest, AfterSlashes, AfterEntries
<1>2. Counting' = Counting
  BY <1>1 DEF Counting
<1>3. height \in Nat /\ Latest(AfterSlashes) \in {0, height}
  BY StakingTypes DEF Latest
<1> QED
  BY <1>1, <1>2, <1>3, SameCovered

LEMMA BeginExportCovered ==
    ASSUME IInv, Covered, NEW zero \in ZeroHeight, NEW list \in JailLists,
           BeginExport(zero, list)
    PROVE  Covered' /\ Moves(ledger, ledger')
<1>1. /\ stage = "committed" /\ stage' \in {"writing", "panicked", "commissions"}
      /\ UNCHANGED <<ledger, delegation, height, validator>>
      /\ stage' = "writing" => ~ forZeroHeight'
  BY DEF BeginExport, stakingVars
<1>2. Latest(AfterSlashes) = height /\ Latest(AfterSlashes)' = height /\ Counting' = Counting
  BY <1>1 DEF Latest, AfterSlashes, AfterEntries, Counting
<1>3. height \in Nat
  BY StakingTypes
<1>4. ~ (forZeroHeight' /\ stage' \in AfterEntries)
  BY <1>1 DEF AfterEntries
<1> QED
  BY <1>1, <1>2, <1>3, <1>4, SameCovered

LEMMA PanicsCovered ==
    ASSUME IInv, Covered, ExportStep(stage), Panics, stage \notin {"validators", "delegations"}
    PROVE  Covered' /\ Moves(ledger, ledger')
<1>1. stage' = "panicked" /\ UNCHANGED <<ledger, delegation, height, validator>>
  BY DEF ExportStep, Panics, stakingVars
<1> QED
  BY <1>1, StoppedCovered

LEMMA CommissionIsPaid ==
    ASSUME IInv, Covered, stage = "commissions", NEW v \in Vals
    PROVE  /\ LedgerSound(WithdrawCommission(ledger, v), DOMAIN delegation, CapsOf(Staking), height)
           /\ Settles(ledger, WithdrawCommission(ledger, v), v)
           /\ MayWithdrawCommission(ledger, v)
<1> DEFINE caps == CapsOf(Staking)
           live == DOMAIN delegation
           m == WithdrawCommission(ledger, v)
<1>1. stage \in PlainStages
  BY DEF PlainStages
<1>2. LedgerSound(ledger, live, caps, height) /\ caps \in CapsType /\ height \in Nat
  BY <1>1, PlainSound, StakingTypes, StakingFields DEF StakingSound
<1> HIDE DEF caps, live
<1>3. LedgerSound(m, live, caps, height) /\ Settles(ledger, m, v) /\ MayWithdrawCommission(ledger, v)
  BY <1>2, WithdrawCommissionSound
<1> QED
  BY <1>3 DEF live, caps

LEMMA CommissionCovered ==
    ASSUME IInv, Covered, NEW v \in Vals, WithdrawAllCommission(v)
    PROVE  Covered' /\ Moves(ledger, ledger')
<1>1. stage = "commissions" /\ height' = height
  BY DEF WithdrawAllCommission, ExportStep
<1>2. /\ ledger' = WithdrawCommission(ledger, v) /\ UNCHANGED stakingVars
      /\ stage' \in {"commissions", "rewards"}
  BY <1>1, CommissionIsPaid DEF WithdrawAllCommission, ExportStep
<1>3. stage \in PlainStages /\ stage' \in PlainStages
  BY <1>1, <1>2 DEF PlainStages
<1>4. Covered'
  BY <1>1, <1>2, <1>3, CommissionIsPaid, LedgerCovered
<1> QED
  BY <1>1, <1>2, <1>4, CommissionIsPaid DEF Moves

\* No withdrawal of the export panics.
LEMMA RewardsArePaid ==
    ASSUME IInv, Covered, stage \in PlainStages,
           NEW d \in Accounts, NEW v \in Vals, <<d, v>> \in DOMAIN delegation
    PROVE  MayWithdraw(ledger, d, v, validator[v].tokens, height, StakeOf(Staking, d, v))
<1> DEFINE s == Staking
<1>1. /\ StakingSound(s, height) /\ height \in Nat
      /\ s.ledger = ledger /\ s.delegation = delegation /\ s.validator = validator
  BY PlainSound, StakingTypes, StakingFields
<1> HIDE DEF s
<1>2. MayWithdraw(s.ledger, d, v, s.validator[v].tokens, height, StakeOf(s, d, v))
  BY <1>1, WithdrawnSound
<1> QED
  BY <1>1, <1>2 DEF s

LEMMA RewardsCovered ==
    ASSUME IInv, Covered, NEW d \in Accounts, NEW v \in Vals, WithdrawAllRewards(d, v)
    PROVE  Covered' /\ Moves(ledger, ledger')
<1>1. stage = "rewards" /\ height' = height /\ <<d, v>> \in pending /\ stage \in PlainStages
  BY DEF WithdrawAllRewards, ExportStep, FirstPair, PlainStages
<1>2. <<d, v>> \in DOMAIN delegation /\ v \in DOMAIN validator
  BY <1>1, DomainLemma DEF IInv, CountsOK
<1>3. /\ ledger' = InitializeDelegation(Withdrawn(Staking, d, v, height), d, v,
                                        StakeOf(Staking, d, v), height)
      /\ UNCHANGED <<stage, todo, stakingVars>>
  BY <1>1, <1>2, RewardsArePaid DEF WithdrawAllRewards
<1>4. stage' \in PlainStages
  BY <1>1, <1>3
<1>5. UNCHANGED <<height, stakingVars>>
  BY <1>1, <1>3
<1> QED
  BY <1>1, <1>2, <1>3, <1>4, <1>5, AgainCovered

\* A reward record without its periods.
Wiped(r) == [[r EXCEPT !.slashes = {}] EXCEPT !.historical = Empty]

LEMMA ClearedLedger ==
    ASSUME NEW l, LedgerOK(l), NEW m, m = DeleteHistoricalRewards(DeleteSlashEvents(l))
    PROVE  /\ m.rewards = [v \in Vals |-> Wiped(l.rewards[v])]
           /\ m.pool = l.pool /\ m.balance = l.balance
<1> DEFINE n == DeleteSlashEvents(l)
<1>1. DOMAIN l.rewards = Vals
  BY DEF LedgerOK
<1>2. /\ n.rewards = [v \in Vals |-> [l.rewards[v] EXCEPT !.slashes = {}]]
      /\ n.pool = l.pool /\ n.balance = l.balance
      /\ "rewards" \in DOMAIN n
  BY <1>1 DEF DeleteSlashEvents, LedgerOK
<1>3. m = [n EXCEPT !.rewards = [v \in DOMAIN n.rewards |-> [n.rewards[v] EXCEPT !.historical = Empty]]]
  BY DEF DeleteHistoricalRewards
<1> HIDE DEF n
<1>4. m.rewards = [v \in Vals |-> [n.rewards[v] EXCEPT !.historical = Empty]]
      /\ m.pool = n.pool /\ m.balance = n.balance
  <2>1. DOMAIN n.rewards = Vals
    BY <1>2
  <2>2. m.rewards = [v \in DOMAIN n.rewards |-> [n.rewards[v] EXCEPT !.historical = Empty]]
    BY <1>2, <1>3
  <2>3. m.pool = n.pool /\ m.balance = n.balance
    BY <1>3
  <2> QED
    BY <2>1, <2>2, <2>3
<1>5. [v \in Vals |-> [n.rewards[v] EXCEPT !.historical = Empty]]
        = [v \in Vals |-> Wiped(l.rewards[v])]
  BY <1>2 DEF Wiped
<1> QED
  BY <1>2, <1>4, <1>5

LEMMA WipedAmounts ==
    ASSUME NEW r, RewardsOK(r)
    PROVE  /\ Wiped(r).outstanding = r.outstanding
           /\ Wiped(r).commission = r.commission
           /\ Wiped(r).current = r.current
BY DEF RewardsOK, Wiped

LEMMA ClearPeriodsCovered ==
    ASSUME IInv, Covered, ClearPeriods
    PROVE  Covered' /\ Moves(ledger, ledger')
<1>1. /\ stage = "rewards" /\ stage' = "validators" /\ todo' = Vals
      /\ UNCHANGED <<validator, delegation>>
      /\ ledger' = DeleteHistoricalRewards(DeleteSlashEvents(ledger))
  <2>1. /\ stage = "rewards" /\ stage' = "validators" /\ todo' = DOMAIN validator
        /\ UNCHANGED <<validator, delegation>>
        /\ ledger' = DeleteHistoricalRewards(DeleteSlashEvents(ledger))
    BY DEF ClearPeriods, ExportStep, stakingVars
  <2> QED
    BY <2>1, DomainLemma
<1>2. LedgerOK(ledger)
  BY LedgerTyped DEF IInv
<1>3. /\ ledger'.rewards = [v \in Vals |-> Wiped(ledger.rewards[v])]
      /\ ledger'.pool = ledger.pool /\ ledger'.balance = ledger.balance
  BY <1>1, <1>2, ClearedLedger
<1>4. ASSUME NEW v \in Vals
      PROVE  /\ ledger'.rewards[v].outstanding = ledger.rewards[v].outstanding
             /\ ledger'.rewards[v].commission = ledger.rewards[v].commission
             /\ ledger'.rewards[v].current = ledger.rewards[v].current
  <2>1. RewardsOK(ledger.rewards[v])
    BY <1>2 DEF LedgerOK
  <2>2. ledger'.rewards[v] = Wiped(ledger.rewards[v])
    BY <1>3
  <2>3. /\ Wiped(ledger.rewards[v]).outstanding = ledger.rewards[v].outstanding
        /\ Wiped(ledger.rewards[v]).commission = ledger.rewards[v].commission
        /\ Wiped(ledger.rewards[v]).current = ledger.rewards[v].current
    BY <2>1, WipedAmounts
  <2> QED
    BY <2>2, <2>3
<1>5. \A v \in Vals : Paid(ledger.rewards[v])
  <2>1. stage # "validators"
    BY <1>1
  <2> QED
    BY <2>1, SoundIsPaid DEF Covered
<1>6. \A v \in Vals : Paid(ledger'.rewards[v])
  BY <1>4, <1>5 DEF Paid, Margin
<1>7. SharesOK(Staking')
  BY <1>1, SameStakes DEF Covered
<1>8. Covered'
  BY <1>1, <1>6, <1>7 DEF Covered, Drained, AfterEntries
<1>9. Amounts(ledger') = Amounts(ledger)
  <2>1. \A v \in Vals : ledger'.rewards[v].outstanding = ledger.rewards[v].outstanding
    BY <1>4
  <2>2. OutstandingOf(ledger') = OutstandingOf(ledger)
    BY <2>1 DEF OutstandingOf
  <2> QED
    BY <1>3, <2>2 DEF Amounts
<1> QED
  BY <1>8, <1>9 DEF Moves

----------------------------------------------------------------------------
\* The loops over the validators and the delegations.

LEMMA ZeroLimits ==
    /\ HInv /\ stage \in ExportStages \ {"writing"} => forZeroHeight
    /\ forZeroHeight /\ stage \in {"delegations"} \union AfterEntries
         => Latest(AfterSlashes) = 0
    /\ forZeroHeight' /\ stage' \in {"delegations"} \union AfterEntries
         => Latest(AfterSlashes)' = 0
  BY DEF HInv, Exporting, Latest, AfterSlashes, AfterEntries

\* What is outstanding goes to the pool and the rewards start anew.
LEMMA DonatedLedger ==
    ASSUME NEW l, LedgerOK(l), NEW v \in Vals, Cleared(l.rewards[v]), Paid(l.rewards[v]),
           NEW m, LedgerOK(m), m = InitializeValidator(DonateOutstanding(l, v), v)
    PROVE  /\ Settles(l, m, v)
           /\ Renewed(m.rewards[v]) /\ m.rewards[v].historical[0].ratio = 0
           /\ \A u \in Vals \ {v} : m.rewards[u] = l.rewards[u]
<1> DEFINE o == l.rewards[v]
           n == DonateOutstanding(l, v)
           r == [outstanding |-> 0, commission |-> 0, current |-> 0, period |-> 1,
                 historical  |-> Put(o.historical, 0, [ratio |-> 0, refs |-> 1]),
                 slashes     |-> o.slashes]
<1>1. /\ DOMAIN l.rewards = Vals /\ l.pool \in Int /\ l.balance \in Int
      /\ o.outstanding \in Int /\ o.commission \in Int /\ o.current \in Int
  BY LedgerTypes
<1>2. /\ n = [rewards |-> l.rewards, start |-> l.start,
              pool |-> l.pool + o.outstanding, balance |-> l.balance]
  <2>1. l = [rewards |-> l.rewards, start |-> l.start, pool |-> l.pool, balance |-> l.balance]
    BY DEF LedgerOK
  <2>2. n = [l EXCEPT !.pool = l.pool + o.outstanding]
    BY DEF DonateOutstanding
  <2> HIDE DEF n, o
  <2> QED
    BY <2>1, <2>2
<1>3. m = [n EXCEPT !.rewards[v] = r]
  BY <1>2 DEF InitializeValidator
<1>4. r.outstanding = 0 /\ Renewed(r) /\ r.historical[0].ratio = 0
  BY DEF Cleared, Renewed, Put, Empty
<1> HIDE DEF n, r
<1>5. /\ m.pool = l.pool + o.outstanding /\ m.balance = l.balance
      /\ m.rewards = [l.rewards EXCEPT ![v] = r]
  BY <1>2, <1>3
<1>6. m.rewards[v] = r /\ \A u \in Vals \ {v} : m.rewards[u] = l.rewards[u]
  BY <1>1, <1>5
<1>7. o.outstanding >= 0
  BY <1>1 DEF Paid, Margin
<1> HIDE DEF o
<1>8. Coins(m.balance - l.balance)
  BY <1>1, <1>5, CoinsSame
<1>9. /\ m.rewards[v].outstanding <= l.rewards[v].outstanding
      /\ m.pool >= l.pool /\ m.balance <= l.balance
      /\ m.balance - l.balance
          = (m.pool - l.pool) + (m.rewards[v].outstanding - l.rewards[v].outstanding)
  BY <1>1, <1>4, <1>5, <1>6, <1>7 DEF o
<1> QED
  BY <1>4, <1>6, <1>8, <1>9 DEF Settles

\* Renewed rewards owe nothing to nobody.
LEMMA RenewedSound ==
    ASSUME NEW l, LedgerCounted(l, {}), NEW caps, NEW h \in Nat,
           \A v \in Vals : Renewed(l.rewards[v])
    PROVE  LedgerSound(l, {}, caps, h)
<1>1. ASSUME NEW v \in Vals
      PROVE  Sound(Accounts, l.rewards[v], Infos(l, {}, v), caps[v], h)
  <2> DEFINE r == l.rewards[v]
  <2>1. /\ r.outstanding = 0 /\ r.commission = 0 /\ r.current = 0 /\ r.slashes = {}
        /\ DOMAIN r.historical = {0}
    BY <1>1 DEF Renewed
  <2>2. RewardsOK(r)
    BY <1>1 DEF LedgerCounted, LedgerOK
  <2>3. r.historical[0].ratio \in Int
    BY <2>1, <2>2 DEF RewardsOK, IsPartial
  <2>4. Infos(l, {}, v) = Empty
    BY DEF Infos, Empty
  <2> HIDE DEF r
  <2>5. Sound(Accounts, r, Empty, caps[v], h)
    BY <2>1, <2>3, FiniteLemma, FreshSound
  <2> QED
    BY <2>4, <2>5 DEF r
<1> QED
  BY <1>1 DEF LedgerSound

LEMMA ReinitializeValidatorCovered ==
    ASSUME IInv, IInv', HInv, Covered, NEW v \in Vals, ReinitializeValidator(v)
    PROVE  Covered' /\ Moves(ledger, ledger')
<1>1. /\ stage = "validators" /\ v \in todo /\ todo' = todo \ {v}
      /\ UNCHANGED stakingVars /\ UNCHANGED <<forZeroHeight, height>>
      /\ ledger' = InitializeValidator(DonateOutstanding(ledger, v), v)
      /\ \/ todo' = {} /\ stage' = "delegations" /\ pending' = DOMAIN delegation
         \/ UNCHANGED <<stage, pending>>
  BY DEF ReinitializeValidator, ExportStep, FirstVal
<1>2. LedgerOK(ledger) /\ LedgerOK(ledger') /\ todo \subseteq Vals /\ Cleared(ledger.rewards[v])
  BY <1>1, LedgerTyped, DomainLemma DEF IInv, CountsOK, LedgerCounted
<1>3. Paid(ledger.rewards[v])
  BY <1>1 DEF Covered
<1>4. /\ Settles(ledger, ledger', v) /\ Renewed(ledger'.rewards[v])
      /\ \A u \in Vals \ {v} : ledger'.rewards[u] = ledger.rewards[u]
  BY <1>1, <1>2, <1>3, DonatedLedger
<1>5. \A u \in Vals : IF u \in todo' THEN Paid(ledger'.rewards[u])
                      ELSE Renewed(ledger'.rewards[u])
  BY <1>1, <1>4 DEF Covered
<1>6. SharesOK(Staking')
  BY <1>1, SameStakes DEF Covered, stakingVars
<1>7. CASE stage' = "validators"
  <2>1. Drained'
    BY <1>7 DEF Drained, AfterEntries
  <2>2. Covered'
    BY <1>5, <1>6, <1>7, <2>1 DEF Covered
  <2> QED
    BY <1>4, <2>2 DEF Moves
<1>8. CASE stage' = "delegations" /\ todo' = {} /\ pending' = DOMAIN delegation
  <2>1. Counting' = {} /\ delegation' = delegation
    BY <1>1, <1>8 DEF Counting, stakingVars
  <2>2. forZeroHeight /\ Latest(AfterSlashes)' = 0
    BY <1>1, <1>8, ZeroLimits DEF ExportStages
  <2>3. LedgerCounted(ledger', {})
    BY <1>8, <2>1 DEF IInv, CountsOK
  <2>4. \A u \in Vals : Renewed(ledger'.rewards[u])
    BY <1>5, <1>8
  <2>5. LedgerSound(ledger', {}, CapsOf(Staking'), 0)
    BY <2>3, <2>4, RenewedSound
  <2>6. Drained'
    BY <2>4 DEF Drained, Renewed
  <2>7. Covered'
    BY <1>6, <1>8, <2>1, <2>2, <2>5, <2>6 DEF Covered
  <2> QED
    BY <1>4, <2>7 DEF Moves
<1> QED
  BY <1>1, <1>7, <1>8

LEMMA ReinitializeDelegationCovered ==
    ASSUME IInv, IInv', HInv, Covered, NEW d \in Accounts, NEW v \in Vals,
           ReinitializeDelegation(d, v)
    PROVE  Covered' /\ Moves(ledger, ledger')
<1> DEFINE live == DOMAIN delegation \ pending
           tokens == validator[v].tokens
           caps == CapsOf(Staking)
           n == IncrementPeriod(ledger, v, tokens)
           stake == StakeOf(Staking, d, v)
           m == InitializeDelegation(n, d, v, stake, 0)
<1>1. /\ stage = "delegations" /\ <<d, v>> \in pending
      /\ UNCHANGED <<forZeroHeight, height>>
  BY DEF ReinitializeDelegation, ExportStep, FirstPair
<1>2. LedgerCounted(ledger, live) /\ Covers(ledger, DOMAIN delegation) /\ <<d, v>> \in DOMAIN delegation
  BY <1>1 DEF IInv, CountsOK, Counting
<1>3. /\ ledger' = m /\ pending' = pending \ {<<d, v>>}
      /\ UNCHANGED <<stage, todo, stakingVars>>
  BY <1>2, MayIncrementLemma, DomainLemma DEF ReinitializeDelegation, MayBeforeDelegationCreated
<1>4. forZeroHeight /\ Latest(AfterSlashes) = 0 /\ Latest(AfterSlashes)' = 0
  BY <1>1, <1>3, ZeroLimits DEF ExportStages
<1>5. tokens \in Nat /\ caps \in CapsType
  BY StakingTypes
<1>6. SharesOK(Staking) /\ LedgerSound(ledger, live, caps, 0)
  BY <1>1, <1>4 DEF Covered, Counting
<1>7. Sum(caps[v], Accounts) <= tokens * Precision
  <2> DEFINE s == Staking
  <2>1. s.validator \in [Vals -> Validator] /\ IsPartial(s.delegation, Pairs, Nat)
        /\ s.validator = validator /\ SharesOK(s)
    BY <1>6, StakingTypes, StakingFields
  <2> HIDE DEF s
  <2>2. Sum(CapsOf(s)[v], Accounts) <= s.validator[v].tokens * Precision
    BY <2>1, CapsBound
  <2> QED
    BY <2>1, <2>2 DEF s
<1>8. stake \in Nat /\ stake <= caps[v][d]
  <2> DEFINE s == Staking
  <2>1. s.validator \in [Vals -> Validator] /\ IsPartial(s.delegation, Pairs, Nat)
        /\ s.delegation = delegation
    BY StakingTypes, StakingFields
  <2> HIDE DEF s
  <2>2. StakeOf(s, d, v) = CapsOf(s)[v][d] /\ CapsOf(s)[v][d] \in Nat
    <3>1. StakeOf(s, d, v) = CapsOf(s)[v][d]
      BY <1>2, <2>1 DEF CapsOf
    <3> QED
      BY <2>1, <3>1, DelegationTypes
  <2> QED
    BY <2>2 DEF s
<1>9. \A u \in Vals : ledger.rewards[u].outstanding = 0
  BY <1>1, <1>4 DEF Covered, Drained
<1>10. LedgerOK(ledger) /\ LedgerOK(ledger')
  BY <1>1, <1>3 DEF IInv, CountsOK, LedgerCounted
<1>11. /\ LedgerCounted(n, live) /\ n.start = ledger.start
       /\ Untouched(n.rewards[v], Starts(n, live, v))
  BY <1>2, <1>5, IncrementPeriodLemma
<1> HIDE DEF tokens, caps
<1>12. LedgerSound(n, live, caps, 0) /\ Settles(ledger, n, v)
  BY <1>5, <1>6, <1>7, IncrementPeriodSound
<1> HIDE DEF n, stake
<1>13. Ready(n, live, d, v)
  BY <1>1, <1>2, <1>11 DEF Ready, Covers
<1>14. LedgerSound(m, live \union {<<d, v>>}, caps, 0) /\ Settles(n, m, v)
  BY <1>5, <1>8, <1>12, <1>13, InitializeDelegationSound
<1> HIDE DEF m
<1>15. Settles(ledger, m, v)
  BY <1>3, <1>10, <1>11, <1>12, <1>14, SettledTwice DEF LedgerCounted
<1>16. Counting' = live \union {<<d, v>>}
  BY <1>1, <1>2, <1>3 DEF Counting, stakingVars
<1>17. CapsOf(Staking') = caps /\ SharesOK(Staking')
  BY <1>3, <1>6, SameStakes DEF stakingVars, caps
<1>18. Drained'
  <2>1. Paid(m.rewards[v])
    BY <1>14, SoundIsPaid
  <2>2. \A u \in Vals : m.rewards[u].outstanding = 0
    BY <1>3, <1>9, <1>10, <1>15, <2>1, StaysDrained
  <2> QED
    BY <1>3, <2>2 DEF Drained
<1>19. Covered'
  BY <1>1, <1>3, <1>4, <1>14, <1>16, <1>17, <1>18 DEF Covered
<1> QED
  BY <1>3, <1>15, <1>19 DEF Moves

LEMMA ResetEntriesCovered ==
    ASSUME IInv, HInv, Covered, ResetEntries
    PROVE  Covered' /\ Moves(ledger, ledger')
<1>1. /\ stage = "delegations" /\ pending = {} /\ stage' = "resetting"
      /\ UNCHANGED <<delegation, ledger, validator, forZeroHeight>>
  BY DEF ResetEntries, ExportStep
<1>2. Latest(AfterSlashes) = 0 /\ Latest(AfterSlashes)' = 0 /\ Counting' = Counting
  BY <1>1, ZeroLimits DEF ExportStages, AfterEntries, Counting
<1> QED
  BY <1>1, <1>2, SameCovered DEF AfterEntries

\* Steps after the loops: the ledger and every stake stay as they are.
LEMMA LaterCovered ==
    ASSUME IInv, Covered, UNCHANGED <<ledger, delegation, forZeroHeight, height>>,
           \A v \in Vals : /\ validator'[v].tokens = validator[v].tokens
                           /\ validator'[v].shares = validator[v].shares,
           stage \in AfterEntries, stage' \in AfterEntries
    PROVE  Covered' /\ Moves(ledger, ledger')
<1>1. /\ stage \notin {"validators", "delegations"} /\ stage' \notin {"validators", "delegations"}
      /\ stage \in AfterSlashes /\ stage' \in AfterSlashes
  BY DEF AfterSlashes, AfterEntries
<1>2. /\ Latest(AfterSlashes)' = Latest(AfterSlashes) /\ Counting' = Counting
      /\ Latest(AfterSlashes) \in Nat
  BY <1>1, StakingTypes DEF Latest, Counting
<1> QED
  BY <1>1, <1>2, SameCovered

LEMMA ResetValidatorsCovered ==
    ASSUME IInv, Covered, ResetValidators
    PROVE  Covered' /\ Moves(ledger, ledger')
<1>1. /\ stage = "resetting" /\ stage' = "powers"
      /\ UNCHANGED <<delegation, ledger, forZeroHeight, height>>
      /\ validator' = [v \in DOMAIN validator |->
            [validator[v] EXCEPT !.unbondingHeight = 0, !.jailed = @ \/ Omitted(v)]]
  BY DEF ResetValidators, ExportStep
<1>2. \A v \in Vals : /\ validator'[v].tokens = validator[v].tokens
                      /\ validator'[v].shares = validator[v].shares
  BY <1>1, DomainLemma DEF IInv, OthersOK, Validator
<1> QED
  BY <1>1, <1>2, LaterCovered DEF AfterEntries

LEMMA ApplyPowersCovered ==
    ASSUME IInv, Covered, ApplyPowers
    PROVE  Covered' /\ Moves(ledger, ledger')
<1>1. stage = "powers" /\ UNCHANGED <<delegation, ledger, forZeroHeight, height>>
  BY DEF ApplyPowers, exportVars
<1>2. CASE MayApply(powerIndex, validator)
  <2>1. stage' = "infos" /\ ApplyAndReturnValidatorSetUpdates(validator, height)
    BY <1>2 DEF ApplyPowers
  <2> QED
    BY <1>1, <2>1, AppliedStakes, LaterCovered DEF AfterEntries
<1>3. CASE ~ MayApply(powerIndex, validator)
  BY <1>1, <1>3, StoppedCovered DEF ApplyPowers
<1> QED
  BY <1>2, <1>3

LEMMA LastStepsCovered ==
    ASSUME IInv, Covered, ResetSigningInfos \/ WriteGenesis
    PROVE  Covered' /\ Moves(ledger, ledger')
<1>1. /\ stage \in AfterEntries /\ stage' \in AfterEntries
      /\ UNCHANGED <<delegation, ledger, validator, forZeroHeight, height>>
  BY DEF ResetSigningInfos, WriteGenesis, AfterEntries, stakingVars, exportVars
<1> QED
  BY <1>1, LaterCovered

LEMMA ImportGenesisCovered ==
    ASSUME IInv, Covered, ImportGenesis
    PROVE  Covered' /\ Moves(ledger, ledger')
<1>1. stage = "exported" /\ UNCHANGED <<delegation, ledger, validator, forZeroHeight>>
  BY DEF ImportGenesis
<1>2. CASE Importable
  <2>1. stage' = "committed" /\ height' = IF forZeroHeight THEN 0 ELSE height
    BY <1>2 DEF ImportGenesis
  <2>2. Latest(AfterSlashes) = height' /\ Latest(AfterSlashes)' = height' /\ Counting' = Counting
    BY <1>1, <2>1 DEF Latest, AfterSlashes, AfterEntries, Counting
  <2>3. height' \in Nat
    BY <2>1, StakingTypes
  <2> QED
    BY <1>1, <2>1, <2>2, <2>3, SameCovered DEF AfterEntries
<1>3. CASE ~ Importable
  BY <1>1, <1>3, StoppedCovered DEF ImportGenesis
<1> QED
  BY <1>2, <1>3

----------------------------------------------------------------------------
\* The genesis: every validator has one delegation, its own.

GenesisInfo(v) == [period |-> 1, stake |-> GenesisTokens[v] * Precision, height |-> 0]

LEMMA GenesisSound ==
    ASSUME NEW v \in Vals, NEW infos, infos = [d \in {v} |-> GenesisInfo(v)],
           NEW cap \in [Accounts -> Nat], GenesisTokens[v] * Precision <= cap[v]
    PROVE  Sound(Accounts, GenesisRewards, infos, cap, 0)
<1> DEFINE r == GenesisRewards
           info == GenesisInfo(v)
<1>1. /\ r.outstanding = 0 /\ r.commission = 0 /\ r.current = 0 /\ r.slashes = {}
      /\ r.period = 2 /\ DOMAIN r.historical = {1} /\ r.historical[1].ratio = 0
  BY DEF GenesisRewards
<1>2. GenesisTokens[v] * Precision \in Nat /\ v \in Accounts
  BY ChainAssumption, PrecisionAssumption, ProductType
<1>3. info \in StartingInfo /\ info.period = 1 /\ info.height = 0
      /\ info.stake = GenesisTokens[v] * Precision
  BY <1>2 DEF GenesisInfo, StartingInfo
<1> HIDE DEF r, info
<1>4. Acc(r, info, 0) = Base(info)
  BY <1>1, <1>3, AccruedSteps DEF Acc
<1>5. Ratio(r, 1) = 0 /\ LastRatio(r) = 0
  BY <1>1 DEF Ratio, Record, LastRatio
<1>6. /\ Acc(r, info, 0).reward = 0 /\ Acc(r, info, 0).stake = info.stake
      /\ Acc(r, info, 0).from = 1
  BY <1>3, <1>4 DEF Base
<1>7. Value(r, info, 0) = 0
  <2>1. Precision * 0 = 0 /\ info.stake * 0 = 0
    BY <1>2, <1>3, PrecisionAssumption
  <2> QED
    BY <1>5, <1>6, <2>1 DEF Value
<1>8. Dated(r, info, 0) /\ Within(r, info, cap[v], 0)
  BY <1>1, <1>2, <1>3, <1>6 DEF Dated, Within
<1>9. Sum(Values(Accounts, r, infos, 0), Accounts) = 0
  <2> DEFINE f == Values(Accounts, r, infos, 0)
  <2>1. DOMAIN infos = {v} /\ infos[v] = info
    BY DEF info
  <2>2. \A d \in Accounts : f[d] = 0
    BY <1>7, <2>1 DEF Values
  <2> HIDE DEF f
  <2>3. Sum(f, Accounts) = 0
    BY <2>2, FiniteLemma, SumOfZeros
  <2> QED
    BY <2>3 DEF f
<1>10. Margin(r) = 0 /\ Precision * Margin(r) = 0
  BY <1>1, PrecisionAssumption DEF Margin
<1>11. Ordered(r) /\ Events(r, 0)
  BY <1>1 DEF Ordered, Events
<1>12. DOMAIN infos = {v} /\ infos[v] = info
  BY DEF info
<1> QED
  BY <1>1, <1>2, <1>8, <1>9, <1>10, <1>11, <1>12 DEF Sound, r

\* A self-delegation is worth the tokens it was made with.
LEMMA GenesisCaps ==
    ASSUME Init, NEW v \in Vals
    PROVE  /\ GenesisTokens[v] * Precision <= CapsOf(Staking)[v][v]
           /\ v \in Accounts /\ GenesisTokens[v] \in Nat \ {0}
           /\ GenesisTokens[v] * Precision \in Nat \ {0}
<1> DEFINE s == Staking
           a == GenesisTokens[v] * Precision
           b == GenesisTokens[v]
<1>1. v \in Accounts /\ b \in Nat \ {0}
  BY ChainAssumption
<1>2. a \in Nat \ {0}
  <2> HIDE DEF b
  <2> QED
    BY <1>1, PrecisionAssumption DEF b
<1>3. /\ s.validator = validator /\ s.delegation = delegation
      /\ <<v, v>> \in DOMAIN delegation /\ delegation[<<v, v>>] = a
      /\ validator[v].tokens = b /\ validator[v].shares = a
  BY StakingFields DEF Init, InitChain, GenesisValidator
<1> HIDE DEF s
<1>4. CapsOf(s)[v][v] = (a * b * Precision) \div a
  <2> HIDE DEF a, b
  <2> QED
    BY <1>1, <1>2, <1>3 DEF CapsOf, StakeOf, Stake
<1>5. a = b * Precision
  OBVIOUS
<1> HIDE DEF a, b
<1>6. a * b * Precision = a * (b * Precision) /\ a * b * Precision \in Int /\ a * a \in Int
  BY <1>1, <1>2, PrecisionAssumption
<1>7. a * a <= a * b * Precision
  BY <1>5, <1>6
<1>8. a <= (a * b * Precision) \div a
  BY <1>2, <1>6, <1>7, QuotientIsGreatest
<1> QED
  BY <1>1, <1>2, <1>4, <1>8 DEF a, b, s

LEMMA InitCovered ==
    ASSUME Init
    PROVE  Covered /\ Whole
<1> DEFINE s == Staking
           live == DOMAIN delegation
<1>1. /\ stage = "committed" /\ height = 0
      /\ delegation = [p \in {<<v, v>> : v \in Vals} |-> GenesisTokens[p[2]] * Precision]
      /\ \A v \in Vals : /\ validator[v].tokens = GenesisTokens[v]
                         /\ validator[v].shares = GenesisTokens[v] * Precision
      /\ ledger.rewards = [v \in Vals |-> GenesisRewards]
      /\ \A v \in Vals : ledger.start[<<v, v>>] = GenesisInfo(v)
      /\ ledger.pool = 0 /\ ledger.balance = 0
  BY DEF Init, InitChain, GenesisValidator, GenesisInfo
<1>2. IInv
  BY InitInvariant
<1>3. stage \in PlainStages
  BY <1>1 DEF PlainStages, BlockStages
<1>4. LedgerCounted(ledger, live)
  BY <1>2, <1>3, PlainLimits DEF IInv, CountsOK
<1>5. /\ s.validator = validator /\ s.delegation = delegation
      /\ s.validator \in [Vals -> Validator] /\ IsPartial(s.delegation, Pairs, Nat)
  BY <1>2, StakingFields, StakingTypes
<1> HIDE DEF s
<1>6. \A v \in Vals : /\ v \in Accounts /\ GenesisTokens[v] \in Nat \ {0}
                      /\ GenesisTokens[v] * Precision \in Nat \ {0}
  BY GenesisCaps
<1>7. ASSUME NEW v \in Vals
      PROVE  /\ \A d \in Accounts : <<d, v>> \in live <=> d = v
             /\ delegation[<<v, v>>] = GenesisTokens[v] * Precision
  BY <1>1, <1>7
<1>8. SharesOK(s)
  <2> SUFFICES ASSUME NEW v \in Vals
               PROVE  Sum(SharesTo(delegation, v), Accounts) = validator[v].shares
    BY <1>1, <1>5, <1>6 DEF SharesOK, Spare
  <2> DEFINE f == [d \in Accounts |-> 0]
             g == SharesTo(delegation, v)
  <2>1. \A d \in Accounts : f[d] = 0
    OBVIOUS
  <2>2. g[v] = GenesisTokens[v] * Precision /\ \A d \in Accounts \ {v} : g[d] = 0
    BY <1>6, <1>7 DEF SharesTo
  <2> HIDE DEF f, g
  <2>3. Sum(f, Accounts) = 0
    BY <2>1, FiniteLemma, SumOfZeros
  <2>4. g[v] \in Int /\ v \in Accounts
    BY <1>6, <2>2
  <2>5. /\ \A d \in Accounts : f[d] \in Int
        /\ \A d \in Accounts \ {v} : g[d] = f[d]
        /\ IsFiniteSet(Accounts)
    BY <2>1, <2>2, FiniteLemma
  <2>6. Sum(g, Accounts) = Sum(f, Accounts) + (g[v] - f[v])
    BY <2>4, <2>5, SumChange
  <2> QED
    BY <1>1, <2>1, <2>2, <2>3, <2>4, <2>6 DEF g
<1>9. \A v \in Vals : GenesisTokens[v] * Precision <= CapsOf(s)[v][v]
  BY GenesisCaps DEF s
<1>10. LedgerSound(ledger, live, CapsOf(s), 0)
  <2> SUFFICES ASSUME NEW v \in Vals
               PROVE  Sound(Accounts, ledger.rewards[v], Infos(ledger, live, v),
                            CapsOf(s)[v], 0)
    BY <1>4 DEF LedgerSound
  <2>1. Infos(ledger, live, v) = [d \in {v} |-> GenesisInfo(v)]
    BY <1>1, <1>6, <1>7 DEF Infos
  <2>2. CapsOf(s)[v] \in [Accounts -> Nat]
    BY <1>5, DelegationTypes DEF CapsType
  <2>3. ledger.rewards[v] = GenesisRewards
    BY <1>1
  <2> QED
    BY <1>9, <2>1, <2>2, <2>3, GenesisSound
<1>11. Covered
  BY <1>1, <1>3, <1>8, <1>10, PlainLimits DEF Covered, Drained, s
<1>12. Whole
  <2> DEFINE f == OutstandingOf(ledger)
  <2>1. \A v \in Vals : f[v] = 0
    BY <1>1 DEF OutstandingOf, GenesisRewards
  <2> HIDE DEF f
  <2>2. Sum(f, Vals) = 0
    BY <2>1, FiniteLemma, SumOfZeros
  <2> QED
    BY <1>1, <2>2, CoinsLemma DEF Whole, Balanced, f
<1> QED
  BY <1>11, <1>12

----------------------------------------------------------------------------
\* The invariant of the whole system.

LEMMA PrepCovered ==
    ASSUME IInv, IInv', HInv, Covered, PrepForZeroHeightGenesis
    PROVE  Covered' /\ Moves(ledger, ledger')
<1>1. CASE \E v \in todo : WithdrawAllCommission(v)
  BY <1>1, DomainLemma, CommissionCovered
<1>2. CASE \E k \in pending : WithdrawAllRewards(k[1], k[2])
  <2>1. PICK k \in pending : WithdrawAllRewards(k[1], k[2])
    BY <1>2
  <2>2. k[1] \in Accounts /\ k[2] \in Vals
    BY DomainLemma DEF Pairs
  <2> QED
    BY <2>1, <2>2, RewardsCovered
<1>3. CASE \E v \in todo : ReinitializeValidator(v)
  BY <1>3, DomainLemma, ReinitializeValidatorCovered
<1>4. CASE \E k \in pending : ReinitializeDelegation(k[1], k[2])
  <2>1. PICK k \in pending : ReinitializeDelegation(k[1], k[2])
    BY <1>4
  <2>2. k[1] \in Accounts /\ k[2] \in Vals
    BY DomainLemma DEF Pairs
  <2> QED
    BY <2>1, <2>2, ReinitializeDelegationCovered
<1>5. CASE ClearPeriods \/ ResetEntries \/ ResetValidators \/ ApplyPowers \/ ResetSigningInfos
  BY <1>5, ClearPeriodsCovered, ResetEntriesCovered, ResetValidatorsCovered,
     ApplyPowersCovered, LastStepsCovered
<1> QED
  BY <1>1, <1>2, <1>3, <1>4, <1>5 DEF PrepForZeroHeightGenesis

LEMMA NextCovered ==
    ASSUME IInv, IInv', HInv, Covered, [Next]_vars
    PROVE  Covered' /\ Moves(ledger, ledger')
<1>1. CASE ChainStep
  BY <1>1, ChainStepCovered
<1>2. CASE \E zero \in ZeroHeight, list \in JailLists : BeginExport(zero, list)
  BY <1>2, BeginExportCovered
<1>3. CASE PrepForZeroHeightGenesis
  BY <1>3, PrepCovered
<1>4. CASE WriteGenesis \/ ImportGenesis
  BY <1>4, LastStepsCovered, ImportGenesisCovered
<1>5. CASE UNCHANGED vars
  BY <1>5 DEF Covered, Drained, Counting, Latest, CapsOf, SharesOK, Spare, StakeOf, Stake, Staking,
              Moves, vars, chainVars, stakingVars, exportVars
<1> QED
  BY <1>1, <1>2, <1>3, <1>4, <1>5 DEF Next

LEMMA NextWhole ==
    ASSUME IInv, IInv', HInv, Covered, Whole, [Next]_vars
    PROVE  Covered' /\ Whole'
<1>1. Covered' /\ Moves(ledger, ledger')
  BY NextCovered
<1>2. LedgerOK(ledger) /\ LedgerOK(ledger')
  BY DEF IInv, CountsOK, LedgerCounted
<1> QED
  BY <1>1, <1>2, MovesKeepWhole DEF Whole

LEMMA Accounting == Spec => [](Covered /\ Whole)
<1>1. Init => Covered /\ Whole
  BY InitCovered
<1>2. IInv /\ IInv' /\ HInv /\ Covered /\ Whole /\ [Next]_vars => Covered' /\ Whole'
  BY NextWhole
<1> QED
  BY <1>1, <1>2, Invariance, HeightsInvariance, PTL DEF Spec

----------------------------------------------------------------------------
\* What follows.

\* The sum that Outstanding is, unfolded.
OutstandingSummed(rewards, S, it) ==
    it = [T \in SUBSET S |->
            IF T = {} THEN 0 ELSE rewards[Chosen(T)].outstanding + it[T \ {Chosen(T)}]]

LEMMA OutstandingUnfolds ==
    Outstanding = (CHOOSE it : OutstandingSummed(ledger.rewards, DOMAIN ledger.rewards, it))[DOMAIN ledger.rewards]
  BY DEF Outstanding, MapThenSumSet, MapThenFoldSet, OutstandingSummed, Chosen

LEMMA OutstandingIsSum ==
    ASSUME LedgerOK(ledger)
    PROVE  Outstanding = Sum(OutstandingOf(ledger), Vals)
<1> DEFINE f == OutstandingOf(ledger)
<1>1. DOMAIN ledger.rewards = Vals
  BY LedgerTypes
<1>2. \A v \in Vals : f[v] = ledger.rewards[v].outstanding
  BY DEF OutstandingOf
<1> HIDE DEF f
<1>3. ASSUME NEW T \in SUBSET Vals, T # {}
      PROVE  f[Chosen(T)] = ledger.rewards[Chosen(T)].outstanding
  BY <1>2, <1>3, ChosenIn
<1>4. \A it : OutstandingSummed(ledger.rewards, Vals, it) <=> Summed(f, Vals, it)
  <2> SUFFICES ASSUME NEW it
               PROVE  [T \in SUBSET Vals |->
                        IF T = {} THEN 0 ELSE ledger.rewards[Chosen(T)].outstanding
                                                + it[T \ {Chosen(T)}]]
                       = [T \in SUBSET Vals |->
                            IF T = {} THEN 0 ELSE f[Chosen(T)] + it[T \ {Chosen(T)}]]
    BY DEF OutstandingSummed, Summed
  <2> QED
    BY <1>3
<1>5. (CHOOSE it : OutstandingSummed(ledger.rewards, Vals, it)) = CHOOSE it : Summed(f, Vals, it)
  BY <1>4
<1> QED
  BY <1>1, <1>5, OutstandingUnfolds, SumUnfolds DEF f

\* At every step of a block, of the export and of the resumed chain the module
\* account holds exactly the community pool and what is outstanding, and what
\* is outstanding covers commission and rewards (export.go:52-255).
THEOREM StaysSolvent == Spec => []Solvent
<1>1. IInv /\ Covered /\ Whole => Solvent
  <2> SUFFICES ASSUME IInv, Covered, Whole PROVE Solvent
    OBVIOUS
  <2>1. LedgerOK(ledger)
    BY LedgerTyped DEF IInv
  <2>2. ledger.balance = ledger.pool + Outstanding /\ ledger.pool >= 0
    BY <2>1, OutstandingIsSum DEF Whole, Balanced
  <2>3. ASSUME NEW v \in Vals PROVE Paid(ledger.rewards[v])
    <3>1. CASE stage = "validators"
      BY <2>3, <3>1 DEF Covered, Renewed, Paid, Margin
    <3>2. CASE stage # "validators"
      BY <2>3, <3>2, SoundIsPaid DEF Covered
    <3> QED
      BY <3>1, <3>2
  <2>4. \A v \in Vals : /\ ledger.rewards[v].outstanding \in Int
                        /\ ledger.rewards[v].commission \in Int
                        /\ ledger.rewards[v].current \in Int
    BY <2>1, LedgerTypes
  <2> QED
    BY <2>2, <2>3, <2>4 DEF Solvent, Paid, Margin
<1> QED
  BY <1>1, Invariance, Accounting, PTL

\* No withdrawal panics, of any delegation, at any point of a block, of the
\* export or of the resumed chain: the rounding of slashes, periods and shares
\* never leaves a stake above the margin that calculateDelegationRewards allows.
THEOREM EveryoneCanWithdraw == Spec => []CanWithdraw
<1>1. IInv /\ Covered => CanWithdraw
  <2> SUFFICES ASSUME IInv, Covered, stage \in PlainStages, NEW k \in DOMAIN delegation
               PROVE  MayWithdraw(ledger, k[1], k[2], validator[k[2]].tokens, height,
                                  StakeOf(Staking, k[1], k[2]))
    BY DEF CanWithdraw, PlainStages
  <2>1. k = <<k[1], k[2]>> /\ k[1] \in Accounts /\ k[2] \in Vals
    BY DEF IInv, OthersOK, IsPartial, Pairs
  <2> QED
    BY <2>1, RewardsArePaid
<1> QED
  BY <1>1, Invariance, Accounting, PTL

\* A genesis for zero height owes no rewards of the old chain: all the module
\* account holds belongs to the community pool (export.go:97-135).
THEOREM StartsFresh == Spec => []FreshLedger
<1>1. IInv /\ Covered /\ Whole => FreshLedger
  <2> SUFFICES ASSUME IInv, Covered, Whole, forZeroHeight, stage \in AfterEntries
               PROVE  /\ \A v \in Vals : ledger.rewards[v].outstanding = 0
                      /\ ledger.pool = ledger.balance
    BY DEF FreshLedger, AfterEntries
  <2> DEFINE f == OutstandingOf(ledger)
  <2>1. \A v \in Vals : ledger.rewards[v].outstanding = 0
    BY DEF Covered, Drained
  <2>2. \A v \in Vals : f[v] = 0
    BY <2>1 DEF OutstandingOf
  <2>3. ledger.balance = ledger.pool + Sum(f, Vals) /\ ledger.pool \in Int
    BY LedgerTyped, LedgerTypes DEF Whole, Balanced, IInv
  <2> HIDE DEF f
  <2>4. Sum(f, Vals) = 0
    BY <2>2, FiniteLemma, SumOfZeros
  <2> QED
    BY <2>1, <2>3, <2>4
<1> QED
  BY <1>1, Invariance, Accounting, PTL

\* Every step of the chain and of the export is a step of RewardLedger.
LEMMA StepsOfTheLedger ==
    ASSUME LedgerOK(ledger), LedgerOK(ledger'), Moves(ledger, ledger')
    PROVE  [Promise!Next]_Promise!vars
<1> DEFINE was == OutstandingOf(ledger)
           is == OutstandingOf(ledger')
<1>1. /\ DOMAIN is = Vals
      /\ \A v \in Vals : was[v] = ledger.rewards[v].outstanding /\ was[v] \in Int
      /\ \A v \in Vals : is[v] = ledger'.rewards[v].outstanding /\ is[v] \in Int
      /\ ledger.pool \in Int /\ ledger'.pool \in Int
      /\ ledger.balance \in Int /\ ledger'.balance \in Int
  BY LedgerTypes DEF OutstandingOf
<1>2. was = [v \in Vals |-> ledger.rewards[v].outstanding]
      /\ is = [v \in Vals |-> ledger'.rewards[v].outstanding]
  BY DEF OutstandingOf
<1> HIDE DEF was, is
<1>3. CASE Amounts(ledger') = Amounts(ledger)
  <2>1. ledger'.balance = ledger.balance /\ ledger'.pool = ledger.pool /\ is = was
    BY <1>3 DEF Amounts, was, is
  <2> QED
    BY <1>2, <2>1 DEF Promise!vars
<1>4. CASE \E v \in Vals : Collects(ledger, ledger', v)
  <2>1. PICK v \in Vals : Collects(ledger, ledger', v)
    BY <1>4
  <2>2. /\ \A u \in Vals \ {v} : is[u] = was[u]
        /\ is[v] - was[v] >= 0 /\ ledger'.pool >= ledger.pool
        /\ ledger'.balance - ledger.balance = (ledger'.pool - ledger.pool) + (is[v] - was[v])
    BY <1>1, <2>1 DEF Collects
  <2>3. Promise!Collect(v)
    BY <1>1, <1>2, <2>2 DEF Promise!Collect, Promise!OnlyMove, Promise!Change
  <2> QED
    BY <2>3 DEF Promise!Next
<1>5. CASE \E v \in Vals : Settles(ledger, ledger', v)
  <2>1. PICK v \in Vals : Settles(ledger, ledger', v)
    BY <1>5
  <2>2. /\ \A u \in Vals \ {v} : is[u] = was[u]
        /\ is[v] - was[v] <= 0 /\ ledger'.pool >= ledger.pool
        /\ ledger'.balance <= ledger.balance
        /\ ledger'.balance - ledger.balance = (ledger'.pool - ledger.pool) + (is[v] - was[v])
    BY <1>1, <2>1 DEF Settles
  <2>3. Promise!Settle(v, v)
    BY <1>1, <1>2, <2>2 DEF Promise!Settle, Promise!OnlyMove, Promise!Change
  <2> QED
    BY <2>3 DEF Promise!Next
<1>6. CASE \E v, w \in Vals : v # w /\ \E n : LedgerOK(n) /\ Settles(ledger, n, v)
                                              /\ Settles(n, ledger', w)
  <2>0. PICK v \in Vals, w \in Vals :
            v # w /\ \E n : LedgerOK(n) /\ Settles(ledger, n, v) /\ Settles(n, ledger', w)
    BY <1>6
  <2>1. PICK n : v # w /\ LedgerOK(n) /\ Settles(ledger, n, v) /\ Settles(n, ledger', w)
    BY <2>0
  <2>2. n.pool \in Int /\ n.balance \in Int /\ \A u \in Vals : n.rewards[u].outstanding \in Int
    BY <2>1, LedgerTypes
  <2>3. /\ \A u \in Vals \ {v} : n.rewards[u].outstanding = was[u]
        /\ n.rewards[v].outstanding <= was[v]
        /\ n.pool >= ledger.pool /\ n.balance <= ledger.balance
        /\ n.balance - ledger.balance
             = (n.pool - ledger.pool) + (n.rewards[v].outstanding - was[v])
    BY <1>1, <2>1 DEF Settles
  <2>4. /\ \A u \in Vals \ {w} : is[u] = n.rewards[u].outstanding
        /\ is[w] <= n.rewards[w].outstanding
        /\ ledger'.pool >= n.pool /\ ledger'.balance <= n.balance
        /\ ledger'.balance - n.balance
             = (ledger'.pool - n.pool) + (is[w] - n.rewards[w].outstanding)
    BY <1>1, <2>1 DEF Settles
  <2>5. /\ \A u \in Vals \ {v, w} : is[u] = was[u]
        /\ is[v] - was[v] <= 0 /\ is[w] - was[w] <= 0
        /\ ledger'.pool >= ledger.pool /\ ledger'.balance <= ledger.balance
        /\ ledger'.balance - ledger.balance
             = (ledger'.pool - ledger.pool) + (is[v] - was[v]) + (is[w] - was[w])
    <3> DEFINE nv == n.rewards[v].outstanding
               nw == n.rewards[w].outstanding
    <3>1. \A u \in Vals \ {v, w} : is[u] = was[u]
      BY <2>3, <2>4
    <3>2. is[v] = nv /\ nw = was[w] /\ nv <= was[v] /\ is[w] <= nw
      BY <2>1, <2>3, <2>4
    <3>3. /\ n.pool >= ledger.pool /\ n.balance <= ledger.balance
          /\ n.balance - ledger.balance = (n.pool - ledger.pool) + (nv - was[v])
      BY <2>3
    <3>4. /\ ledger'.pool >= n.pool /\ ledger'.balance <= n.balance
          /\ ledger'.balance - n.balance = (ledger'.pool - n.pool) + (is[w] - nw)
      BY <2>4
    <3>5. /\ nv \in Int /\ nw \in Int /\ n.pool \in Int /\ n.balance \in Int
          /\ was[v] \in Int /\ was[w] \in Int /\ is[v] \in Int /\ is[w] \in Int
          /\ ledger.pool \in Int /\ ledger'.pool \in Int
          /\ ledger.balance \in Int /\ ledger'.balance \in Int
      BY <1>1, <2>1, <2>2
    <3> HIDE DEF nv, nw
    <3>6. is[v] - was[v] <= 0 /\ is[w] - was[w] <= 0
      BY <3>2, <3>5
    <3>7. ledger'.pool >= ledger.pool /\ ledger'.balance <= ledger.balance
      BY <3>3, <3>4, <3>5
    <3>8. ledger'.balance - ledger.balance
             = (ledger'.pool - ledger.pool) + (is[v] - was[v]) + (is[w] - was[w])
      BY <3>2, <3>3, <3>4, <3>5
    <3> QED
      BY <3>1, <3>6, <3>7, <3>8
  <2>6. Promise!Settle(v, w)
    BY <1>1, <1>2, <2>1, <2>5 DEF Promise!Settle, Promise!OnlyMove, Promise!Change
  <2> QED
    BY <2>6 DEF Promise!Next
<1> QED
  BY <1>3, <1>4, <1>5, <1>6 DEF Moves

\* The chain, the export and the resumed chain implement RewardLedger: coins
\* come in for one validator's account and the pool, leave an account as a
\* payment or for the pool, and nothing else ever moves.
THEOREM ImplementsRewardLedger == Spec => KeepsTheLedger
<1>1. Init => Promise!Init
  BY DEF Init, InitChain, Promise!Init, GenesisRewards
<1>2. IInv /\ IInv' /\ HInv /\ Covered /\ [Next]_vars => [Promise!Next]_Promise!vars
  <2> SUFFICES ASSUME IInv, IInv', HInv, Covered, [Next]_vars
               PROVE  [Promise!Next]_Promise!vars
    OBVIOUS
  <2>1. Moves(ledger, ledger')
    BY NextCovered
  <2>2. LedgerOK(ledger) /\ LedgerOK(ledger')
    BY DEF IInv, CountsOK, LedgerCounted
  <2> QED
    BY <2>1, <2>2, StepsOfTheLedger
<1> QED
  BY <1>1, <1>2, Invariance, HeightsInvariance, Accounting, PTL
     DEF Spec, KeepsTheLedger, Promise!Spec


----------------------------------------------------------------------------
\* The bonded tokens.

\* The sum that TokensOfSet is, unfolded.
TokensSummed(S, val, it) ==
    it = [T \in SUBSET S |->
            IF T = {} THEN 0 ELSE val[Chosen(T)].tokens + it[T \ {Chosen(T)}]]

LEMMA TokensUnfold ==
    ASSUME NEW S, NEW val
    PROVE  TokensOfSet(S, val) = (CHOOSE it : TokensSummed(S, val, it))[S]
  BY DEF TokensOfSet, MapThenSumSet, MapThenFoldSet, TokensSummed, Chosen

TokensOf(val) == [v \in Vals |-> val[v].tokens]

LEMMA TokensOfSetIsSum ==
    ASSUME NEW S, S \subseteq Vals, NEW val
    PROVE  TokensOfSet(S, val) = Sum(TokensOf(val), S)
<1> DEFINE f == TokensOf(val)
<1>1. \A v \in Vals : f[v] = val[v].tokens
  BY DEF TokensOf
<1> HIDE DEF f
<1>2. ASSUME NEW T \in SUBSET S, T # {}
      PROVE  f[Chosen(T)] = val[Chosen(T)].tokens
  BY <1>1, <1>2, ChosenIn
<1>3. \A it : TokensSummed(S, val, it) <=> Summed(f, S, it)
  <2> SUFFICES ASSUME NEW it
               PROVE  [T \in SUBSET S |->
                        IF T = {} THEN 0 ELSE val[Chosen(T)].tokens + it[T \ {Chosen(T)}]]
                       = [T \in SUBSET S |->
                            IF T = {} THEN 0 ELSE f[Chosen(T)] + it[T \ {Chosen(T)}]]
    BY DEF TokensSummed, Summed
  <2> QED
    BY <1>2
<1>4. (CHOOSE it : TokensSummed(S, val, it)) = CHOOSE it : Summed(f, S, it)
  BY <1>3
<1> QED
  BY <1>4, TokensUnfold, SumUnfolds DEF f

BondedOf(val) == [v \in Vals |-> IF val[v].status = "bonded" THEN val[v].tokens ELSE 0]

Bonded(val) == {v \in Vals : val[v].status = "bonded"}

LEMMA BondedType ==
    ASSUME NEW val \in [Vals -> Validator]
    PROVE  /\ \A v \in Vals : /\ val[v].tokens \in Nat /\ val[v].shares \in Nat
                              /\ TokensOf(val)[v] \in Int
                              /\ BondedOf(val)[v] \in Int
           /\ Sum(BondedOf(val), Vals) \in Int
<1>1. \A v \in Vals : val[v].tokens \in Nat /\ val[v].shares \in Nat
  BY DEF Validator
<1>2. \A v \in Vals : TokensOf(val)[v] \in Int /\ BondedOf(val)[v] \in Int
  BY <1>1 DEF TokensOf, BondedOf
<1> QED
  BY <1>1, <1>2, FiniteLemma, SumType

\* The part of a sum that a set has.
PartOf(S, val) == [v \in Vals |-> IF v \in S THEN val[v].tokens ELSE 0]

LEMMA TokensOfPart ==
    ASSUME NEW S, S \subseteq Vals, NEW val \in [Vals -> Validator]
    PROVE  TokensOfSet(S, val) = Sum(PartOf(S, val), Vals)
<1> DEFINE f == TokensOf(val)
<1>1. \A v \in Vals : f[v] \in Int /\ f[v] = val[v].tokens
  BY BondedType DEF TokensOf
<1>2. PartOf(S, val) = [v \in Vals |-> IF v \in S THEN f[v] ELSE 0]
  <2> HIDE DEF f
  <2> QED
    BY <1>1 DEF PartOf
<1> HIDE DEF f
<1>3. Sum(f, S) = Sum([v \in Vals |-> IF v \in S THEN f[v] ELSE 0], Vals)
  BY <1>1, FiniteLemma, SumOfPart
<1> QED
  BY <1>2, <1>3, TokensOfSetIsSum DEF f

LEMMA BondedTokensIsSum ==
    ASSUME validator \in [Vals -> Validator]
    PROVE  BondedTokens = Sum(BondedOf(validator), Vals)
<1>1. DOMAIN validator = Vals /\ Bonded(validator) \subseteq Vals
  BY DEF Bonded
<1>2. BondedTokens = TokensOfSet(Bonded(validator), validator)
  BY <1>1 DEF BondedTokens, Bonded
<1>3. PartOf(Bonded(validator), validator) = BondedOf(validator)
  BY DEF PartOf, BondedOf, Bonded
<1> QED
  BY <1>1, <1>2, <1>3, TokensOfPart

\* One validator's tokens change, its status does not.
LEMMA BondedChange ==
    ASSUME NEW val \in [Vals -> Validator], NEW other \in [Vals -> Validator], NEW v \in Vals,
           \A u \in Vals \ {v} : other[u] = val[u], other[v].status = val[v].status
    PROVE  Sum(BondedOf(other), Vals) = Sum(BondedOf(val), Vals)
                + (IF val[v].status = "bonded" THEN other[v].tokens - val[v].tokens ELSE 0)
<1> DEFINE f == BondedOf(val)
           g == BondedOf(other)
<1>1. \A u \in Vals : f[u] \in Int /\ g[u] \in Int
  BY BondedType
<1>2. \A u \in Vals \ {v} : g[u] = f[u]
  BY DEF BondedOf
<1>3. g[v] - f[v] = (IF val[v].status = "bonded" THEN other[v].tokens - val[v].tokens ELSE 0)
  BY BondedType DEF BondedOf
<1> HIDE DEF f, g
<1>4. Sum(g, Vals) = Sum(f, Vals) + (g[v] - f[v])
  BY <1>1, <1>2, FiniteLemma, SumChange
<1> QED
  BY <1>3, <1>4 DEF f, g

\* The set changes from last to top.
LEMMA BondedMoves ==
    ASSUME NEW val \in [Vals -> Validator], NEW other \in [Vals -> Validator], NEW top,
           top \subseteq Vals, Bonded(other) = top,
           \A v \in Vals : other[v].tokens = val[v].tokens
    PROVE  Sum(BondedOf(other), Vals) = Sum(BondedOf(val), Vals)
                + TokensOfSet(top \ Bonded(val), val) - TokensOfSet(Bonded(val) \ top, val)
<1> DEFINE was == Bonded(val)
           f == BondedOf(val)
           g == BondedOf(other)
           x == PartOf(top \ was, val)
           y == PartOf(was \ top, val)
           z == [v \in Vals |-> f[v] + 1 * x[v]]
<1>1. \A v \in Vals : f[v] \in Int /\ g[v] \in Int /\ val[v].tokens \in Nat
  BY BondedType
<1>2. was \subseteq Vals /\ \A v \in Vals : x[v] \in Int /\ y[v] \in Int
  BY <1>1 DEF PartOf, Bonded
<1>3. \A v \in Vals : z[v] = f[v] + 1 * x[v] /\ z[v] \in Int
  <2>1. \A v \in Vals : z[v] = f[v] + 1 * x[v]
    OBVIOUS
  <2> HIDE DEF f, x, z
  <2> QED
    BY <1>1, <1>2, <2>1
<1>4. \A v \in Vals : g[v] = z[v] + (-1) * y[v]
  <2> SUFFICES ASSUME NEW v \in Vals PROVE g[v] = z[v] + (-1) * y[v]
    OBVIOUS
  <2>1. /\ f[v] = (IF v \in was THEN val[v].tokens ELSE 0)
        /\ g[v] = (IF v \in top THEN val[v].tokens ELSE 0)
        /\ x[v] = (IF v \in top \ was THEN val[v].tokens ELSE 0)
        /\ y[v] = (IF v \in was \ top THEN val[v].tokens ELSE 0)
    BY DEF BondedOf, Bonded, PartOf
  <2>2. z[v] = f[v] + 1 * x[v]
    BY <1>3
  <2> HIDE DEF f, g, x, y, z, was
  <2> QED
    BY <1>1, <2>1, <2>2
<1>5. TokensOfSet(top \ was, val) = Sum(x, Vals) /\ TokensOfSet(was \ top, val) = Sum(y, Vals)
  BY <1>2, TokensOfPart
<1> HIDE DEF f, g, x, y, z, was
<1>6. Sum(z, Vals) = Sum(f, Vals) + 1 * Sum(x, Vals)
  BY <1>1, <1>2, <1>3, FiniteLemma, SumCombined
<1>7. Sum(g, Vals) = Sum(z, Vals) + (-1) * Sum(y, Vals)
  BY <1>1, <1>2, <1>3, <1>4, FiniteLemma, SumCombined
<1>8. Sum(f, Vals) \in Int /\ Sum(x, Vals) \in Int /\ Sum(y, Vals) \in Int
  BY <1>1, <1>2, FiniteLemma, SumType
<1> QED
  BY <1>5, <1>6, <1>7, <1>8 DEF f, g, was

----------------------------------------------------------------------------
\* What the handlers of staking keep: the power index is who is not jailed, the
\* bonded pool holds the bonded tokens, and an operator that is not jailed has a
\* token's worth of its own validator.
Held(s, v) ==
    /\ ~ s.validator[v].jailed => CapsOf(s)[v][v] >= Precision
    /\ s.validator[v].shares = 0 => s.validator[v].tokens = 0
    /\ s.validator[v].status = "unbonded" => s.validator[v].tokens > 0

Unjailed(val) == {v \in Vals : ~ val[v].jailed}

SetOK(s) ==
    /\ s.powerIndex = Unjailed(s.validator)
    /\ s.bondedPool = Sum(BondedOf(s.validator), Vals)
    /\ \A v \in Vals : Held(s, v)

\* A validator with something staked in it has tokens.
LEMMA HeldHasTokens ==
    ASSUME NEW s, s.validator \in [Vals -> Validator], IsPartial(s.delegation, Pairs, Nat),
           NEW v \in Vals, Held(s, v), ~ s.validator[v].jailed
    PROVE  s.validator[v].tokens > 0
<1> DEFINE x == SharesTo(s.delegation, v)[v]
           t == s.validator[v].tokens
           n == s.validator[v].shares
<1>1. v \in Accounts
  BY ChainAssumption
<1>2. /\ t \in Nat /\ n \in Nat /\ x \in Nat
      /\ CapsOf(s)[v][v] = Worth(x, t, n)
  BY <1>1, DelegationTypes
<1>3. Worth(x, t, n) >= Precision
  BY <1>2 DEF Held
<1> HIDE DEF x, t, n
<1>4. n # 0 /\ Worth(x, t, n) = (x * t * Precision) \div n
  BY <1>3, PrecisionAssumption DEF Worth
<1>5. t # 0
  <2> SUFFICES ASSUME t = 0 PROVE FALSE
    OBVIOUS
  <2>1. n * Worth(x, t, n) <= (x * Precision) * t /\ Worth(x, t, n) \in Nat
    BY <1>2, WorthLemma
  <2>2. (x * Precision) * t = 0
    BY <1>2, PrecisionAssumption
  <2>3. n * Worth(x, t, n) \in Nat \ {0}
    <3>1. Worth(x, t, n) \in Nat \ {0} /\ n \in Nat \ {0}
      BY <1>2, <1>3, <1>4, <2>1, PrecisionAssumption
    <3> HIDE DEF Worth
    <3> QED
      BY <3>1
  <2> QED
    BY <2>1, <2>2, <2>3
<1> QED
  BY <1>2, <1>5 DEF t

\* A validator gets tokens and shares.
LEMMA DelegatedRecord ==
    ASSUME NEW s, StakingOK(s), NEW d, NEW v \in Vals, NEW n \in Nat, NEW h,
           s.validator[v].tokens > 0 \/ s.validator[v].shares = 0,
           NEW u, u = Delegated(s, d, v, n, h)
    PROVE  /\ u.powerIndex = s.powerIndex
           /\ u.bondedPool = s.bondedPool + IfBonded(s, v, n)
           /\ \A w \in Vals \ {v} : u.validator[w] = s.validator[w]
           /\ u.validator[v].status = s.validator[v].status
           /\ u.validator[v].jailed = s.validator[v].jailed
           /\ u.validator[v].tokens = s.validator[v].tokens + n
           /\ u.validator[v].shares = s.validator[v].shares + SharesFromTokens(s, v, n)
<1> DEFINE issued == SharesFromTokens(s, v, n)
           val == AddTokens(s.validator[v], n, issued)
           t == [s EXCEPT
                   !.validator[v] = AddTokens(@, n, issued),
                   !.delegation = Put(@, <<d, v>>,
                        issued + IF <<d, v>> \in DOMAIN s.delegation THEN @[<<d, v>>] ELSE 0),
                   !.bondedPool = @ + IfBonded(s, v, n)]
<1>1. /\ t.validator = [s.validator EXCEPT ![v] = val]
      /\ t.powerIndex = s.powerIndex /\ t.bondedPool = s.bondedPool + IfBonded(s, v, n)
      /\ DOMAIN t = {"validator", "delegation", "powerIndex", "bondedPool", "ledger"}
  BY DEF StakingOK
<1> DEFINE hooked == IF <<d, v>> \in DOMAIN s.delegation THEN Withdrawn(s, d, v, h)
                     ELSE IncrementPeriod(s.ledger, v, s.validator[v].tokens)
<1>2. u = [t EXCEPT !.ledger = InitializeDelegation(hooked, d, v, StakeOf(t, d, v), h)]
  BY DEF Delegated
<1> HIDE DEF t, hooked
<1>3. /\ u.validator = [s.validator EXCEPT ![v] = val]
      /\ u.powerIndex = s.powerIndex /\ u.bondedPool = s.bondedPool + IfBonded(s, v, n)
  BY <1>1, <1>2
<1>4. s.validator \in [Vals -> Validator] /\ s.validator[v] \in Validator
  BY DEF StakingOK
<1>5. u.validator[v] = val /\ \A w \in Vals \ {v} : u.validator[w] = s.validator[w]
  BY <1>3, <1>4
<1>6. /\ val.status = s.validator[v].status /\ val.jailed = s.validator[v].jailed
      /\ val.tokens = s.validator[v].tokens + n /\ val.shares = s.validator[v].shares + issued
  BY <1>4 DEF AddTokens, Validator
<1> QED
  BY <1>3, <1>5, <1>6

LEMMA DelegatedSet ==
    ASSUME NEW s, NEW h \in Nat, StakingSound(s, h), SetOK(s), NEW d \in Accounts,
           NEW v \in Vals, NEW n \in Nat \ {0},
           s.validator[v].tokens > 0 \/ s.validator[v].shares = 0,
           NEW u, u = Delegated(s, d, v, n, h)
    PROVE  SetOK(u) /\ Bonded(u.validator) = Bonded(s.validator)
<1> DEFINE issued == SharesFromTokens(s, v, n)
           old == s.validator
           new == u.validator
<1>1. StakingOK(s) /\ StakingOK(u) /\ n \in Nat
      /\ \A w \in Vals : \A a \in Accounts : CapsOf(s)[w][a] <= CapsOf(u)[w][a]
  <2>1. StakingSound(u, h)
        /\ \A w \in Vals : \A a \in Accounts : CapsOf(s)[w][a] <= CapsOf(u)[w][a]
    BY DelegatedSound
  <2> QED
    BY <2>1 DEF StakingSound
<1>2. /\ old \in [Vals -> Validator] /\ new \in [Vals -> Validator]
      /\ IsPartial(s.delegation, Pairs, Nat) /\ IsPartial(u.delegation, Pairs, Nat)
  BY <1>1 DEF StakingOK
<1>3. /\ u.powerIndex = s.powerIndex
      /\ u.bondedPool = s.bondedPool + IfBonded(s, v, n)
      /\ \A w \in Vals \ {v} : new[w] = old[w]
      /\ new[v].status = old[v].status /\ new[v].jailed = old[v].jailed
      /\ new[v].tokens = old[v].tokens + n
      /\ new[v].shares = old[v].shares + issued
  BY <1>1, DelegatedRecord
<1>4. issued \in Nat /\ (old[v].shares = 0 => issued # 0)
  <2>1. issued \in Nat
    BY <1>1, <1>2, SharesType
  <2>2. old[v].shares = 0 => issued = n * Precision
    BY DEF SharesFromTokens
  <2>3. n * Precision \in Nat \ {0}
    BY PrecisionAssumption
  <2> QED
    BY <2>1, <2>2, <2>3
<1>5. \A w \in Vals : old[w].tokens \in Nat /\ old[w].shares \in Nat
  BY <1>2, BondedType
<1>6. \A w \in Vals : /\ CapsOf(s)[w][w] \in Nat /\ CapsOf(u)[w][w] \in Nat
                      /\ CapsOf(s)[w][w] <= CapsOf(u)[w][w]
  <2>1. \A w \in Vals : w \in Accounts
    BY ChainAssumption
  <2> QED
    BY <1>1, <1>2, <2>1, DelegationTypes
<1> HIDE DEF issued
<1>7. \A w \in Vals : new[w].jailed = old[w].jailed /\ new[w].status = old[w].status
  BY <1>3
<1>8. ASSUME NEW w \in Vals
      PROVE  Held(u, w)
  <2>1. Held(s, w)
    BY DEF SetOK
  <2>2. /\ new[w].shares = 0 => new[w].tokens = 0
        /\ new[w].status = "unbonded" => new[w].tokens > 0
    <3>1. CASE w = v
      BY <1>3, <1>4, <1>5, <3>1
    <3>2. CASE w # v
      BY <1>3, <2>1, <3>2 DEF Held
    <3> QED
      BY <3>1, <3>2
  <2>3. ~ new[w].jailed => CapsOf(u)[w][w] >= Precision
    <3>1. ~ old[w].jailed => CapsOf(s)[w][w] >= Precision
      BY <2>1 DEF Held
    <3> QED
      BY <1>6, <1>7, <3>1, PrecisionAssumption
  <2> QED
    BY <2>2, <2>3 DEF Held
<1>9. Unjailed(new) = Unjailed(old) /\ Bonded(new) = Bonded(old)
  BY <1>7 DEF Unjailed, Bonded
<1>10. u.bondedPool = Sum(BondedOf(new), Vals)
  <2>1. Sum(BondedOf(new), Vals) = Sum(BondedOf(old), Vals)
            + (IF old[v].status = "bonded" THEN new[v].tokens - old[v].tokens ELSE 0)
    BY <1>2, <1>3, BondedChange
  <2>2. s.bondedPool = Sum(BondedOf(old), Vals)
    BY DEF SetOK
  <2>3. new[v].tokens - old[v].tokens = n
    BY <1>3, <1>5
  <2> QED
    BY <1>3, <2>1, <2>2, <2>3 DEF IfBonded
<1> QED
  BY <1>3, <1>8, <1>9, <1>10 DEF SetOK

LEMMA UnbondedSet ==
    ASSUME NEW s, NEW h \in Nat, StakingSound(s, h), SetOK(s), NEW d \in Accounts,
           NEW v \in Vals, <<d, v>> \in DOMAIN s.delegation, NEW n \in Nat,
           n <= s.delegation[<<d, v>>], n <= s.validator[v].shares,
           TokensRemoved(s, v, n) \in 1 .. s.validator[v].tokens,
           s.validator[v].status = "bonded" \/ TokensRemoved(s, v, n) < s.validator[v].tokens,
           NEW u, u = Unbonded(s, d, v, n, h)
    PROVE  SetOK(u) /\ Bonded(u.validator) = Bonded(s.validator)
<1> DEFINE gone == TokensRemoved(s, v, n)
           stake == Stake(s, v, s.delegation[<<d, v>>] - n)
           jail == d = v /\ stake < Precision
           old == s.validator
           new == u.validator
<1>1. /\ StakingOK(s) /\ StakingOK(u)
      /\ \A w \in Vals : \A a \in Accounts :
            <<a, w>> # <<d, v>> => CapsOf(s)[w][a] <= CapsOf(u)[w][a]
      /\ stake <= CapsOf(u)[v][d]
  <2>1. /\ StakingSound(u, h)
        /\ \A w \in Vals : \A a \in Accounts :
            <<a, w>> # <<d, v>> => CapsOf(s)[w][a] <= CapsOf(u)[w][a]
        /\ Stake(s, v, s.delegation[<<d, v>>] - n) <= CapsOf(u)[v][d]
    BY UnbondedSound
  <2> QED
    BY <2>1 DEF StakingSound
<1>2. /\ old \in [Vals -> Validator] /\ new \in [Vals -> Validator]
      /\ IsPartial(s.delegation, Pairs, Nat) /\ IsPartial(u.delegation, Pairs, Nat)
  BY <1>1 DEF StakingOK
<1>3. stake \in Nat
  <2>1. s.delegation[<<d, v>>] - n \in Nat
    BY <1>2 DEF IsPartial
  <2> QED
    BY <1>2, <2>1, StakeType
<1> HIDE DEF stake
<1>4. /\ new = [old EXCEPT ![v] = RemoveTokens(@, gone, n, jail)]
      /\ u.powerIndex = (IF jail THEN s.powerIndex \ {v} ELSE s.powerIndex)
      /\ u.bondedPool = s.bondedPool - IfBonded(s, v, gone)
  BY DEF Unbonded, stake
<1> HIDE DEF gone, jail
<1>5. /\ \A w \in Vals \ {v} : new[w] = old[w]
      /\ new[v].status = old[v].status /\ new[v].jailed = (old[v].jailed \/ jail)
      /\ new[v].tokens = old[v].tokens - gone /\ new[v].shares = old[v].shares - n
  <2>1. new[v] = RemoveTokens(old[v], gone, n, jail) /\ old[v] \in Validator
    BY <1>2, <1>4
  <2> QED
    BY <1>2, <1>4, <2>1 DEF RemoveTokens, Validator
<1>6. \A w \in Vals : old[w].tokens \in Nat /\ old[w].shares \in Nat
  BY <1>2, BondedType
<1>7. \A w \in Vals : /\ CapsOf(s)[w][w] \in Nat /\ CapsOf(u)[w][w] \in Nat
                      /\ <<w, w>> # <<d, v>> => CapsOf(s)[w][w] <= CapsOf(u)[w][w]
  <2>1. \A w \in Vals : w \in Accounts
    BY ChainAssumption
  <2> QED
    BY <1>1, <1>2, <2>1, DelegationTypes
<1>8. /\ gone \in 1 .. old[v].tokens /\ (old[v].status = "bonded" \/ gone < old[v].tokens)
      /\ n = old[v].shares => gone = old[v].tokens
  BY DEF gone, TokensRemoved
<1>9. ASSUME NEW w \in Vals
      PROVE  Held(u, w)
  <2>1. Held(s, w)
    BY DEF SetOK
  <2>2. CASE w # v
    <3>1. new[w] = old[w] /\ <<w, w>> # <<d, v>>
      BY <1>5, <2>2
    <3> QED
      BY <1>7, <2>1, <3>1, PrecisionAssumption DEF Held
  <2>3. CASE w = v
    <3>1. /\ new[w].shares = 0 => new[w].tokens = 0
          /\ new[w].status = "unbonded" => new[w].tokens > 0
      BY <1>5, <1>6, <1>8, <2>3
    <3>2. ASSUME ~ new[w].jailed
          PROVE  CapsOf(u)[w][w] >= Precision
      <4>1. ~ old[v].jailed /\ ~ jail
        BY <1>5, <2>3, <3>2
      <4>2. CASE d = v
        <5>1. stake >= Precision
          BY <1>3, <4>1, <4>2, PrecisionAssumption DEF jail
        <5> QED
          BY <1>1, <1>3, <1>7, <2>3, <4>2, <5>1, PrecisionAssumption
      <4>3. CASE d # v
        <5>1. CapsOf(s)[w][w] >= Precision /\ <<w, w>> # <<d, v>>
          BY <2>1, <2>3, <4>1, <4>3 DEF Held
        <5> QED
          BY <1>7, <5>1, PrecisionAssumption
      <4> QED
        BY <4>2, <4>3
    <3> QED
      BY <3>1, <3>2 DEF Held
  <2> QED
    BY <2>2, <2>3
<1>10. u.powerIndex = Unjailed(new)
  <2>1. s.powerIndex = Unjailed(old)
    BY DEF SetOK
  <2> QED
    BY <1>4, <1>5, <2>1 DEF Unjailed
<1>11. Bonded(new) = Bonded(old)
  BY <1>5 DEF Bonded
<1>12. u.bondedPool = Sum(BondedOf(new), Vals)
  <2>1. Sum(BondedOf(new), Vals) = Sum(BondedOf(old), Vals)
            + (IF old[v].status = "bonded" THEN new[v].tokens - old[v].tokens ELSE 0)
    BY <1>2, <1>5, BondedChange
  <2>2. s.bondedPool = Sum(BondedOf(old), Vals) /\ Sum(BondedOf(old), Vals) \in Int
    BY <1>2, BondedType DEF SetOK
  <2>3. new[v].tokens - old[v].tokens = - gone /\ gone \in Int
    BY <1>5, <1>6, <1>8
  <2> QED
    BY <1>4, <2>1, <2>2, <2>3 DEF IfBonded
<1> QED
  BY <1>9, <1>10, <1>11, <1>12 DEF SetOK

\* Steps that leave the delegations, and of the validators what matters, alone.
LEMMA SameHeld ==
    ASSUME NEW s, s.validator \in [Vals -> Validator], IsPartial(s.delegation, Pairs, Nat),
           NEW t, t.validator \in [Vals -> Validator], t.delegation = s.delegation,
           \A v \in Vals :
                /\ t.validator[v].tokens = s.validator[v].tokens
                /\ t.validator[v].shares = s.validator[v].shares
                /\ t.validator[v].status = "unbonded" => s.validator[v].status = "unbonded"
                /\ s.validator[v].jailed => t.validator[v].jailed,
           \A v \in Vals : Held(s, v)
    PROVE  \A v \in Vals : Held(t, v)
<1> SUFFICES ASSUME NEW v \in Vals PROVE Held(t, v)
  OBVIOUS
<1>1. CapsOf(t)[v] = CapsOf(s)[v]
  BY CapsSame
<1> QED
  BY <1>1 DEF Held

----------------------------------------------------------------------------
\* The invariant, stage by stage.  Until the export jails who the list omits the
\* power index is who is not jailed; then it may name others, but nobody that
\* ApplyAndReturnValidatorSetUpdates has bonded.
ZeroStages  == {"commissions", "rewards", "validators", "delegations", "resetting"}
IndexStages == BlockStages \union ZeroStages
SetStages   == {"powers", "infos", "writing", "exported"}
AfterPowers == {"infos", "writing", "exported"}

\* The index names everybody that is not jailed, and nobody without tokens.
Kept ==
    /\ Unjailed(validator) \subseteq powerIndex
    /\ \A v \in powerIndex : validator[v].tokens > 0

NobodyJailed == \A v \in Top(powerIndex, validator) : ~ validator[v].jailed

Agrees ==
    /\ last = Bonded(validator)
    /\ bondedPool = Sum(BondedOf(validator), Vals)
    /\ \A v \in Vals : Held(Staking, v)

Indexed ==
    /\ stage \in IndexStages => powerIndex = Unjailed(validator)
    /\ stage \in SetStages => Kept
    /\ stage = "powers" => \A v \in powerIndex : validator[v].jailed => Omitted(v)
    /\ stage \in AfterPowers => NobodyJailed

Formed ==
    /\ stage \in {"committed", "exported"} \union ExportStages
          => last = Top(powerIndex, validator)
    /\ stage \in {"exported"} \union ExportStages => last # {}
    /\ stage = "committed" /\ ~ resumed /\ height > 0 => last # {}

Active == Agrees /\ Indexed /\ Formed /\ PanicsOnlyForTheList /\ ImportAccepted

LEMMA SetOfActive ==
    ASSUME IInv, Active, stage \in IndexStages
    PROVE  /\ SetOK(Staking) /\ last = Bonded(validator)
           /\ Staking.validator \in [Vals -> Validator]
           /\ IsPartial(Staking.delegation, Pairs, Nat)
<1>1. SetOK(Staking) /\ last = Bonded(validator)
  BY StakingFields DEF Active, Agrees, Indexed, SetOK
<1> QED
  BY <1>1, StakingTypes

LEMMA InBlockActive ==
    ASSUME stage' \in BlockStages \ {"committed"}, NEW t, t = Staking', SetOK(t),
           last' = Bonded(validator')
    PROVE  Active'
<1>1. /\ stage' \in IndexStages /\ stage' # "panicked" /\ stage' # "refused"
      /\ stage' \notin SetStages \union AfterPowers \union {"committed", "powers"}
      /\ stage' \notin {"committed", "exported"} \union ExportStages
  BY DEF BlockStages, IndexStages, SetStages, AfterPowers, ExportStages
<1>2. t.validator = validator' /\ t.powerIndex = powerIndex' /\ t.bondedPool = bondedPool'
  BY DEF Staking
<1>3. Agrees'
  BY <1>2 DEF Agrees, SetOK
<1>4. Indexed'
  BY <1>1, <1>2 DEF Indexed, SetOK
<1>5. Formed' /\ PanicsOnlyForTheList' /\ ImportAccepted'
  BY <1>1 DEF Formed, PanicsOnlyForTheList, ImportAccepted
<1> QED
  BY <1>3, <1>4, <1>5 DEF Active

\* Steps that leave the validators alone.
LEMMA SameAgrees ==
    ASSUME IInv, Agrees, UNCHANGED <<validator, delegation, last, bondedPool>>
    PROVE  Agrees'
<1> DEFINE s == Staking
           t == Staking'
<1>1. /\ s.validator = validator /\ s.delegation = delegation
      /\ t.validator = validator /\ t.delegation = delegation
  BY DEF Staking
<1>2. s.validator \in [Vals -> Validator] /\ IsPartial(s.delegation, Pairs, Nat)
  BY StakingTypes
<1>3. \A v \in Vals : Held(s, v)
  BY DEF Agrees
<1> HIDE DEF s, t
<1>4. \A v \in Vals : Held(t, v)
  BY <1>1, <1>2, <1>3, SameHeld
<1> QED
  BY <1>4 DEF Agrees, t

LEMMA SameInBlockActive ==
    ASSUME IInv, Active, stage \in BlockStages, stage' \in BlockStages \ {"committed"},
           UNCHANGED stakingVars
    PROVE  Active'
<1>1. stage \in IndexStages /\ UNCHANGED <<validator, delegation, last, bondedPool, powerIndex>>
  BY DEF IndexStages, stakingVars
<1>2. Agrees'
  BY <1>1, SameAgrees DEF Active
<1>3. powerIndex' = Unjailed(validator')
  BY <1>1 DEF Active, Indexed
<1> DEFINE t == Staking'
<1>4. SetOK(t)
  <2>1. t.validator = validator' /\ t.powerIndex = powerIndex' /\ t.bondedPool = bondedPool'
    BY DEF Staking
  <2>2. \A v \in Vals : Held(t, v)
    BY <1>2 DEF Agrees
  <2> QED
    BY <1>2, <1>3, <2>1, <2>2 DEF SetOK, Agrees
<1>5. last' = Bonded(validator')
  BY <1>2 DEF Agrees
<1> HIDE DEF t
<1>6. t = Staking'
  BY DEF t
<1> QED
  BY <1>4, <1>5, <1>6, InBlockActive

LEMMA BeginBlockActive ==
    ASSUME IInv, Active, BeginBlock
    PROVE  Active'
<1>1. stage \in BlockStages /\ stage' \in BlockStages \ {"committed"} /\ UNCHANGED stakingVars
  BY DEF BeginBlock, BlockStages
<1> QED
  BY <1>1, SameInBlockActive

LEMMA AllocateActive ==
    ASSUME IInv, Active, NEW v \in Vals, AllocateTokensToValidator(v)
    PROVE  Active'
<1>1. stage \in BlockStages /\ stage' \in BlockStages \ {"committed"} /\ UNCHANGED stakingVars
  BY DEF AllocateTokensToValidator, BlockStages
<1> QED
  BY <1>1, SameInBlockActive

LEMMA NoOffenceActive ==
    ASSUME IInv, Active, NoOffence
    PROVE  Active'
<1>1. stage \in BlockStages /\ stage' \in BlockStages \ {"committed"} /\ UNCHANGED stakingVars
  BY DEF NoOffence, BlockStages
<1> QED
  BY <1>1, SameInBlockActive

LEMMA WithdrawRewardActive ==
    ASSUME IInv, Active, NEW d, NEW v, WithdrawDelegatorReward(d, v)
    PROVE  Active'
<1>1. stage \in BlockStages /\ stage' \in BlockStages \ {"committed"} /\ UNCHANGED stakingVars
  BY DEF WithdrawDelegatorReward, Deliver, BlockStages
<1> QED
  BY <1>1, SameInBlockActive

LEMMA SlashActive ==
    ASSUME IInv, IInv', Active, NEW v \in last, SlashAndJail(v)
    PROVE  Active'
<1> DEFINE b == Burned(v)
           s == Staking
           t == Staking'
<1>1. /\ stage \in IndexStages /\ stage' \in BlockStages \ {"committed"}
      /\ UNCHANGED <<delegation, last>>
      /\ validator' = [validator EXCEPT ![v].jailed = TRUE, ![v].tokens = @ - b]
      /\ powerIndex' = powerIndex \ {v} /\ bondedPool' = bondedPool - b
  BY DEF SlashAndJail, BlockStages, IndexStages
<1>2. /\ v \in Vals /\ validator \in [Vals -> Validator] /\ validator' \in [Vals -> Validator]
      /\ b \in Nat /\ validator[v].tokens - b \in Nat /\ validator[v].tokens \in Nat
  <2>1. v \in Vals /\ validator \in [Vals -> Validator] /\ validator' \in [Vals -> Validator]
    BY DEF IInv, OthersOK
  <2> QED
    BY <2>1, BurnedType, StakingTypes
<1> HIDE DEF b
<1>3. /\ validator'[v].tokens = validator[v].tokens - b
      /\ validator'[v].shares = validator[v].shares
      /\ validator'[v].status = validator[v].status /\ validator'[v].jailed
      /\ \A u \in Vals \ {v} : validator'[u] = validator[u]
  BY <1>1, <1>2 DEF Validator
<1>4. SetOK(s) /\ last = Bonded(validator)
  BY <1>1, SetOfActive
<1>5. validator[v].status = "bonded"
  BY <1>4 DEF Bonded
<1>6. /\ s.validator = validator /\ s.delegation = delegation /\ s.powerIndex = powerIndex
      /\ s.bondedPool = bondedPool
      /\ t.validator = validator' /\ t.delegation = delegation' /\ t.powerIndex = powerIndex'
      /\ t.bondedPool = bondedPool'
  BY DEF Staking
<1>7. t = Staking'
  OBVIOUS
<1> HIDE DEF s, t
<1>8. \A u \in Vals : Held(t, u)
  <2> SUFFICES ASSUME NEW u \in Vals PROVE Held(t, u)
    OBVIOUS
  <2>1. Held(s, u)
    BY <1>4 DEF SetOK
  <2>2. CASE u = v
    BY <1>2, <1>3, <1>5, <1>6, <2>1, <2>2 DEF Held
  <2>3. CASE u # v
    <3>1. \A w \in Vals \ {v} : CapsOf(t)[w] = CapsOf(s)[w]
      <4>1. t.delegation = s.delegation
        BY <1>1, <1>6
      <4> DEFINE V == Vals \ {v}
      <4>2. V \subseteq Vals /\ \A w \in V : /\ t.validator[w].tokens = s.validator[w].tokens
                                            /\ t.validator[w].shares = s.validator[w].shares
        BY <1>3, <1>6
      <4> HIDE DEF V
      <4>3. \A w \in V : CapsOf(t)[w] = CapsOf(s)[w]
        BY <4>1, <4>2, CapsSame
      <4> QED
        BY <4>3 DEF V
    <3> QED
      BY <1>3, <1>6, <2>1, <2>3, <3>1 DEF Held
  <2> QED
    BY <2>2, <2>3
<1>9. powerIndex' = Unjailed(validator') /\ Bonded(validator') = Bonded(validator)
  <2>1. powerIndex = Unjailed(validator)
    BY <1>4, <1>6 DEF SetOK
  <2> QED
    BY <1>1, <1>2, <1>3, <2>1 DEF Unjailed, Bonded
<1>10. bondedPool' = Sum(BondedOf(validator'), Vals)
  <2>1. Sum(BondedOf(validator'), Vals) = Sum(BondedOf(validator), Vals)
          + (IF validator[v].status = "bonded"
             THEN validator'[v].tokens - validator[v].tokens ELSE 0)
    BY <1>2, <1>3, BondedChange
  <2>2. bondedPool = Sum(BondedOf(validator), Vals) /\ Sum(BondedOf(validator), Vals) \in Int
    BY <1>2, <1>4, <1>6, BondedType DEF SetOK
  <2> QED
    BY <1>1, <1>2, <1>3, <1>5, <2>1, <2>2
<1> QED
  BY <1>1, <1>4, <1>6, <1>7, <1>8, <1>9, <1>10, InBlockActive DEF SetOK

\* A transaction that changes validators and delegations.
LEMMA BecomesActive ==
    ASSUME IInv, Active, Deliver, NEW u, Becomes(u), StakingOK(u), SetOK(u),
           Bonded(u.validator) = Bonded(validator)
    PROVE  Active'
<1>1. u = Staking' /\ validator' = u.validator
  BY DEF StakingOK, Becomes, Staking
<1>2. stage \in IndexStages /\ stage' \in BlockStages \ {"committed"} /\ last' = last
  BY DEF Deliver, BlockStages, IndexStages
<1>3. last = Bonded(validator)
  BY <1>2, SetOfActive
<1> QED
  BY <1>1, <1>2, <1>3, InBlockActive

LEMMA DeliverSet ==
    ASSUME IInv, Covered, Active, Deliver
    PROVE  StakingSound(Staking, height) /\ SetOK(Staking) /\ height \in Nat
<1>1. stage \in IndexStages
  BY DEF Deliver, IndexStages, BlockStages
<1> QED
  BY <1>1, SetOfActive, DeliverSound

LEMMA DelegateActive ==
    ASSUME IInv, Covered, Active, NEW d \in Accounts, NEW v \in Vals, Delegate(d, v)
    PROVE  Active'
<1> DEFINE s == Staking
           u == Delegated(s, d, v, 1, height)
<1>1. /\ Deliver /\ Becomes(u) /\ s.validator = validator
      /\ s.validator[v].tokens > 0 \/ s.validator[v].shares = 0
  BY DEF Delegate, Staking
<1>2. StakingSound(s, height) /\ SetOK(s) /\ height \in Nat /\ 1 \in Nat \ {0}
  BY <1>1, DeliverSet
<1> HIDE DEF s
<1>3. SetOK(u) /\ Bonded(u.validator) = Bonded(s.validator)
  BY <1>1, <1>2, DelegatedSet
<1>4. StakingOK(u)
  BY <1>1, <1>2, DelegatedLemma DEF StakingSound
<1> HIDE DEF u
<1> QED
  BY <1>1, <1>3, <1>4, BecomesActive

\* What the choice of shares says of a validator that is not active.
LEMMA UndelegableStatus ==
    ASSUME NEW d, NEW v, NEW n \in Undelegable(d, v)
    PROVE  Staking.validator[v].status = "bonded"
             \/ TokensRemoved(Staking, v, n) < Staking.validator[v].tokens
  BY StakingFields DEF Undelegable

LEMMA UndelegateActive ==
    ASSUME IInv, Covered, Active, NEW d \in Accounts, NEW v \in Vals, Undelegate(d, v)
    PROVE  Active'
<1> DEFINE s == Staking
<1>1. /\ Deliver /\ s.delegation = delegation /\ s.validator = validator
      /\ <<d, v>> \in DOMAIN delegation /\ validator[v].tokens > 0
  BY DEF Undelegate, Staking
<1>2. PICK n \in Undelegable(d, v) : Becomes(Unbonded(s, d, v, n, height))
  BY DEF Undelegate
<1>3. /\ n \in Nat /\ n <= s.delegation[<<d, v>>] /\ n <= s.validator[v].shares
      /\ TokensRemoved(s, v, n) \in 1 .. s.validator[v].tokens
      /\ s.validator[v].status = "bonded" \/ TokensRemoved(s, v, n) < s.validator[v].tokens
  BY <1>1, UndelegableLemma, UndelegableStatus
<1> DEFINE u == Unbonded(s, d, v, n, height)
<1>4. StakingSound(s, height) /\ SetOK(s) /\ height \in Nat
  BY <1>1, DeliverSet
<1> HIDE DEF s
<1>5. SetOK(u) /\ Bonded(u.validator) = Bonded(s.validator)
  BY <1>1, <1>3, <1>4, UnbondedSet
<1>6. StakingOK(u)
  BY <1>1, <1>3, <1>4, UnbondedLemma DEF StakingSound
<1> HIDE DEF u
<1>7. Becomes(u)
  BY <1>2 DEF u
<1> QED
  BY <1>1, <1>5, <1>6, <1>7, BecomesActive

LEMMA RedelegateActive ==
    ASSUME IInv, Covered, Active, NEW d \in Accounts, NEW v \in Vals, NEW w \in Vals,
           BeginRedelegate(d, v, w)
    PROVE  Active'
<1> DEFINE s == Staking
<1>1. /\ Deliver /\ s.delegation = delegation /\ s.validator = validator
      /\ <<d, v>> \in DOMAIN delegation /\ validator[v].tokens > 0 /\ v # w
  BY DEF BeginRedelegate, Staking
<1>2. PICK n \in Undelegable(d, v) :
        LET tokens == TokensRemoved(s, v, n) IN
        /\ validator[w].tokens > 0 \/ validator[w].shares = 0
        /\ Becomes(Delegated(Unbonded(s, d, v, n, height), d, w, tokens, height))
  BY DEF BeginRedelegate
<1>3. /\ n \in Nat /\ n <= s.delegation[<<d, v>>] /\ n <= s.validator[v].shares
      /\ TokensRemoved(s, v, n) \in 1 .. s.validator[v].tokens
      /\ s.validator[v].status = "bonded" \/ TokensRemoved(s, v, n) < s.validator[v].tokens
  BY <1>1, UndelegableLemma, UndelegableStatus
<1> DEFINE u == Unbonded(s, d, v, n, height)
           tokens == TokensRemoved(s, v, n)
           t == Delegated(u, d, w, tokens, height)
<1>4. StakingSound(s, height) /\ SetOK(s) /\ height \in Nat /\ StakingOK(s)
  BY <1>1, DeliverSet DEF StakingSound
<1>5. tokens \in Nat \ {0}
  <2>1. s.validator[v].tokens \in Nat
    BY <1>4 DEF StakingOK, Validator
  <2> QED
    BY <1>3, <2>1
<1>6. u.validator[w] = s.validator[w]
  BY <1>1, <1>4 DEF Unbonded, StakingOK
<1>7. u.validator[w].tokens > 0 \/ u.validator[w].shares = 0
  BY <1>1, <1>2, <1>6
<1>8. Becomes(t)
  BY <1>2
<1> HIDE DEF s, tokens
<1>9. StakingSound(u, height)
  BY <1>1, <1>3, <1>4, UnbondedSound DEF tokens
<1>10. SetOK(u) /\ Bonded(u.validator) = Bonded(s.validator)
  BY <1>1, <1>3, <1>4, UnbondedSet DEF tokens
<1> HIDE DEF u
<1>11. SetOK(t) /\ Bonded(t.validator) = Bonded(u.validator)
  BY <1>4, <1>5, <1>7, <1>9, <1>10, DelegatedSet
<1>12. StakingOK(t)
  <2>1. tokens \in Nat /\ StakingOK(u)
    BY <1>5, <1>9 DEF StakingSound
  <2> QED
    BY <1>4, <1>7, <2>1, DelegatedLemma
<1> HIDE DEF t
<1> QED
  BY <1>1, <1>8, <1>10, <1>11, <1>12, BecomesActive

LEMMA UnjailActive ==
    ASSUME IInv, IInv', Active, NEW v \in Vals, Unjail(v)
    PROVE  Active'
<1> DEFINE s == Staking
           t == Staking'
<1>1. /\ stage \in IndexStages /\ stage' \in BlockStages \ {"committed"}
      /\ UNCHANGED <<delegation, last, bondedPool>>
      /\ validator' = [validator EXCEPT ![v].jailed = FALSE]
      /\ powerIndex' = powerIndex \union {v}
      /\ <<v, v>> \in DOMAIN delegation /\ StakeOf(s, v, v) >= Precision
  BY DEF Unjail, Deliver, BlockStages, IndexStages
<1>2. validator \in [Vals -> Validator] /\ validator' \in [Vals -> Validator]
      /\ v \in Accounts
  BY ChainAssumption DEF IInv, OthersOK
<1>3. /\ ~ validator'[v].jailed
      /\ \A u \in Vals \ {v} : validator'[u].jailed = validator[u].jailed
      /\ \A u \in Vals : /\ validator'[u].tokens = validator[u].tokens
                         /\ validator'[u].shares = validator[u].shares
                         /\ validator'[u].status = validator[u].status
  BY <1>1, <1>2 DEF Validator
<1>4. SetOK(s) /\ last = Bonded(validator)
  BY <1>1, SetOfActive
<1>5. /\ s.validator = validator /\ s.delegation = delegation /\ s.powerIndex = powerIndex
      /\ s.bondedPool = bondedPool
      /\ t.validator = validator' /\ t.delegation = delegation' /\ t.powerIndex = powerIndex'
      /\ t.bondedPool = bondedPool'
  BY DEF Staking
<1>6. t = Staking'
  OBVIOUS
<1> HIDE DEF s, t
<1>7. \A u \in Vals : CapsOf(t)[u] = CapsOf(s)[u]
  <2>1. t.delegation = s.delegation
    BY <1>1, <1>5
  <2>2. \A u \in Vals : /\ t.validator[u].tokens = s.validator[u].tokens
                        /\ t.validator[u].shares = s.validator[u].shares
    BY <1>3, <1>5
  <2> QED
    BY <2>1, <2>2, CapsSame
<1>8. CapsOf(s)[v][v] >= Precision
  BY <1>1, <1>2, <1>5 DEF CapsOf
<1>9. \A u \in Vals : Held(t, u)
  <2> SUFFICES ASSUME NEW u \in Vals PROVE Held(t, u)
    OBVIOUS
  <2>1. Held(s, u)
    BY <1>4 DEF SetOK
  <2> QED
    BY <1>3, <1>5, <1>7, <1>8, <2>1 DEF Held
<1>10. powerIndex' = Unjailed(validator')
  <2>1. powerIndex = Unjailed(validator)
    BY <1>4, <1>5 DEF SetOK
  <2> QED
    BY <1>1, <1>3, <2>1 DEF Unjailed
<1>11. Bonded(validator') = Bonded(validator) /\ BondedOf(validator') = BondedOf(validator)
  BY <1>3 DEF Bonded, BondedOf
<1>12. SetOK(t)
  BY <1>1, <1>4, <1>5, <1>9, <1>10, <1>11 DEF SetOK
<1> QED
  BY <1>1, <1>4, <1>6, <1>11, <1>12, InBlockActive

----------------------------------------------------------------------------
\* The set is formed.
LEMMA AppliedSet ==
    ASSUME IInv, Agrees, NEW h \in Nat, ApplyAndReturnValidatorSetUpdates(validator, h),
           UNCHANGED <<delegation, powerIndex>>
    PROVE  /\ Agrees'
           /\ last' = Top(powerIndex, validator) /\ last' = Top(powerIndex', validator')
           /\ Unjailed(validator') = Unjailed(validator)
           /\ \A v \in Vals : /\ validator'[v].tokens = validator[v].tokens
                              /\ validator'[v].jailed = validator[v].jailed
<1> DEFINE top == Top(powerIndex, validator)
           s == Staking
           t == Staking'
<1>1. /\ validator \in [Vals -> Validator] /\ powerIndex \subseteq Vals
      /\ IsPartial(delegation, Pairs, Nat) /\ signing \in [Vals -> Nat \union {NoInfo}]
  BY DEF IInv, OthersOK
<1>2. validator' \in [Vals -> Validator] /\ last' = top /\ top \subseteq Vals
  BY <1>1, AppliedType DEF ApplyAndReturnValidatorSetUpdates
<1>3. \A v \in Vals : /\ validator'[v].tokens = validator[v].tokens
                      /\ validator'[v].shares = validator[v].shares
                      /\ validator'[v].jailed = validator[v].jailed
  BY AppliedStakes
<1>4. last = Bonded(validator) /\ bondedPool = Sum(BondedOf(validator), Vals)
      /\ \A v \in Vals : Held(s, v)
  BY DEF Agrees
<1>5. \A v \in Vals : validator'[v].status
                        = IF v \in top THEN "bonded"
                          ELSE IF v \in last THEN "unbonding" ELSE validator[v].status
  <2>1. validator' = Applied(powerIndex, validator, h)
    BY DEF ApplyAndReturnValidatorSetUpdates
  <2> HIDE DEF top
  <2>2. \A v \in Vals : validator'[v]
            = IF v \in top THEN [validator[v] EXCEPT !.status = "bonded"]
              ELSE IF v \in last
                   THEN [validator[v] EXCEPT !.status = "unbonding", !.unbondingHeight = h]
                   ELSE validator[v]
    BY <1>1, <2>1 DEF Applied, top
  <2>3. \A v \in Vals : validator[v] \in Validator
    BY <1>1
  <2> QED
    BY <2>2, <2>3 DEF Validator
<1>6. Bonded(validator') = top
  <2> HIDE DEF top
  <2> QED
    BY <1>2, <1>4, <1>5 DEF Bonded
<1>7. top = Top(powerIndex', validator')
  <2>1. \A v \in powerIndex : validator[v].tokens = validator'[v].tokens
    BY <1>1, <1>3
  <2> QED
    BY <2>1, TopOfTokens
<1>8. bondedPool' = Sum(BondedOf(validator'), Vals)
  <2>1. bondedPool' = bondedPool + TokensOfSet(top \ last, validator)
                                 - TokensOfSet(last \ top, validator)
    BY DEF ApplyAndReturnValidatorSetUpdates
  <2> HIDE DEF top
  <2>2. Sum(BondedOf(validator'), Vals) = Sum(BondedOf(validator), Vals)
          + TokensOfSet(top \ Bonded(validator), validator)
          - TokensOfSet(Bonded(validator) \ top, validator)
    BY <1>1, <1>2, <1>3, <1>6, BondedMoves
  <2> QED
    BY <1>4, <2>1, <2>2
<1>9. \A v \in Vals : Held(t, v)
  <2>1. /\ s.validator = validator /\ s.delegation = delegation
        /\ t.validator = validator' /\ t.delegation = s.delegation
    BY DEF Staking
  <2>2. \A v \in Vals : validator'[v].status = "unbonded" => validator[v].status = "unbonded"
    <3> HIDE DEF top
    <3> QED
      BY <1>5
  <2> HIDE DEF s, t, top
  <2> QED
    BY <1>1, <1>2, <1>3, <1>4, <2>1, <2>2, SameHeld
<1>10. Agrees'
  <2> HIDE DEF top
  <2> QED
    BY <1>2, <1>6, <1>8, <1>9 DEF Agrees
<1>11. Unjailed(validator') = Unjailed(validator)
  BY <1>3 DEF Unjailed
<1> QED
  BY <1>2, <1>3, <1>7, <1>10, <1>11

LEMMA EndBlockActive ==
    ASSUME IInv, Active, EndBlock
    PROVE  Active'
<1>1. /\ stage \in IndexStages /\ stage' = "committed" /\ Top(powerIndex, validator) # {}
      /\ UNCHANGED <<delegation, powerIndex>>
      /\ ApplyAndReturnValidatorSetUpdates(validator, height)
  BY DEF EndBlock, IndexStages, BlockStages
<1>2. Agrees /\ height \in Nat /\ powerIndex = Unjailed(validator)
  BY <1>1, StakingTypes DEF Active, Indexed
<1>3. /\ Agrees' /\ last' # {} /\ last' = Top(powerIndex', validator')
      /\ powerIndex' = Unjailed(validator')
  BY <1>1, <1>2, AppliedSet
<1>4. Indexed' /\ Formed'
  BY <1>1, <1>3 DEF Indexed, Formed, SetStages, AfterPowers
<1> QED
  BY <1>1, <1>3, <1>4 DEF Active, PanicsOnlyForTheList, ImportAccepted

----------------------------------------------------------------------------
\* The export.

\* Who is in the index before the export jails anybody.
LEMMA IndexHasTokens ==
    ASSUME IInv, Active, stage \in IndexStages
    PROVE  \A v \in powerIndex : ~ validator[v].jailed /\ validator[v].tokens > 0
<1> DEFINE s == Staking
<1>1. /\ s.validator \in [Vals -> Validator] /\ IsPartial(s.delegation, Pairs, Nat)
      /\ s.validator = validator /\ powerIndex = Unjailed(validator)
      /\ \A v \in Vals : Held(s, v)
  BY SetOfActive, StakingFields DEF SetOK, Active, Indexed
<1> HIDE DEF s
<1>2. \A v \in powerIndex : v \in Vals /\ ~ s.validator[v].jailed
  BY <1>1 DEF Unjailed
<1> QED
  BY <1>1, <1>2, HeldHasTokens

LEMMA BeginExportActive ==
    ASSUME IInv, Active, NEW zero \in ZeroHeight, NEW list \in JailLists, BeginExport(zero, list)
    PROVE  Active'
<1>1. /\ stage = "committed" /\ ~ resumed /\ height > 0 /\ stage \in IndexStages
      /\ UNCHANGED <<validator, delegation, powerIndex, last, bondedPool>>
      /\ \/ stage' = "writing"
         \/ stage' = "panicked" /\ Malformed \in allowed'
         \/ stage' = "commissions"
  BY DEF BeginExport, stakingVars, IndexStages, BlockStages
<1>2. Agrees'
  BY <1>1, SameAgrees DEF Active
<1>3. powerIndex = Unjailed(validator)
      /\ \A v \in powerIndex : ~ validator[v].jailed /\ validator[v].tokens > 0
  BY <1>1, IndexHasTokens DEF Active, Indexed
<1>4. Kept' /\ NobodyJailed'
  BY <1>1, <1>3 DEF Kept, NobodyJailed, Top, Visited
<1>5. Indexed'
  BY <1>1, <1>3, <1>4 DEF Indexed, SetStages, AfterPowers
<1>6. Formed'
  BY <1>1 DEF Active, Formed, ExportStages
<1>7. PanicsOnlyForTheList' /\ ImportAccepted'
  BY <1>1 DEF PanicsOnlyForTheList, ImportAccepted
<1> QED
  BY <1>2, <1>5, <1>6, <1>7 DEF Active

\* The loops over the ledger and the entries.
LEMMA ZeroStagesActive ==
    ASSUME IInv, Active, stage \in ZeroStages, stage' \in ZeroStages,
           UNCHANGED <<validator, delegation, powerIndex, last, bondedPool>>
    PROVE  Active'
<1>1. Agrees'
  BY SameAgrees DEF Active
<1>2. stage \in IndexStages /\ stage \in ExportStages
  BY DEF ZeroStages, IndexStages, ExportStages
<1>3. /\ powerIndex = Unjailed(validator)
      /\ last = Top(powerIndex, validator) /\ last # {}
  BY <1>2 DEF Active, Indexed, Formed
<1>4. Indexed' /\ Formed'
  BY <1>3 DEF Indexed, Formed, ZeroStages, SetStages, AfterPowers
<1>5. PanicsOnlyForTheList' /\ ImportAccepted'
  BY DEF PanicsOnlyForTheList, ImportAccepted, ZeroStages
<1> QED
  BY <1>1, <1>4, <1>5 DEF Active

LEMMA CommissionActive ==
    ASSUME IInv, Covered, Active, NEW v \in Vals, WithdrawAllCommission(v)
    PROVE  Active'
<1>1. stage = "commissions"
  BY DEF WithdrawAllCommission, ExportStep
<1>2. MayWithdrawCommission(ledger, v)
  BY <1>1, CommissionIsPaid
<1>3. /\ stage \in ZeroStages /\ stage' \in ZeroStages
      /\ UNCHANGED <<validator, delegation, powerIndex, last, bondedPool>>
  BY <1>1, <1>2 DEF WithdrawAllCommission, ZeroStages, stakingVars
<1> QED
  BY <1>3, ZeroStagesActive

LEMMA RewardsActive ==
    ASSUME IInv, Covered, Active, NEW d \in Accounts, NEW v \in Vals, WithdrawAllRewards(d, v)
    PROVE  Active'
<1>1. stage = "rewards" /\ <<d, v>> \in pending /\ v \in DOMAIN validator
      /\ stage \in PlainStages
  BY DomainLemma DEF WithdrawAllRewards, ExportStep, FirstPair, PlainStages
<1>2. <<d, v>> \in DOMAIN delegation
  BY <1>1 DEF IInv, CountsOK
<1>3. MayWithdraw(ledger, d, v, validator[v].tokens, height, StakeOf(Staking, d, v))
  BY <1>1, <1>2, RewardsArePaid
<1>4. /\ stage \in ZeroStages /\ stage' \in ZeroStages
      /\ UNCHANGED <<validator, delegation, powerIndex, last, bondedPool>>
  BY <1>1, <1>3 DEF WithdrawAllRewards, ZeroStages, stakingVars
<1> QED
  BY <1>4, ZeroStagesActive

LEMMA ClearPeriodsActive ==
    ASSUME IInv, Active, ClearPeriods
    PROVE  Active'
<1>1. /\ stage \in ZeroStages /\ stage' \in ZeroStages
      /\ UNCHANGED <<validator, delegation, powerIndex, last, bondedPool>>
  BY DEF ClearPeriods, ExportStep, ZeroStages, stakingVars
<1> QED
  BY <1>1, ZeroStagesActive

LEMMA ReinitializeValidatorActive ==
    ASSUME IInv, Active, NEW v, ReinitializeValidator(v)
    PROVE  Active'
<1>1. /\ stage \in ZeroStages /\ stage' \in ZeroStages
      /\ UNCHANGED <<validator, delegation, powerIndex, last, bondedPool>>
  BY DEF ReinitializeValidator, ExportStep, ZeroStages, stakingVars
<1> QED
  BY <1>1, ZeroStagesActive

LEMMA ReinitializeDelegationActive ==
    ASSUME IInv, Active, NEW d \in Accounts, NEW v \in Vals, ReinitializeDelegation(d, v)
    PROVE  Active'
<1>1. stage = "delegations"
  BY DEF ReinitializeDelegation, ExportStep
<1>2. LedgerCounted(ledger, Counting)
  BY <1>1 DEF IInv, CountsOK
<1>3. MayBeforeDelegationCreated(v)
  BY <1>2, MayIncrementLemma, DomainLemma DEF MayBeforeDelegationCreated
<1>4. /\ stage \in ZeroStages /\ stage' \in ZeroStages
      /\ UNCHANGED <<validator, delegation, powerIndex, last, bondedPool>>
  BY <1>1, <1>3 DEF ReinitializeDelegation, ZeroStages, stakingVars
<1> QED
  BY <1>4, ZeroStagesActive

LEMMA ResetEntriesActive ==
    ASSUME IInv, Active, ResetEntries
    PROVE  Active'
<1>1. /\ stage \in ZeroStages /\ stage' \in ZeroStages
      /\ UNCHANGED <<validator, delegation, powerIndex, last, bondedPool>>
  BY DEF ResetEntries, ExportStep, ZeroStages
<1> QED
  BY <1>1, ZeroStagesActive

\* Who the list omits is jailed and stays in the index.
LEMMA ResetValidatorsActive ==
    ASSUME IInv, IInv', Active, ResetValidators
    PROVE  Active'
<1> DEFINE s == Staking
           t == Staking'
<1>1. /\ stage = "resetting" /\ stage' = "powers" /\ stage \in IndexStages
      /\ UNCHANGED <<delegation, powerIndex, last, bondedPool, allowed>>
      /\ validator' = [v \in Vals |->
            [validator[v] EXCEPT !.unbondingHeight = 0, !.jailed = @ \/ Omitted(v)]]
  BY DomainLemma DEF ResetValidators, ExportStep, IndexStages, ZeroStages
<1>2. /\ validator \in [Vals -> Validator] /\ validator' \in [Vals -> Validator]
      /\ powerIndex \subseteq Vals
  BY DEF IInv, OthersOK
<1>3. \A v \in Vals : /\ validator'[v].tokens = validator[v].tokens
                      /\ validator'[v].shares = validator[v].shares
                      /\ validator'[v].status = validator[v].status
                      /\ validator'[v].jailed = (validator[v].jailed \/ Omitted(v))
  <2> HIDE DEF s, t
  <2> SUFFICES ASSUME NEW v \in Vals
               PROVE  /\ validator'[v].tokens = validator[v].tokens
                      /\ validator'[v].shares = validator[v].shares
                      /\ validator'[v].status = validator[v].status
                      /\ validator'[v].jailed = (validator[v].jailed \/ Omitted(v))
    OBVIOUS
  <2>1. validator'[v] =
            [validator[v] EXCEPT !.unbondingHeight = 0, !.jailed = @ \/ Omitted(v)]
    BY <1>1
  <2>2. validator[v] \in Validator
    BY <1>2
  <2> QED
    BY <2>1, <2>2 DEF Validator
<1>4. /\ powerIndex = Unjailed(validator)
      /\ \A v \in powerIndex : ~ validator[v].jailed /\ validator[v].tokens > 0
      /\ last = Top(powerIndex, validator) /\ last # {}
  BY <1>1, IndexHasTokens DEF Active, Indexed, Formed, ExportStages
<1>5. Agrees'
  <2>1. /\ s.validator = validator /\ s.delegation = delegation
        /\ t.validator = validator' /\ t.delegation = delegation'
    BY DEF Staking
  <2>2. \A v \in Vals : Held(s, v)
    BY DEF Active, Agrees
  <2> HIDE DEF s, t
  <2>3. IsPartial(delegation, Pairs, Nat)
    BY DEF IInv, OthersOK
  <2>4. \A v \in Vals : Held(t, v)
    <3>0. delegation' = delegation
      BY <1>1
    <3>1. /\ s.validator \in [Vals -> Validator] /\ t.validator \in [Vals -> Validator]
          /\ IsPartial(s.delegation, Pairs, Nat) /\ t.delegation = s.delegation
      BY <1>2, <2>1, <2>3, <3>0
    <3>2. ASSUME NEW v \in Vals
          PROVE  /\ t.validator[v].tokens = s.validator[v].tokens
                 /\ t.validator[v].shares = s.validator[v].shares
                 /\ t.validator[v].status = "unbonded" => s.validator[v].status = "unbonded"
                 /\ s.validator[v].jailed => t.validator[v].jailed
      <4>1. /\ validator'[v].tokens = validator[v].tokens
            /\ validator'[v].shares = validator[v].shares
            /\ validator'[v].status = validator[v].status
            /\ validator[v].jailed => validator'[v].jailed
        BY <1>3
      <4> QED
        BY <2>1, <4>1
    <3> QED
      BY <2>2, <3>1, <3>2, SameHeld
  <2>5. \A v \in Vals : /\ validator'[v].tokens = validator[v].tokens
                        /\ validator'[v].status = validator[v].status
    BY <1>3
  <2>6. Bonded(validator') = Bonded(validator) /\ BondedOf(validator') = BondedOf(validator)
    BY <2>5 DEF Bonded, BondedOf
  <2>7. UNCHANGED <<last, bondedPool>>
    BY <1>1
  <2> QED
    BY <2>4, <2>6, <2>7 DEF Active, Agrees, t
<1>6. Kept'
  <2>1. powerIndex' = powerIndex
    BY <1>1
  <2>2. \A v \in Vals : /\ validator'[v].tokens = validator[v].tokens
                        /\ ~ validator'[v].jailed => ~ validator[v].jailed
    BY <1>3
  <2>3. Unjailed(validator') \subseteq Unjailed(validator)
    BY <2>2 DEF Unjailed
  <2>4. \A v \in powerIndex : validator'[v].tokens > 0
    BY <1>2, <1>4, <2>2
  <2> QED
    BY <1>4, <2>1, <2>3, <2>4 DEF Kept
<1>7. \A v \in powerIndex' : validator'[v].jailed => Omitted(v)'
  <2>1. \A v \in powerIndex : validator'[v].jailed => Omitted(v)
    BY <1>2, <1>3, <1>4
  <2> QED
    BY <1>1, <2>1 DEF Omitted
<1>8. Indexed'
  BY <1>1, <1>6, <1>7 DEF Indexed, IndexStages, BlockStages, ZeroStages, AfterPowers
<1>9. Formed'
  <2>1. \A v \in powerIndex : validator[v].tokens = validator'[v].tokens
    BY <1>2, <1>3
  <2>2. Top(powerIndex, validator) = Top(powerIndex, validator')
    BY <2>1, TopOfTokens
  <2> QED
    BY <1>1, <1>4, <2>2 DEF Formed
<1> QED
  BY <1>1, <1>5, <1>8, <1>9 DEF Active, PanicsOnlyForTheList, ImportAccepted

AheadOf(v, index, val) == {u \in index : Ahead(u, v, val)}

LEMMA PowerType ==
    ASSUME NEW val, NEW v, val[v].tokens \in Nat
    PROVE  Power(v, val) \in Nat
BY DivisionType, ChainAssumption DEF Power

\* Among those with power the loop stops at MaxValidators only.
LEMMA TopOfIndex ==
    ASSUME NEW index, NEW val, \A v \in index : val[v].tokens \in Nat
    PROVE  Top(index, val) =
               {v \in index : Rank(v, index, val) < MaxValidators /\ Power(v, val) > 0}
<1>1. \A v \in index : Power(v, val) > 0 => Power(v, val) # 0
  BY PowerType
<1> QED
  BY <1>1 DEF Visited, Top

\* One without power is visited when all those with power leave it room.
LEMMA VisitedWithoutPower ==
    ASSUME NEW index, index \subseteq Vals, NEW val, \A u \in index : val[u].tokens \in Nat,
           NEW v \in Visited(index, val), v \notin Top(index, val)
    PROVE  /\ Cardinality(Top(index, val)) < MaxValidators /\ Power(v, val) = 0
           /\ \A u \in index : Power(u, val) = 0 => v <= u
<1> DEFINE S == Top(index, val)
           T == AheadOf(v, index, val)
<1>1. /\ v \in index /\ v \in Nat /\ Rank(v, index, val) < MaxValidators
      /\ ~ Power(v, val) > 0
  BY ChainAssumption DEF Visited, Top
<1>2. \A u \in index : Power(u, val) \in Nat /\ u \in Nat
  BY PowerType, ChainAssumption
<1>3. Power(v, val) = 0
  BY <1>1, <1>2
<1>4. \A u \in index : Power(u, val) = 0 => v <= u
  BY <1>1, <1>2, <1>3 DEF Visited, Ahead
<1>5. S \in SUBSET T /\ T \in SUBSET Vals
  BY <1>2, <1>3 DEF AheadOf, Top, Visited, Ahead
<1>6. Rank(v, index, val) = Cardinality(T)
  BY DEF Rank, AheadOf
<1> HIDE DEF S, T
<1>7. IsFiniteSet(T) /\ IsFiniteSet(S)
  BY <1>5, FiniteLemma, FS_Subset
<1>8. Cardinality(S) <= Cardinality(T) /\ Cardinality(S) \in Nat /\ Cardinality(T) \in Nat
  BY <1>5, <1>7, FS_Subset, FS_CardinalityType
<1>9. Cardinality(S) < MaxValidators
  BY <1>1, <1>6, <1>8, ChainAssumption
<1> QED
  BY <1>3, <1>4, <1>9 DEF S

\* The set is as it was, unless the list omits one that the update comes to.
LEMMA ApplyPowersActive ==
    ASSUME IInv, Active, ApplyPowers
    PROVE  Active'
<1>1. /\ stage = "powers" /\ UNCHANGED <<delegation, powerIndex, allowed>>
      /\ height \in Nat /\ Agrees
  BY StakingTypes DEF ApplyPowers, exportVars, Active
<1>2. /\ Kept /\ last = Top(powerIndex, validator) /\ last # {}
      /\ \A v \in powerIndex : validator[v].jailed => Omitted(v)
  BY <1>1 DEF Active, Indexed, Formed, ExportStages, SetStages
<1>3. /\ powerIndex \subseteq Vals /\ last \subseteq Visited(powerIndex, validator)
      /\ \A v \in powerIndex : validator[v].tokens \in Nat
  BY <1>2, StakingTypes DEF Top, IInv, OthersOK
<1>4. CASE MayApply(powerIndex, validator)
  <2>1. stage' = "infos" /\ ApplyAndReturnValidatorSetUpdates(validator, height)
    BY <1>4 DEF ApplyPowers
  <2>2. /\ Agrees' /\ last' = last /\ last' = Top(powerIndex', validator')
        /\ Unjailed(validator') = Unjailed(validator)
        /\ \A v \in Vals : /\ validator'[v].tokens = validator[v].tokens
                           /\ validator'[v].jailed = validator[v].jailed
    BY <1>1, <1>2, <2>1, AppliedSet
  <2>3. powerIndex \subseteq Vals
    BY DEF IInv, OthersOK
  <2>4. Kept'
    BY <1>1, <1>2, <2>2, <2>3 DEF Kept
  <2>5. \A v \in last : v \in Vals /\ ~ validator[v].jailed
    BY <1>2, <1>3, <1>4, DomainLemma DEF MayApply
  <2>6. NobodyJailed'
    BY <2>2, <2>5 DEF NobodyJailed
  <2>7. Indexed'
    BY <2>1, <2>4, <2>6 DEF Indexed, IndexStages, BlockStages, ZeroStages
  <2>8. Formed'
    BY <1>2, <2>1, <2>2 DEF Formed
  <2> QED
    BY <2>1, <2>2, <2>7, <2>8 DEF Active, PanicsOnlyForTheList, ImportAccepted
<1>5. CASE ~ MayApply(powerIndex, validator)
  <2>1. stage' = "panicked" /\ UNCHANGED <<validator, last, bondedPool>>
    BY <1>5 DEF ApplyPowers
  <2>2. PICK v \in Visited(powerIndex, validator) : validator[v].jailed
    BY <1>5 DEF MayApply
  <2>3. v \in powerIndex
    BY <2>2 DEF Visited
  <2>4. allowed # {} /\ v \notin allowed
    BY <1>2, <2>2, <2>3 DEF Omitted
  <2>5. v \in LookedAt
    <3>1. CASE v \in last
      BY <3>1 DEF LookedAt
    <3>2. CASE v \notin last
      BY <1>2, <1>3, <2>2, <2>3, <3>2, VisitedWithoutPower DEF LookedAt
    <3> QED
      BY <3>1, <3>2
  <2>9. PanicsOnlyForTheList'
    <3>1. UNCHANGED <<allowed, LookedAt>>
      BY <1>1, <2>1 DEF LookedAt
    <3> QED
      BY <2>4, <2>5, <3>1 DEF PanicsOnlyForTheList
  <2>6. Agrees'
    BY <1>1, <2>1, SameAgrees
  <2>7. Indexed' /\ Formed' /\ ImportAccepted'
    BY <2>1 DEF Indexed, Formed, ImportAccepted, IndexStages, BlockStages, ZeroStages,
                SetStages, AfterPowers, ExportStages
  <2> QED
    BY <2>6, <2>7, <2>9 DEF Active
<1> QED
  BY <1>4, <1>5

LEMMA LastStagesActive ==
    ASSUME IInv, Active, stage \in {"infos", "writing"}, stage' \in {"writing", "exported"},
           UNCHANGED <<validator, delegation, powerIndex, last, bondedPool>>
    PROVE  Active'
<1>1. Agrees'
  BY SameAgrees DEF Active
<1>2. Kept /\ NobodyJailed /\ last = Top(powerIndex, validator) /\ last # {}
  BY DEF Active, Indexed, Formed, ExportStages, SetStages, AfterPowers
<1>3. Kept' /\ NobodyJailed'
  BY <1>2 DEF Kept, NobodyJailed
<1>4. Indexed' /\ Formed'
  BY <1>2, <1>3 DEF Indexed, Formed, IndexStages, BlockStages, ZeroStages
<1>5. PanicsOnlyForTheList' /\ ImportAccepted'
  BY DEF PanicsOnlyForTheList, ImportAccepted
<1> QED
  BY <1>1, <1>4, <1>5 DEF Active

LEMMA SigningInfosActive ==
    ASSUME IInv, Active, ResetSigningInfos
    PROVE  Active'
  BY LastStagesActive DEF ResetSigningInfos, stakingVars

LEMMA WriteGenesisActive ==
    ASSUME IInv, Active, WriteGenesis
    PROVE  Active'
  BY LastStagesActive DEF WriteGenesis, stakingVars

----------------------------------------------------------------------------
\* The rebuilt index: without validators below the top of an index the top of it
\* is what it was.

LEMMA AheadIsOrder ==
    ASSUME NEW index, index \subseteq Vals, NEW val,
           \A v \in index : val[v].tokens \in Nat,
           NEW u \in index, NEW v \in index, Ahead(u, v, val)
    PROVE  /\ ~ Ahead(u, u, val)
           /\ \A w \in index : Ahead(w, u, val) => Ahead(w, v, val)
<1>1. \A w \in index : w \in Nat /\ Power(w, val) \in Nat
  BY PowerType, ChainAssumption
<1> QED
  BY <1>1 DEF Ahead

LEMMA RankLemma ==
    ASSUME NEW index, index \subseteq Vals, NEW val,
           \A v \in index : val[v].tokens \in Nat,
           NEW u \in index, NEW v \in index, Ahead(u, v, val)
    PROVE  /\ Rank(u, index, val) \in Nat /\ Rank(v, index, val) \in Nat
           /\ Rank(u, index, val) < Rank(v, index, val)
<1> DEFINE S == AheadOf(u, index, val)
           T == AheadOf(v, index, val)
<1>1. S \subseteq T /\ u \in T /\ u \notin S /\ T \subseteq Vals
  BY AheadIsOrder DEF AheadOf
<1>2. Rank(u, index, val) = Cardinality(S) /\ Rank(v, index, val) = Cardinality(T)
  BY DEF Rank, AheadOf
<1> HIDE DEF S, T
<1>3. IsFiniteSet(T) /\ IsFiniteSet(S) /\ S \in SUBSET T /\ S # T
  <2>1. IsFiniteSet(T)
    BY <1>1, FiniteLemma, FS_Subset
  <2>2. S \in SUBSET T /\ S # T
    BY <1>1
  <2> QED
    BY <2>1, <2>2, FS_Subset
<1>4. Cardinality(S) \in Nat /\ Cardinality(T) \in Nat
  BY <1>3, FS_CardinalityType
<1>5. Cardinality(S) <= Cardinality(T) /\ Cardinality(S) # Cardinality(T)
  BY <1>3, FS_Subset
<1> QED
  BY <1>2, <1>4, <1>5

LEMMA RankType ==
    ASSUME NEW index, index \subseteq Vals, NEW val, NEW v
    PROVE  Rank(v, index, val) \in Nat
<1>1. {u \in index : Ahead(u, v, val)} \in SUBSET Vals
  OBVIOUS
<1> QED
  BY <1>1, FiniteLemma, FS_Subset, FS_CardinalityType DEF Rank

\* In a part of the index nobody has more validators ahead.
LEMMA RankInPart ==
    ASSUME NEW index, index \subseteq Vals, NEW part, part \subseteq Vals, NEW val,
           NEW u, NEW v,
           \A w \in index : Ahead(w, u, val) => w \in part /\ Ahead(w, v, val)
    PROVE  Rank(u, index, val) <= Rank(v, part, val)
<1> DEFINE S == AheadOf(u, index, val)
           T == AheadOf(v, part, val)
<1>1. S \in SUBSET T /\ T \in SUBSET Vals
  BY DEF AheadOf
<1>2. Rank(u, index, val) = Cardinality(S) /\ Rank(v, part, val) = Cardinality(T)
  BY DEF Rank, AheadOf
<1> HIDE DEF S, T
<1>3. IsFiniteSet(T)
  BY <1>1, FiniteLemma, FS_Subset
<1> QED
  BY <1>1, <1>2, <1>3, FS_Subset

LEMMA TopOfPart ==
    ASSUME NEW index, index \subseteq Vals, NEW part, part \subseteq index, NEW val,
           \A v \in index : val[v].tokens \in Nat,
           Top(index, val) \subseteq part
    PROVE  Top(part, val) = Top(index, val)
<1> DEFINE R(v) == Rank(v, index, val)
           P(v) == Rank(v, part, val)
<1>1. /\ Top(index, val) = {v \in index : R(v) < MaxValidators /\ Power(v, val) > 0}
      /\ Top(part, val) = {v \in part : P(v) < MaxValidators /\ Power(v, val) > 0}
      /\ part \subseteq Vals /\ MaxValidators \in Nat
  <2>1. \A v \in part : val[v].tokens \in Nat
    OBVIOUS
  <2> QED
    BY <2>1, TopOfIndex, ChainAssumption
<1>2. \A v : R(v) \in Nat /\ P(v) \in Nat
  BY <1>1, RankType
<1>3. ASSUME NEW v \in Top(index, val)
      PROVE  v \in Top(part, val)
  <2>1. P(v) <= R(v)
    <3>1. \A w \in part : Ahead(w, v, val) => w \in index /\ Ahead(w, v, val)
      OBVIOUS
    <3> QED
      BY <1>1, <3>1, RankInPart
  <2> HIDE DEF R, P
  <2> QED
    BY <1>1, <1>2, <2>1
<1>4. ASSUME NEW v \in Top(part, val), v \notin Top(index, val)
      PROVE  FALSE
  <2> DEFINE gone == {u \in index : u \notin part /\ Ahead(u, v, val)}
             ranks == {R(u) : u \in gone}
  <2>1. /\ v \in index /\ v \in part /\ P(v) < MaxValidators /\ R(v) >= MaxValidators
        /\ Power(v, val) > 0
    <3> HIDE DEF R, P
    <3> QED
      BY <1>1, <1>2, <1>4
  <2>2. gone # {}
    <3> SUFFICES ASSUME gone = {} PROVE FALSE
      OBVIOUS
    <3>1. \A w \in index : Ahead(w, v, val) => w \in part /\ Ahead(w, v, val)
      OBVIOUS
    <3>2. R(v) <= P(v)
      BY <1>1, <3>1, RankInPart
    <3> HIDE DEF R, P
    <3> QED
      BY <1>1, <1>2, <2>1, <3>2
  <2>3. PICK u \in gone : \A w \in gone : R(u) <= R(w)
    <3>1. ranks \subseteq Nat /\ ranks # {}
      BY <1>2, <2>2
    <3>2. PICK n \in ranks : \A m \in ranks : n <= m
      <4> HIDE DEF ranks
      <4> QED
        BY <3>1, LeastNat
    <3> HIDE DEF R
    <3> QED
      BY <3>2
  <2>4. u \in index /\ u \notin part /\ Ahead(u, v, val)
    OBVIOUS
  <2>5. ASSUME NEW w \in index, Ahead(w, u, val)
        PROVE  w \in part /\ Ahead(w, v, val)
    <3>1. Ahead(w, v, val)
      BY <2>1, <2>4, <2>5, AheadIsOrder
    <3>2. R(w) < R(u) /\ R(w) \in Nat /\ R(u) \in Nat
      BY <2>4, <2>5, RankLemma
    <3>3. w \notin gone
      <4> HIDE DEF R, gone
      <4> QED
        BY <2>3, <3>2
    <3> QED
      BY <2>5, <3>1, <3>3
  <2>6. R(u) <= P(v)
    BY <1>1, <2>5, RankInPart
  <2>7. u \in Top(index, val)
    <3>1. Power(u, val) \in Nat /\ Power(v, val) \in Nat
      BY <2>1, <2>4, PowerType
    <3>2. Power(u, val) > 0
      BY <2>1, <2>4, <3>1 DEF Ahead
    <3> HIDE DEF R, P, gone
    <3> QED
      BY <1>1, <1>2, <2>1, <2>4, <2>6, <3>2
  <2> QED
    BY <2>4, <2>7
<1> QED
  BY <1>3, <1>4

LEMMA WholeCoins ==
    ASSUME NEW x \in Int, Coins(x)
    PROVE  Truncate(x) = x
<1>1. PICK n \in Int : x = n * Precision
  BY DEF Coins
<1> DEFINE q == x \div Precision
<1>2. q \in Int /\ Precision * q <= x /\ x < Precision * q + Precision
  BY Quotient, PrecisionAssumption
<1>3. n <= q
  <2>1. Precision * n <= x
    BY <1>1, PrecisionAssumption
  <2> QED
    BY <1>1, <2>1, QuotientIsGreatest, PrecisionAssumption
<1>4. q <= n
  <2> HIDE DEF q
  <2>1. Precision * q <= Precision * n
    BY <1>1, <1>2, PrecisionAssumption
  <2> QED
    BY <1>1, <1>2, <2>1, Cancels, PrecisionAssumption
<1>5. q = n
  <2> HIDE DEF q
  <2> QED
    BY <1>1, <1>2, <1>3, <1>4
<1> QED
  BY <1>1, <1>5 DEF Truncate

\* The file satisfies what the modules demand of it.
LEMMA ExportedIsImportable ==
    ASSUME IInv, Whole, Active, stage = "exported"
    PROVE  Importable
<1>1. /\ last # {} /\ last = Bonded(validator) /\ last = Top(powerIndex, validator)
      /\ bondedPool = Sum(BondedOf(validator), Vals)
      /\ Kept /\ NobodyJailed /\ \A v \in Vals : Held(Staking, v)
  BY DEF Active, Agrees, Indexed, Formed, SetStages, AfterPowers
<1>2. validator \in [Vals -> Validator] /\ DOMAIN validator = Vals
  BY DEF IInv, OthersOK
<1>3. bondedPool = BondedTokens
  BY <1>1, <1>2, BondedTokensIsSum
<1>4. ledger.balance = Truncate(ledger.pool + Outstanding)
  <2>1. ledger.balance = ledger.pool + Outstanding /\ Coins(ledger.balance)
    BY LedgerTyped, OutstandingIsSum DEF IInv, Whole, Balanced
  <2>2. ledger.balance \in Int
    BY LedgerTyped, LedgerTypes DEF IInv
  <2> QED
    BY <2>1, <2>2, WholeCoins
<1>5. ASSUME NEW v \in Vals
      PROVE  /\ validator[v].status = "bonded" => ~ validator[v].jailed
             /\ validator[v].shares = 0 => validator[v].status = "unbonding"
  <2>1. validator[v].status = "bonded" => v \in Top(powerIndex, validator)
    BY <1>1 DEF Bonded
  <2>2. v \in Top(powerIndex, validator) => ~ validator[v].jailed /\ validator[v].tokens > 0
    <3>1. v \in Top(powerIndex, validator) => ~ validator[v].jailed /\ v \in powerIndex
      BY <1>1 DEF NobodyJailed, Top, Visited
    <3> QED
      BY <1>1, <3>1 DEF Kept
  <2>3. /\ validator[v].shares = 0 => validator[v].tokens = 0
        /\ validator[v].status = "unbonded" => validator[v].tokens > 0
    BY <1>1, StakingFields DEF Held
  <2>4. validator[v].status \in {"bonded", "unbonding", "unbonded"}
    BY <1>2 DEF Validator, Statuses
  <2>5. validator[v].tokens = 0 => ~ (validator[v].tokens > 0)
    OBVIOUS
  <2> QED
    BY <2>1, <2>2, <2>3, <2>4, <2>5
<1> QED
  BY <1>1, <1>2, <1>3, <1>4, <1>5 DEF Importable

LEMMA ImportGenesisActive ==
    ASSUME IInv, Whole, Active, ImportGenesis
    PROVE  Active'
<1>1. /\ stage = "exported" /\ stage' = "committed" /\ resumed'
      /\ UNCHANGED <<validator, delegation, last, bondedPool>>
      /\ powerIndex' = Unjailed(validator)
  BY ExportedIsImportable, DomainLemma DEF ImportGenesis, Unjailed
<1>2. Agrees'
  BY <1>1, SameAgrees DEF Active
<1>3. Indexed'
  BY <1>1 DEF Indexed, Unjailed, SetStages, AfterPowers
<1>4. last' = Top(powerIndex', validator')
  <2>1. /\ Kept /\ NobodyJailed /\ last = Top(powerIndex, validator)
        /\ powerIndex \subseteq Vals /\ validator \in [Vals -> Validator]
    BY <1>1 DEF Active, Indexed, Formed, SetStages, AfterPowers, IInv, OthersOK
  <2>2. \A v \in powerIndex : validator[v].tokens \in Nat
    BY <2>1, StakingTypes
  <2>3. Top(powerIndex, validator) \subseteq Unjailed(validator)
    BY <2>1 DEF NobodyJailed, Unjailed, Top, Visited
  <2>4. Unjailed(validator) \subseteq powerIndex
    BY <2>1 DEF Kept
  <2>5. Top(Unjailed(validator), validator) = Top(powerIndex, validator)
    BY <2>1, <2>2, <2>3, <2>4, TopOfPart
  <2> QED
    BY <1>1, <2>1, <2>5
<1>5. Formed'
  BY <1>1, <1>4 DEF Formed, ExportStages
<1> QED
  BY <1>1, <1>2, <1>3, <1>5 DEF Active, PanicsOnlyForTheList, ImportAccepted

----------------------------------------------------------------------------
\* The invariant of the active set, at every step.

LEMMA InitActive ==
    ASSUME Init
    PROVE  Active
<1> DEFINE genesis == [v \in Vals |-> GenesisValidator(v)]
<1>1. /\ height = 0 /\ stage = "committed" /\ powerIndex = Vals
      /\ last = GenesisSet /\ bondedPool = TokensOfSet(GenesisSet, validator)
      /\ validator = [v \in Vals |->
            [GenesisValidator(v) EXCEPT
                !.status = IF v \in GenesisSet THEN "bonded" ELSE @]]
  BY DEF Init, InitChain
<1>2. \A v \in Vals :
        /\ validator[v].tokens = GenesisTokens[v] /\ genesis[v].tokens = GenesisTokens[v]
        /\ validator[v].shares = GenesisTokens[v] * Precision
        /\ validator[v].status = IF v \in GenesisSet THEN "bonded" ELSE "unbonded"
        /\ ~ validator[v].jailed
  BY <1>1 DEF GenesisValidator
<1>3. validator \in [Vals -> Validator]
  BY InitInvariant DEF IInv, OthersOK
<1>4. GenesisSet = Top(Vals, genesis) /\ GenesisSet \subseteq Vals
  BY DEF GenesisSet, Top, Visited
<1>5. last = Top(powerIndex, validator)
  <2>1. \A v \in Vals : genesis[v].tokens = validator[v].tokens
    BY <1>2
  <2> HIDE DEF genesis
  <2> QED
    BY <1>1, <1>4, <2>1, TopOfTokens
<1> HIDE DEF genesis
<1>6. last = GenesisSet /\ last = Bonded(validator)
  <2>1. last = GenesisSet
    BY <1>1
  <2>2. \A v \in Vals : v \in GenesisSet <=> validator[v].status = "bonded"
    BY <1>2
  <2>3. GenesisSet = Bonded(validator)
    BY <1>4, <2>2 DEF Bonded
  <2> QED
    BY <2>1, <2>3
<1>7. bondedPool = Sum(BondedOf(validator), Vals)
  <2>1. PartOf(GenesisSet, validator) = BondedOf(validator)
    <3>1. \A v \in Vals : v \in GenesisSet <=> validator[v].status = "bonded"
      BY <1>6 DEF Bonded
    <3> QED
      BY <3>1 DEF PartOf, BondedOf
  <2> QED
    BY <1>1, <1>3, <1>4, <2>1, TokensOfPart
<1>8. ASSUME NEW v \in Vals
      PROVE  Held(Staking, v)
  <2> DEFINE g == GenesisTokens[v]
             s == Staking
             cap == CapsOf(s)[v][v]
  <2>1. g \in Nat \ {0} /\ g * Precision <= cap /\ g * Precision \in Nat \ {0}
    BY GenesisCaps
  <2>2. cap \in Nat
    <3>1. CapsOf(s) \in CapsType /\ v \in Accounts
      BY StakingTypes, InitInvariant, ChainAssumption
    <3> HIDE DEF s
    <3> QED
      BY <3>1 DEF CapsType
  <2>3. s.validator = validator /\ validator[v].tokens = g
        /\ validator[v].shares = g * Precision
    BY <1>2, StakingFields
  <2> HIDE DEF g, cap
  <2>4. cap >= Precision
    <3>1. g * Precision >= Precision
      BY <2>1, PrecisionAssumption
    <3> QED
      BY <2>1, <2>2, <3>1, PrecisionAssumption
  <2> HIDE DEF s
  <2>5. Held(s, v)
    BY <2>1, <2>3, <2>4 DEF Held, cap
  <2> QED
    BY <2>5 DEF s
<1>9. Agrees
  BY <1>6, <1>7, <1>8 DEF Agrees
<1>10. Indexed
  BY <1>1, <1>2 DEF Indexed, Unjailed, SetStages, AfterPowers
<1>11. Formed
  BY <1>1, <1>5 DEF Formed, ExportStages
<1> QED
  BY <1>1, <1>9, <1>10, <1>11 DEF Active, PanicsOnlyForTheList, ImportAccepted

LEMMA ChainStepActive ==
    ASSUME IInv, IInv', Covered, Active, ChainStep
    PROVE  Active'
<1>1. Block(horizon)
  BY DEF ChainStep
<1>2. CASE BeginBlock
  BY <1>2, BeginBlockActive
<1>3. CASE \E v \in todo : AllocateTokensToValidator(v)
  BY <1>3, DomainLemma, AllocateActive
<1>4. CASE NoOffence
  BY <1>4, NoOffenceActive
<1>5. CASE \E v \in last : SlashAndJail(v)
  BY <1>5, SlashActive
<1>6. CASE Transaction
  <2>1. CASE \E d \in Accounts, v \in Vals : Delegate(d, v)
    BY <2>1, DelegateActive
  <2>2. CASE \E d \in Accounts, v \in Vals : Undelegate(d, v)
    BY <2>2, UndelegateActive
  <2>3. CASE \E d \in Accounts, v \in Vals : WithdrawDelegatorReward(d, v)
    BY <2>3, WithdrawRewardActive
  <2>4. CASE \E d \in Accounts, v \in Vals, w \in Vals : BeginRedelegate(d, v, w)
    BY <2>4, RedelegateActive
  <2>5. CASE \E v \in Vals : Unjail(v)
    BY <2>5, UnjailActive
  <2> QED
    BY <1>6, <2>1, <2>2, <2>3, <2>4, <2>5, DomainLemma DEF Transaction
<1>7. CASE EndBlock
  BY <1>7, EndBlockActive
<1> QED
  BY <1>1, <1>2, <1>3, <1>4, <1>5, <1>6, <1>7 DEF Block

LEMMA PrepActive ==
    ASSUME IInv, IInv', Covered, Active, PrepForZeroHeightGenesis
    PROVE  Active'
<1>1. CASE \E v \in todo : WithdrawAllCommission(v)
  BY <1>1, DomainLemma, CommissionActive
<1>2. CASE \E k \in pending : WithdrawAllRewards(k[1], k[2])
  <2>1. \A k \in pending : k[1] \in Accounts /\ k[2] \in Vals
    BY DomainLemma DEF Pairs
  <2> QED
    BY <1>2, <2>1, RewardsActive
<1>3. CASE ClearPeriods
  BY <1>3, ClearPeriodsActive
<1>4. CASE \E v \in todo : ReinitializeValidator(v)
  BY <1>4, ReinitializeValidatorActive
<1>5. CASE \E k \in pending : ReinitializeDelegation(k[1], k[2])
  <2>1. \A k \in pending : k[1] \in Accounts /\ k[2] \in Vals
    BY DomainLemma DEF Pairs
  <2> QED
    BY <1>5, <2>1, ReinitializeDelegationActive
<1>6. CASE ResetEntries
  BY <1>6, ResetEntriesActive
<1>7. CASE ResetValidators
  BY <1>7, ResetValidatorsActive
<1>8. CASE ApplyPowers
  BY <1>8, ApplyPowersActive
<1>9. CASE ResetSigningInfos
  BY <1>9, SigningInfosActive
<1> QED
  BY <1>1, <1>2, <1>3, <1>4, <1>5, <1>6, <1>7, <1>8, <1>9 DEF PrepForZeroHeightGenesis

LEMMA StutterActive ==
    ASSUME Active, UNCHANGED vars
    PROVE  Active'
  BY DEF vars, chainVars, stakingVars, exportVars, Active, Agrees, Indexed, Formed, Kept,
         NobodyJailed, Held, CapsOf, Staking, Stake, StakeOf, Omitted, PanicsOnlyForTheList,
         LookedAt, ImportAccepted

LEMMA NextActive ==
    ASSUME IInv, IInv', Covered, Whole, Active, [Next]_vars
    PROVE  Active'
<1>1. CASE ChainStep
  BY <1>1, ChainStepActive
<1>2. CASE \E zero \in ZeroHeight, list \in JailLists : BeginExport(zero, list)
  BY <1>2, BeginExportActive
<1>3. CASE PrepForZeroHeightGenesis
  BY <1>3, PrepActive
<1>4. CASE WriteGenesis
  BY <1>4, WriteGenesisActive
<1>5. CASE ImportGenesis
  BY <1>5, ImportGenesisActive
<1>6. CASE UNCHANGED vars
  BY <1>6, StutterActive
<1> QED
  BY <1>1, <1>2, <1>3, <1>4, <1>5, <1>6 DEF Next

LEMMA Activeness == Spec => []Active
<1>1. Init => Active
  BY InitActive
<1>2. IInv /\ IInv' /\ Covered /\ Whole /\ Active /\ [Next]_vars => Active'
  BY NextActive
<1> QED
  BY <1>1, <1>2, Invariance, Accounting, PTL DEF Spec

\* In every committed state, of the original chain and of the one started from
\* its genesis, the active set is the top of the power index and the bonded
\* validators, nobody in the index is jailed and the bonded pool holds exactly
\* their tokens, whatever was delegated, slashed, jailed and exported before.
THEOREM TheSetAgrees == Spec => []ActiveSetAgrees
<1>1. IInv /\ Active => ActiveSetAgrees
  <2> SUFFICES ASSUME IInv, Active, stage = "committed"
               PROVE  /\ last = Top(powerIndex, validator)
                      /\ last = Bonded(validator) /\ powerIndex = Unjailed(validator)
                      /\ bondedPool = BondedTokens
    BY DEF ActiveSetAgrees, Bonded, Unjailed
  <2>1. validator \in [Vals -> Validator]
    BY DEF IInv, OthersOK
  <2>2. bondedPool = BondedTokens
    BY <2>1, BondedTokensIsSum DEF Active, Agrees
  <2> QED
    BY <2>2 DEF Active, Agrees, Indexed, Formed, IndexStages, BlockStages
<1> QED
  BY <1>1, Invariance, Activeness, PTL

\* The modules accept every genesis the export writes, at zero height or not
\* (export.go:22-49): its set is not empty and not jailed, the pools hold what
\* the records say, no validator without shares is in it that is not unbonding.
THEOREM TheGenesisIsAccepted == Spec => []ImportAccepted
<1>1. Active => ImportAccepted
  BY DEF Active
<1> QED
  BY <1>1, Activeness, PTL

\* prepForZeroHeightGenesis panics for an address that does not parse or a list
\* that omits an active validator, and for nothing else (export.go:52-255): no
\* commission, no reward, no hook and no signing info can stop it.
THEOREM OnlyTheListPanics == Spec => []PanicsOnlyForTheList
<1>1. Active => PanicsOnlyForTheList
  BY DEF Active
<1> QED
  BY <1>1, Activeness, PTL

----------------------------------------------------------------------------
\* The invariant.  In the original chain a delegation has the height of the
\* block only where a transaction of the block has just restarted it: one that
\* is paid nothing at that height is owed nothing in the next block either.

Restarting ==
    ~ resumed /\ height > 0 /\ stage \in BlockStages =>
        \A k \in DOMAIN ledger.start :
            ledger.start[k].height = height
              => stage \in {"ending", "committed"} /\ NewlyStarted(ledger, k)

Foretold ==
    stage = "commissions" =>
        \A k \in DOMAIN delegation : RewardsAt(k[1], k[2], height) = owed[k]

Due == Restarting /\ Foretold /\ PaidAsIfNextBlock

LEMMA RewardsAtIs ==
    ASSUME NEW d, NEW v, NEW h
    PROVE  RewardsAt(d, v, h) = Payment(ledger.rewards[v], validator[v].tokens,
                                        ledger.start[<<d, v>>], h, StakeOf(Staking, d, v))
  BY DEF RewardsAt, Payment

LEMMA RewardsAtIsAfter ==
    ASSUME NEW d, NEW v, NEW h, UNCHANGED <<validator, delegation>>
    PROVE  RewardsAt(d, v, h)' = Payment(ledger'.rewards[v], validator[v].tokens,
                                         ledger'.start[<<d, v>>], h', StakeOf(Staking, d, v))
<1>1. StakeOf(Staking, d, v)' = StakeOf(Staking, d, v)
  BY DEF StakeOf, Stake, Staking
<1> QED
  BY <1>1 DEF RewardsAt, Payment

LEMMA OutsideBlocks ==
    ASSUME stage' \notin BlockStages \union {"commissions", "rewards"}
    PROVE  Due'
  BY DEF Due, Restarting, Foretold, PaidAsIfNextBlock, BlockStages

\* Within a block.
LEMMA InBlockDue ==
    ASSUME Due, stage \in BlockStages, stage' \in BlockStages, UNCHANGED <<height, resumed>>,
           stage \in {"ending", "committed"} => UNCHANGED ledger /\ stage' \in {"ending", "committed"},
           \A j \in DOMAIN ledger'.start :
              \/ j \in DOMAIN ledger.start /\ ledger'.start[j] = ledger.start[j]
              \/ stage' = "ending" /\ NewlyStarted(ledger', j)
    PROVE  Due'
<1>1. Restarting'
  BY DEF Due, Restarting, NewlyStarted
<1> QED
  BY <1>1 DEF Due, Foretold, PaidAsIfNextBlock, BlockStages

LEMMA BeginBlockDue ==
    ASSUME IInv, HInv, BeginBlock
    PROVE  Due'
<1>1. /\ stage = "committed" /\ stage' \in {"distributing", "slashing"}
      /\ height' = height + 1 /\ UNCHANGED ledger
  BY DEF BeginBlock
<1>2. \A k \in DOMAIN ledger.start : ledger.start[k].height < height + 1
  BY <1>1, BlockLimits, HeightTypes DEF HInv, Heights, Starting, BlockStages
<1> QED
  BY <1>1, <1>2, HeightTypes DEF Due, Restarting, Foretold, PaidAsIfNextBlock

LEMMA BecomesDue ==
    ASSUME Due, Deliver, UNCHANGED exportVars, NEW s, Becomes(s),
           \A j \in DOMAIN s.ledger.start :
              \/ j \in DOMAIN ledger.start /\ s.ledger.start[j] = ledger.start[j]
              \/ NewlyStarted(s.ledger, j)
    PROVE  Due'
<1>1. /\ stage = "delivering" /\ stage' = "ending" /\ UNCHANGED <<height, resumed>>
      /\ ledger' = s.ledger
  BY DEF Deliver, Becomes, exportVars
<1> QED
  BY <1>1, InBlockDue DEF BlockStages

LEMMA DelegateDue ==
    ASSUME IInv, Due, NEW d \in Accounts, NEW v \in Vals, Delegate(d, v), UNCHANGED exportVars
    PROVE  Due'
<1> DEFINE s == Delegated(Staking, d, v, 1, height)
<1>1. Deliver /\ Becomes(s)
  BY DEF Delegate
<1>2. Begins(Staking.ledger, s.ledger, d, v) /\ Staking.ledger = ledger
  BY <1>1, StakingAtDelivery, DelegatedBegins
<1> HIDE DEF s
<1> QED
  BY <1>1, <1>2, BecomesDue DEF Begins

LEMMA UndelegateDue ==
    ASSUME IInv, Due, NEW d \in Accounts, NEW v \in Vals, Undelegate(d, v), UNCHANGED exportVars
    PROVE  Due'
<1>1. PICK n \in Undelegable(d, v) : Becomes(Unbonded(Staking, d, v, n, height))
  BY DEF Undelegate
<1> DEFINE s == Unbonded(Staking, d, v, n, height)
<1>2. Deliver /\ Becomes(s)
  BY <1>1 DEF Undelegate
<1>3. Begins(Staking.ledger, s.ledger, d, v) /\ Staking.ledger = ledger
  BY <1>2, StakingAtDelivery, UnbondedBegins
<1> HIDE DEF s
<1> QED
  BY <1>2, <1>3, BecomesDue DEF Begins

LEMMA RedelegateDue ==
    ASSUME IInv, Due, NEW d \in Accounts, NEW v \in Vals, NEW w \in Vals,
           BeginRedelegate(d, v, w), UNCHANGED exportVars
    PROVE  Due'
<1>1. Deliver /\ v # w
  BY DEF BeginRedelegate
<1>2. PICK n \in Undelegable(d, v) :
         Becomes(Delegated(Unbonded(Staking, d, v, n, height), d, w,
                           TokensRemoved(Staking, v, n), height))
  BY DEF BeginRedelegate
<1> DEFINE u == Unbonded(Staking, d, v, n, height)
           s == Delegated(u, d, w, TokensRemoved(Staking, v, n), height)
<1>3. StakingOK(u)
  BY <1>1, StakingAtDelivery, HeightTypes, UndelegableLemma, UnbondedLemma DEF BeginRedelegate
<1>4. Begins(Staking.ledger, u.ledger, d, v) /\ Staking.ledger = ledger
  BY <1>1, StakingAtDelivery, UnbondedBegins
<1>5. Becomes(s)
  BY <1>2
<1> HIDE DEF u
<1>6. Begins(u.ledger, s.ledger, d, w)
  BY <1>3, DelegatedBegins
<1> HIDE DEF s
<1>7. ASSUME NEW j \in DOMAIN s.ledger.start
      PROVE  \/ j \in DOMAIN ledger.start /\ s.ledger.start[j] = ledger.start[j]
             \/ NewlyStarted(s.ledger, j)
  BY <1>1, <1>4, <1>6, BeginsTwice
<1> QED
  BY <1>1, <1>5, <1>7, BecomesDue

LEMMA WithdrawRewardDue ==
    ASSUME IInv, Due, NEW d \in Accounts, NEW v \in Vals, WithdrawDelegatorReward(d, v),
           UNCHANGED exportVars
    PROVE  Due'
<1> DEFINE w == Withdrawn(Staking, d, v, height)
<1>1. /\ stage = "delivering" /\ stage' = "ending" /\ UNCHANGED <<height, resumed>> /\ Deliver
      /\ ledger' = InitializeDelegation(w, d, v, StakeOf(Staking, d, v), height)
  BY DEF WithdrawDelegatorReward, Deliver, exportVars
<1>2. EndedAt(ledger, w, v)
  <2>1. LedgerOK(ledger) /\ Staking.ledger = ledger
    BY <1>1, StakingAtDelivery, LedgerTyped DEF IInv
  <2> QED
    BY <2>1, WithdrawnEnds DEF Withdrawn
<1> HIDE DEF w
<1>3. Begins(ledger, ledger', d, v)
  BY <1>1, <1>2, InitializedBegins
<1> QED
  BY <1>1, <1>3, InBlockDue DEF Begins, BlockStages

\* Steps that start no delegation.
LEMMA NothingStarts ==
    ASSUME Due, stage \in BlockStages, stage' \in BlockStages, UNCHANGED <<height, resumed>>,
           stage \in {"ending", "committed"} => UNCHANGED ledger /\ stage' \in {"ending", "committed"},
           ledger'.start = ledger.start
    PROVE  Due'
  BY InBlockDue

LEMMA ChainStepDue ==
    ASSUME IInv, HInv, Due, ChainStep
    PROVE  Due'
<1>1. Block(horizon) /\ UNCHANGED exportVars /\ UNCHANGED resumed
  BY DEF ChainStep, exportVars
<1>2. CASE BeginBlock
  BY <1>2, BeginBlockDue
<1>3. CASE \E v \in todo : AllocateTokensToValidator(v)
  <2>1. PICK v \in Vals : AllocateTokensToValidator(v)
    BY <1>3, DomainLemma
  <2>2. /\ stage = "distributing" /\ stage' \in {"distributing", "slashing"} /\ UNCHANGED height
        /\ ledger' = AllocateTokens(ledger, v, Fees, Earning, Commission)
    BY <2>1 DEF AllocateTokensToValidator
  <2>3. ledger'.start = ledger.start
    BY <2>2, LedgerTyped DEF AllocateTokens, IInv, LedgerOK
  <2> QED
    BY <1>1, <2>2, <2>3, NothingStarts DEF BlockStages
<1>4. CASE NoOffence
  <2>1. stage = "slashing" /\ stage' = "delivering" /\ UNCHANGED <<height, ledger>>
    BY <1>4 DEF NoOffence
  <2> QED
    BY <1>1, <2>1, NothingStarts DEF BlockStages
<1>5. CASE \E v \in last : SlashAndJail(v)
  <2>1. PICK v \in Vals : SlashAndJail(v)
    BY <1>5, DomainLemma
  <2>2. stage = "slashing" /\ stage' = "delivering" /\ UNCHANGED height
    BY <2>1 DEF SlashAndJail
  <2>3. ledger'.start = ledger.start
    BY <2>1, ShapeOfIInv, RecordSlashHeights DEF SlashAndJail
  <2> QED
    BY <1>1, <2>2, <2>3, NothingStarts DEF BlockStages
<1>6. CASE Transaction
  <2>1. CASE \E d \in Accounts, v \in Vals : Delegate(d, v)
    BY <1>1, <2>1, DelegateDue
  <2>2. CASE \E d \in Accounts, v \in Vals : Undelegate(d, v)
    BY <1>1, <2>2, UndelegateDue
  <2>3. CASE \E d \in Accounts, v \in Vals : WithdrawDelegatorReward(d, v)
    BY <1>1, <2>3, WithdrawRewardDue
  <2>4. CASE \E d \in Accounts, v \in Vals, w \in Vals : BeginRedelegate(d, v, w)
    BY <1>1, <2>4, RedelegateDue
  <2>5. CASE \E v \in Vals : Unjail(v)
    <3>1. stage = "delivering" /\ stage' = "ending" /\ UNCHANGED <<height, ledger>>
      BY <2>5 DEF Unjail, Deliver
    <3> QED
      BY <1>1, <3>1, NothingStarts DEF BlockStages
  <2> QED
    BY <1>6, <2>1, <2>2, <2>3, <2>4, <2>5, DomainLemma DEF Transaction
<1>7. CASE EndBlock
  <2>1. stage \in {"delivering", "ending"} /\ stage' = "committed" /\ UNCHANGED <<height, ledger>>
    BY <1>7 DEF EndBlock
  <2> QED
    BY <1>1, <2>1, NothingStarts DEF BlockStages
<1> QED
  BY <1>1, <1>2, <1>3, <1>4, <1>5, <1>6, <1>7 DEF Block

----------------------------------------------------------------------------
\* The export.

LEMMA DuePlain ==
    ASSUME IInv, Covered, stage \in PlainStages
    PROVE  /\ StakingSound(Staking, height) /\ height \in Nat
           /\ LedgerSound(ledger, DOMAIN delegation, CapsOf(Staking), height)
           /\ CapsOf(Staking) \in CapsType
           /\ \A v \in Vals : /\ validator[v].tokens \in Nat
                              /\ Sum(CapsOf(Staking)[v], Accounts) <= validator[v].tokens * Precision
           /\ DOMAIN delegation \subseteq Pairs /\ DOMAIN ledger.start = DOMAIN delegation
<1>1. /\ StakingSound(Staking, height) /\ height \in Nat /\ CapsOf(Staking) \in CapsType
      /\ \A v \in Vals : validator[v].tokens \in Nat
  BY PlainSound, StakingTypes
<1>2. \A v \in Vals : Sum(CapsOf(Staking)[v], Accounts) <= validator[v].tokens * Precision
  BY <1>1, CapsBound, StakingFields DEF StakingSound, StakingOK
<1>3. LedgerSound(ledger, DOMAIN delegation, CapsOf(Staking), height)
  BY <1>1, StakingFields DEF StakingSound
<1>4. DOMAIN delegation \subseteq Pairs /\ DOMAIN ledger.start = DOMAIN delegation
  BY StakingTypes, StakingFields DEF IsPartial, IInv, CountsOK, Covers
<1> QED
  BY <1>1, <1>2, <1>3, <1>4

\* Every delegation is among those that something can be owed to.
LEMMA OwedIsAll ==
    ASSUME IInv, Covered, stage \in PlainStages
    PROVE  Owed = DOMAIN delegation
<1>0. DOMAIN delegation \subseteq Pairs /\ DOMAIN validator = Vals
  BY DuePlain, DomainLemma
<1> SUFFICES ASSUME NEW d \in Accounts, NEW v \in Vals, <<d, v>> \in DOMAIN delegation
             PROVE  ledger.start[<<d, v>>].period <= ledger.rewards[v].period
  <2>1. ASSUME NEW k \in DOMAIN delegation
        PROVE  /\ k[2] \in DOMAIN validator
               /\ ledger.start[k].period <= ledger.rewards[k[2]].period
    <3>1. k[1] \in Accounts /\ k[2] \in Vals /\ k = <<k[1], k[2]>>
      BY <1>0 DEF Pairs
    <3> QED
      BY <1>0, <3>1
  <2> QED
    BY <2>1 DEF Owed
<1> DEFINE infos == Infos(ledger, DOMAIN delegation, v)
           r == ledger.rewards[v]
<1>1. Counted(r, Periods(infos))
  BY DuePlain, PaymentInLedger
<1>2. d \in DOMAIN infos /\ infos[d] = ledger.start[<<d, v>>]
  BY InInfos
<1>3. ledger.start[<<d, v>>].period \in Nat
  BY DuePlain, LedgerTyped DEF IInv, LedgerOK, IsPartial, StartingInfo
<1> HIDE DEF infos, r
<1>4. infos[d].period \in DOMAIN r.historical /\ infos[d].period < r.period
  BY <1>1, <1>2, <1>3, KnownPeriods
<1>5. r.period \in Nat
  BY <1>1 DEF Counted
<1> QED
  BY <1>2, <1>3, <1>4, <1>5 DEF r

LEMMA BeginExportDue ==
    ASSUME IInv, HInv, Covered, Due, NEW zero \in ZeroHeight, NEW list \in JailLists,
           BeginExport(zero, list)
    PROVE  Due'
<1>1. /\ stage = "committed" /\ ~ resumed /\ height > 0
      /\ stage' \in {"writing", "panicked", "commissions"}
      /\ owed' = [k \in Owed |-> RewardsAt(k[1], k[2], height + 1)]
      /\ UNCHANGED <<height, stakingVars, ledger>>
  BY DEF BeginExport
<1>2. stage \in PlainStages
  BY <1>1 DEF PlainStages, BlockStages
<1>3. UNCHANGED <<validator, delegation, ledger, height>>
  BY <1>1 DEF stakingVars
<1>4. ASSUME NEW d \in Accounts, NEW v \in Vals, <<d, v>> \in DOMAIN delegation
      PROVE  RewardsAt(d, v, height)' = owed'[<<d, v>>]
  <2> DEFINE caps == CapsOf(Staking)
             info == ledger.start[<<d, v>>]
             tokens == validator[v].tokens
  <2>1. /\ LedgerSound(ledger, DOMAIN delegation, caps, height) /\ caps \in CapsType
        /\ height \in Nat /\ tokens \in Nat /\ Sum(caps[v], Accounts) <= tokens * Precision
        /\ <<d, v>> \in DOMAIN ledger.start
    BY <1>2, <1>4, DuePlain
  <2>2. info.height = height
          => ledger.rewards[v].current = 0 /\ info.period = ledger.rewards[v].period - 1
    BY <1>1, <2>1 DEF Due, Restarting, NewlyStarted, BlockStages
  <2>3. caps[v][d] = StakeOf(Staking, d, v)
    BY <1>4, StakeIsCap, StakingFields
  <2>4. owed'[<<d, v>>] = RewardsAt(d, v, height + 1)
    BY <1>1, <1>2, <1>4, OwedIsAll
  <2>5. /\ RewardsAt(d, v, height)'
             = Payment(ledger.rewards[v], tokens, info, height, caps[v][d])
        /\ RewardsAt(d, v, height + 1)
             = Payment(ledger.rewards[v], tokens, info, height + 1, caps[v][d])
    BY <1>3, <2>3, RewardsAtIs, RewardsAtIsAfter
  <2> HIDE DEF caps, tokens
  <2>6. Payment(ledger.rewards[v], tokens, info, height + 1, caps[v][d])
          = Payment(ledger.rewards[v], tokens, info, height, caps[v][d])
    BY <1>4, <2>1, <2>2, PaymentNextInLedger
  <2> QED
    BY <2>4, <2>5, <2>6
<1>5. \A k \in DOMAIN delegation' : RewardsAt(k[1], k[2], height)' = owed'[k]
  BY <1>2, <1>3, <1>4, DuePlain DEF Pairs
<1>6. Foretold'
  BY <1>5 DEF Foretold
<1> QED
  BY <1>1, <1>6 DEF Due, Restarting, PaidAsIfNextBlock, BlockStages

LEMMA CommissionDue ==
    ASSUME IInv, Covered, Due, NEW u \in Vals, WithdrawAllCommission(u)
    PROVE  Due'
<1>1. /\ stage = "commissions" /\ UNCHANGED <<height, owed>>
      /\ stage' \in {"commissions", "rewards", "panicked"}
      /\ stage' = "rewards" => pending' = DOMAIN delegation
      /\ stage' # "panicked" => ledger' = WithdrawCommission(ledger, u)
      /\ UNCHANGED stakingVars
  BY DEF WithdrawAllCommission, ExportStep, Panics
<1>2. UNCHANGED <<validator, delegation>> /\ stage \in PlainStages
  BY <1>1 DEF stakingVars, PlainStages
<1>3. ASSUME stage' # "panicked", NEW d \in Accounts, NEW v \in Vals,
             <<d, v>> \in DOMAIN delegation
      PROVE  RewardsAt(d, v, height)' = owed'[<<d, v>>]
  <2> DEFINE worth == CapsOf(Staking)
             coins == validator[v].tokens
  <2>1. /\ LedgerSound(ledger, DOMAIN delegation, worth, height) /\ worth \in CapsType
        /\ height \in Nat /\ coins \in Nat /\ Sum(worth[v], Accounts) <= coins * Precision
    BY <1>2, DuePlain
  <2>2. worth[v][d] = StakeOf(Staking, d, v)
    BY <1>3, StakeIsCap, StakingFields
  <2>3. RewardsAt(d, v, height) = owed[<<d, v>>]
    BY <1>1, <1>3 DEF Due, Foretold
  <2>4. /\ RewardsAt(d, v, height)'
             = Payment(ledger'.rewards[v], coins, ledger'.start[<<d, v>>], height, worth[v][d])
        /\ RewardsAt(d, v, height)
             = Payment(ledger.rewards[v], coins, ledger.start[<<d, v>>], height, worth[v][d])
    BY <1>1, <1>2, <2>2, RewardsAtIs, RewardsAtIsAfter
  <2>5. ledger' = WithdrawCommission(ledger, u)
    BY <1>1, <1>3
  <2> HIDE DEF worth, coins
  <2>6. d \in Accounts /\ v \in Vals /\ u \in Vals /\ <<d, v>> \in DOMAIN delegation
    BY <1>3
  <2>7. Payment(ledger'.rewards[v], coins, ledger'.start[<<d, v>>], height, worth[v][d])
          = Payment(ledger.rewards[v], coins, ledger.start[<<d, v>>], height, worth[v][d])
    BY <2>1, <2>5, <2>6, CommissionPayment
  <2> QED
    BY <1>1, <2>3, <2>4, <2>7
<1>4. stage' # "panicked" =>
        \A k \in DOMAIN delegation' : RewardsAt(k[1], k[2], height)' = owed'[k]
  BY <1>2, <1>3, DuePlain DEF Pairs
<1>5. Foretold'
  BY <1>1, <1>4 DEF Foretold
<1>6. PaidAsIfNextBlock'
  BY <1>1, <1>2, <1>4 DEF PaidAsIfNextBlock
<1> QED
  BY <1>1, <1>5, <1>6 DEF Due, Restarting, BlockStages

LEMMA RewardsDue ==
    ASSUME IInv, Covered, Due, NEW c \in Accounts, NEW u \in Vals, WithdrawAllRewards(c, u)
    PROVE  Due'
<1>1. stage = "rewards" /\ <<c, u>> \in pending /\ UNCHANGED <<height, owed>>
  BY DEF WithdrawAllRewards, ExportStep, FirstPair
<1>2. /\ <<c, u>> \in DOMAIN delegation /\ u \in DOMAIN validator /\ stage \in PlainStages
      /\ pending \subseteq DOMAIN delegation
  BY <1>1, DomainLemma DEF IInv, CountsOK, PlainStages
<1>3. /\ ledger' = InitializeDelegation(Withdrawn(Staking, c, u, height), c, u,
                                        StakeOf(Staking, c, u), height)
      /\ pending' = pending \ {<<c, u>>}
      /\ UNCHANGED <<stage, todo, stakingVars>>
  BY <1>1, <1>2, RewardsArePaid DEF WithdrawAllRewards
<1>4. UNCHANGED <<validator, delegation>>
  BY <1>3 DEF stakingVars
<1>5. ASSUME NEW k \in pending, k # <<c, u>>
      PROVE  RewardsAt(k[1], k[2], height)' = owed'[k]
  <2>1. RewardsAt(k[1], k[2], height) = owed[k]
    BY <1>1, <1>5 DEF Due, PaidAsIfNextBlock
  <2>2. k = <<k[1], k[2]>> /\ k \in DOMAIN delegation
    BY <1>2, <1>5, DuePlain DEF Pairs
  <2>3. /\ RewardsAt(k[1], k[2], height)'
             = Payment(ledger'.rewards[k[2]], validator[k[2]].tokens, ledger'.start[k], height,
                       StakeOf(Staking, k[1], k[2]))
        /\ RewardsAt(k[1], k[2], height)
             = Payment(ledger.rewards[k[2]], validator[k[2]].tokens, ledger.start[k], height,
                       StakeOf(Staking, k[1], k[2]))
    BY <1>1, <1>4, <2>2, RewardsAtIs, RewardsAtIsAfter
  <2> DEFINE now == Staking
  <2>4. /\ StakingSound(now, height) /\ height \in Nat
        /\ <<c, u>> \in DOMAIN now.delegation /\ k \in DOMAIN now.delegation
        /\ now.validator = validator /\ now.ledger = ledger
        /\ ledger' = InitializeDelegation(Withdrawn(now, c, u, height), c, u,
                                          StakeOf(now, c, u), height)
    BY <1>2, <1>3, <2>2, DuePlain, StakingFields
  <2> HIDE DEF now
  <2>5. c \in Accounts /\ u \in Vals /\ k # <<c, u>>
    BY <1>5
  <2>6. Payment(ledger'.rewards[k[2]], now.validator[k[2]].tokens, ledger'.start[k], height,
                StakeOf(now, k[1], k[2]))
          = Payment(now.ledger.rewards[k[2]], now.validator[k[2]].tokens, now.ledger.start[k],
                    height, StakeOf(now, k[1], k[2]))
    BY <2>4, <2>5, AgainPayment
  <2> QED
    BY <1>1, <2>1, <2>3, <2>4, <2>6 DEF now
<1>6. \A k \in pending' : RewardsAt(k[1], k[2], height)' = owed'[k]
  BY <1>3, <1>5
<1> QED
  BY <1>1, <1>3, <1>6 DEF Due, Restarting, Foretold, PaidAsIfNextBlock, BlockStages

LEMMA PrepDue ==
    ASSUME IInv, Covered, Due, PrepForZeroHeightGenesis
    PROVE  Due'
<1>1. CASE \E v \in todo : WithdrawAllCommission(v)
  BY <1>1, DomainLemma, CommissionDue
<1>2. CASE \E k \in pending : WithdrawAllRewards(k[1], k[2])
  <2>1. \A k \in pending : k[1] \in Accounts /\ k[2] \in Vals
    BY DomainLemma DEF Pairs
  <2> QED
    BY <1>2, <2>1, RewardsDue
<1>3. CASE ClearPeriods
  BY <1>3, OutsideBlocks DEF ClearPeriods, BlockStages
<1>4. CASE \E v \in todo : ReinitializeValidator(v)
  BY <1>4, OutsideBlocks DEF ReinitializeValidator, ExportStep, BlockStages
<1>5. CASE \E k \in pending : ReinitializeDelegation(k[1], k[2])
  BY <1>5, OutsideBlocks DEF ReinitializeDelegation, ExportStep, Panics, BlockStages
<1>6. CASE ResetEntries
  BY <1>6, OutsideBlocks DEF ResetEntries, BlockStages
<1>7. CASE ResetValidators
  BY <1>7, OutsideBlocks DEF ResetValidators, BlockStages
<1>8. CASE ApplyPowers
  BY <1>8, OutsideBlocks DEF ApplyPowers, BlockStages
<1>9. CASE ResetSigningInfos
  BY <1>9, OutsideBlocks DEF ResetSigningInfos, BlockStages
<1> QED
  BY <1>1, <1>2, <1>3, <1>4, <1>5, <1>6, <1>7, <1>8, <1>9 DEF PrepForZeroHeightGenesis

LEMMA ImportGenesisDue ==
    ASSUME ImportGenesis
    PROVE  Due'
<1>1. CASE Importable
  BY <1>1 DEF ImportGenesis, Due, Restarting, Foretold, PaidAsIfNextBlock
<1>2. CASE ~ Importable
  BY <1>2, OutsideBlocks DEF ImportGenesis, BlockStages
<1> QED
  BY <1>1, <1>2

LEMMA StutterDue ==
    ASSUME Due, UNCHANGED vars
    PROVE  Due'
<1>1. UNCHANGED <<height, stage, resumed, ledger, validator, delegation, pending, owed>>
  BY DEF vars, chainVars, stakingVars, exportVars
<1>2. \A d, v : RewardsAt(d, v, height)' = RewardsAt(d, v, height)
  BY <1>1, RewardsAtIs, RewardsAtIsAfter
<1> QED
  BY <1>1, <1>2 DEF Due, Restarting, Foretold, PaidAsIfNextBlock, NewlyStarted

\* "as if they could withdraw from the start of the next block" (export.go:79-96):
\* whoever the export withdraws before it, a delegation is paid what its own
\* withdrawal in the next block would have paid it.
THEOREM PaysAsIfNextBlock == Spec => []PaidAsIfNextBlock
<1>1. Init => Due
  BY DEF Init, InitChain, Due, Restarting, Foretold, PaidAsIfNextBlock
<1>2. IInv /\ HInv /\ Covered /\ Whole /\ Due /\ [Next]_vars => Due'
  <2> SUFFICES ASSUME IInv, HInv, Covered, Whole, Due, [Next]_vars PROVE Due'
    OBVIOUS
  <2>1. CASE ChainStep
    BY <2>1, ChainStepDue
  <2>2. CASE \E zero \in ZeroHeight, list \in JailLists : BeginExport(zero, list)
    BY <2>2, BeginExportDue
  <2>3. CASE PrepForZeroHeightGenesis
    BY <2>3, PrepDue
  <2>4. CASE WriteGenesis
    BY <2>4, OutsideBlocks DEF WriteGenesis, BlockStages
  <2>5. CASE ImportGenesis
    BY <2>5, ImportGenesisDue
  <2>6. CASE UNCHANGED vars
    BY <2>6, StutterDue
  <2> QED
    BY <2>1, <2>2, <2>3, <2>4, <2>5, <2>6 DEF Next
<1>3. Due => PaidAsIfNextBlock
  BY DEF Due
<1> QED
  BY <1>1, <1>2, <1>3, Invariance, HeightsInvariance, Accounting, PTL DEF Spec
=============================================================================
