-------------------------- MODULE ZeroHeightExport --------------------------
(***************************************************************************)
(* app/export.go over the chain of PulsarChain: `pulsard export`, with or  *)
(* without --for-zero-height, from any committed state, and the chain that *)
(* InitChain starts from the exported genesis.                             *)
(*                                                                         *)
(* The export runs in a process of its own on the check state and never    *)
(* commits, so the original chain ends in the behaviours in which it       *)
(* exports.  prepForZeroHeightGenesis is one action per element for its    *)
(* loops over the reward ledger, where a step can panic or depend on the   *)
(* one before, and one action for each of the other loops, those that      *)
(* write the store they iterate among them: that they end is not claimed.  *)
(* Loops follow the order of the store: addresses ascending, delegations   *)
(* by delegator.                                                           *)
(***************************************************************************)
EXTENDS PulsarChain

CONSTANTS
    JailLists,     \* the values of --jail-allowed-addrs
    ZeroHeight,    \* the values of --for-zero-height
    ResumedBlocks  \* bound: blocks of the chain started from the genesis

Malformed == -1    \* an entry of a list that is no validator address

ASSUME ExportAssumption ==
    /\ JailLists \subseteq SUBSET (Accounts \union {Malformed})
    /\ ZeroHeight \subseteq BOOLEAN
    /\ ResumedBlocks \in Nat

VARIABLES
    forZeroHeight,  \* the flag of the export that runs or ran
    allowed,        \* its list of validators that are not to be jailed
    pending,        \* delegations a loop of the export has not reached yet
    owed,           \* history: rewards of each delegation when it began
    resumed,        \* TRUE in the chain started from the genesis
    horizon         \* bound: the last height of the chain that runs

exportVars == <<forZeroHeight, allowed, pending, owed, resumed, horizon>>
vars       == <<chainVars, exportVars>>

ExportStages == {"commissions", "rewards", "validators", "delegations",
                 "resetting", "powers", "infos", "writing"}
EndStages    == {"exported", "panicked", "refused"}

Init ==
    /\ InitChain
    /\ forZeroHeight = FALSE /\ allowed = {} /\ pending = {} /\ owed = Empty
    /\ resumed = FALSE /\ horizon = MaxHeight

ChainStep ==
    /\ Block(horizon)
    /\ UNCHANGED exportVars

----------------------------------------------------------------------------
\* ExportAppStateAndValidators.

\* What delegation <<d, v>> would be paid at height h with the ledger as it is.
RewardsAt(d, v, h) ==
    LET r == EndPeriod(ledger.rewards[v], validator[v].tokens) IN
    Payable(r, DelegationRewards(r, ledger.start[<<d, v>>], h,
                                 ledger.rewards[v].period, StakeOf(Staking, d, v)))

\* The delegations that anything can be owed to.
Owed == {k \in DOMAIN delegation :
            /\ k[2] \in DOMAIN validator
            /\ ledger.start[k].period <= ledger.rewards[k[2]].period}

\* A malformed address is found before anything is touched.
BeginExport(zero, list) ==
    /\ stage = "committed" /\ ~ resumed /\ height > 0
    /\ forZeroHeight' = zero
    /\ allowed' = list
    /\ stage' = IF ~ zero THEN "writing"
                ELSE IF Malformed \in list THEN "panicked"
                ELSE "commissions"
    /\ todo' = DOMAIN validator
    /\ owed' = [k \in Owed |-> RewardsAt(k[1], k[2], height + 1)]
    /\ UNCHANGED <<height, stakingVars, ledger, signing, pending, resumed, horizon>>

\* The loops below end in a panic or go on; what they share.
ExportStep(from) ==
    /\ stage = from
    /\ UNCHANGED <<height, signing, forZeroHeight, allowed, owed, resumed, horizon>>

FirstVal(v) == v \in todo /\ \A u \in todo : v <= u

FirstPair(k) ==
    /\ k \in pending
    /\ \A j \in pending : k[1] < j[1] \/ (k[1] = j[1] /\ k[2] <= j[2])

Panics == stage' = "panicked" /\ UNCHANGED <<todo, pending, stakingVars, ledger>>

\* Mutant of WithdrawAllCommission: slash events go before the withdrawals.
WithdrawAllCommissionUnslashed(v) ==
    /\ ExportStep("commissions") /\ FirstVal(v)
    /\ ledger' = DeleteSlashEvents(WithdrawCommission(ledger, v))
    /\ todo' = todo \ {v}
    /\ IF todo' = {}
       THEN stage' = "rewards" /\ pending' = DOMAIN delegation
       ELSE UNCHANGED <<stage, pending>>
    /\ UNCHANGED stakingVars

WithdrawAllCommission(v) ==
    /\ ExportStep("commissions") /\ FirstVal(v)
    /\ IF MayWithdrawCommission(ledger, v)
       THEN /\ ledger' = WithdrawCommission(ledger, v)
            /\ todo' = todo \ {v}
            /\ IF todo' = {}
               THEN stage' = "rewards" /\ pending' = DOMAIN delegation
               ELSE UNCHANGED <<stage, pending>>
            /\ UNCHANGED stakingVars
       ELSE Panics

\* WithdrawDelegationRewards withdraws and initializes the delegation again;
\* where the validator is not found its error is ignored.
WithdrawAllRewards(d, v) ==
    /\ ExportStep("rewards") /\ FirstPair(<<d, v>>)
    /\ IF v \notin DOMAIN validator
       THEN pending' = pending \ {<<d, v>>} /\ UNCHANGED <<stage, todo, stakingVars, ledger>>
       ELSE IF MayWithdraw(ledger, d, v, validator[v].tokens, height, StakeOf(Staking, d, v))
       THEN /\ ledger' = InitializeDelegation(Withdrawn(Staking, d, v, height), d, v,
                                              StakeOf(Staking, d, v), height)
            /\ pending' = pending \ {<<d, v>>}
            /\ UNCHANGED <<stage, todo, stakingVars>>
       ELSE Panics

ClearPeriods ==
    /\ ExportStep("rewards") /\ pending = {}
    /\ ledger' = DeleteHistoricalRewards(DeleteSlashEvents(ledger))
    /\ stage' = "validators"
    /\ todo' = DOMAIN validator
    /\ UNCHANGED <<pending, stakingVars>>

\* Mutant of DonateOutstanding: only the rewards of the period in progress.
DonateCurrent(l, v) == [l EXCEPT !.pool = @ + l.rewards[v].current]

\* GetValidatorOutstandingRewardsCoins goes to the community pool.
DonateOutstanding(l, v) == [l EXCEPT !.pool = @ + l.rewards[v].outstanding]

\* Mutant of ReinitializeValidator: what is outstanding is not donated first.
ReinitializeValidatorUndonated(v) ==
    /\ ExportStep("validators") /\ FirstVal(v)
    /\ ledger' = InitializeValidator(ledger, v)
    /\ todo' = todo \ {v}
    /\ IF todo' = {}
       THEN stage' = "delegations" /\ pending' = DOMAIN delegation
       ELSE UNCHANGED <<stage, pending>>
    /\ UNCHANGED stakingVars

\* Mutant of ReinitializeValidator: the hook AfterValidatorCreated is not called.
ReinitializeValidatorUnhooked(v) ==
    /\ ExportStep("validators") /\ FirstVal(v)
    /\ ledger' = DonateOutstanding(ledger, v)
    /\ todo' = todo \ {v}
    /\ IF todo' = {}
       THEN stage' = "delegations" /\ pending' = DOMAIN delegation
       ELSE UNCHANGED <<stage, pending>>
    /\ UNCHANGED stakingVars

\* Mutant of ReinitializeValidator: the donated coins leave the module account.
ReinitializeValidatorPaidOut(v) ==
    /\ ExportStep("validators") /\ FirstVal(v)
    /\ ledger' = InitializeValidator(
                    [DonateOutstanding(ledger, v) EXCEPT
                        !.balance = @ - ledger.rewards[v].outstanding], v)
    /\ todo' = todo \ {v}
    /\ IF todo' = {}
       THEN stage' = "delegations" /\ pending' = DOMAIN delegation
       ELSE UNCHANGED <<stage, pending>>
    /\ UNCHANGED stakingVars

ReinitializeValidator(v) ==
    /\ ExportStep("validators") /\ FirstVal(v)
    /\ ledger' = InitializeValidator(DonateOutstanding(ledger, v), v)
    /\ todo' = todo \ {v}
    /\ IF todo' = {}
       THEN stage' = "delegations" /\ pending' = DOMAIN delegation
       ELSE UNCHANGED <<stage, pending>>
    /\ UNCHANGED stakingVars

\* Mutant of ReinitializeDelegation: without the hook BeforeDelegationCreated.
ReinitializeDelegationInPlace(d, v) ==
    /\ ExportStep("delegations") /\ FirstPair(<<d, v>>)
    /\ ledger' = InitializeDelegation(ledger, d, v, StakeOf(Staking, d, v), 0)
    /\ pending' = pending \ {<<d, v>>}
    /\ UNCHANGED <<stage, todo, stakingVars>>

\* Mutant of ReinitializeDelegation: the height is restored before the loop.
ReinitializeDelegationAtHeight(d, v) ==
    /\ ExportStep("delegations") /\ FirstPair(<<d, v>>)
    /\ ledger' = InitializeDelegation(
                    IncrementPeriod(ledger, v, validator[v].tokens),
                    d, v, StakeOf(Staking, d, v), height)
    /\ pending' = pending \ {<<d, v>>}
    /\ UNCHANGED <<stage, todo, stakingVars>>

\* What BeforeDelegationCreated needs to return nil.
MayBeforeDelegationCreated(v) == v \in DOMAIN validator /\ MayIncrementPeriod(ledger, v)

\* Hooks BeforeDelegationCreated and AfterDelegationModified, at height zero.
ReinitializeDelegation(d, v) ==
    /\ ExportStep("delegations") /\ FirstPair(<<d, v>>)
    /\ IF MayBeforeDelegationCreated(v)
       THEN /\ ledger' = InitializeDelegation(
                            IncrementPeriod(ledger, v, validator[v].tokens),
                            d, v, StakeOf(Staking, d, v), 0)
            /\ pending' = pending \ {<<d, v>>}
            /\ UNCHANGED <<stage, todo, stakingVars>>
       ELSE Panics

ResetEntries ==
    /\ ExportStep("delegations") /\ pending = {}
    /\ entries' = {[e EXCEPT !.height = 0] : e \in entries}
    /\ stage' = "resetting"
    /\ UNCHANGED <<todo, pending, validator, delegation, powerIndex, last, bondedPool, ledger>>

\* Mutant of Omitted: an empty list is taken for a list that allows nobody.
OmittedAlways(v) == v \notin allowed

\* The list applies when it names anyone; a validator it omits is jailed in
\* its record and stays in the power index.
Omitted(v) == allowed # {} /\ v \notin allowed

\* Mutant of ResetValidators: the record is jailed or not as the list says.
ResetValidatorsJailed ==
    /\ ExportStep("resetting")
    /\ validator' = [v \in Vals |->
            [validator[v] EXCEPT !.unbondingHeight = 0, !.jailed = Omitted(v)]]
    /\ stage' = "powers"
    /\ UNCHANGED <<todo, pending, delegation, powerIndex, last, entries, bondedPool, ledger>>

ResetValidators ==
    /\ ExportStep("resetting")
    /\ validator' = [v \in DOMAIN validator |->
            [validator[v] EXCEPT !.unbondingHeight = 0, !.jailed = @ \/ Omitted(v)]]
    /\ stage' = "powers"
    /\ UNCHANGED <<todo, pending, delegation, powerIndex, last, entries, bondedPool, ledger>>

\* Mutant of ApplyPowers: the set is formed whoever is jailed.
ApplyPowersUnchecked ==
    /\ stage = "powers"
    /\ stage' = "infos" /\ ApplyAndReturnValidatorSetUpdates(validator, height)
    /\ UNCHANGED <<height, todo, delegation, powerIndex, entries, ledger, exportVars>>

ApplyPowers ==
    /\ stage = "powers"
    /\ IF MayApply(powerIndex, validator)
       THEN stage' = "infos" /\ ApplyAndReturnValidatorSetUpdates(validator, height)
       ELSE stage' = "panicked" /\ UNCHANGED <<validator, last, bondedPool, signing>>
    /\ UNCHANGED <<height, todo, delegation, powerIndex, entries, ledger, exportVars>>

ResetSigningInfos ==
    /\ stage = "infos"
    /\ signing' = [v \in DOMAIN signing |-> IF signing[v] = NoInfo THEN NoInfo ELSE 0]
    /\ stage' = "writing"
    /\ UNCHANGED <<height, todo, stakingVars, ledger, exportVars>>

\* ExportGenesisForModules and WriteValidators: the file is the state as it is.
WriteGenesis ==
    /\ stage = "writing"
    /\ stage' = "exported"
    /\ todo' = {} /\ owed' = Empty
    /\ UNCHANGED <<height, stakingVars, ledger, signing,
                   forZeroHeight, allowed, pending, resumed, horizon>>

----------------------------------------------------------------------------
\* InitChain of the exported genesis.

Outstanding == MapThenSumSet(LAMBDA v : ledger.rewards[v].outstanding, DOMAIN ledger.rewards)

BondedTokens ==
    TokensOfSet({v \in DOMAIN validator : validator[v].status = "bonded"}, validator)

\* What the InitGenesis and ValidateGenesis of the modules demand of the file.
Importable ==
    /\ last # {}
    /\ bondedPool = BondedTokens
    /\ ledger.balance = Truncate(ledger.pool + Outstanding)
    /\ \A v \in DOMAIN validator :
          /\ validator[v].status = "bonded" => ~ validator[v].jailed
          /\ validator[v].shares = 0 => validator[v].status = "unbonding"

\* The power index is rebuilt from the validators that are not jailed.
ImportGenesis ==
    /\ stage = "exported"
    /\ IF Importable
       THEN /\ stage' = "committed"
            /\ resumed' = TRUE
            /\ height' = IF forZeroHeight THEN 0 ELSE height
            /\ horizon' = height' + ResumedBlocks
            /\ powerIndex' = {v \in DOMAIN validator : ~ validator[v].jailed}
       ELSE /\ stage' = "refused"
            /\ UNCHANGED <<resumed, height, horizon, powerIndex>>
    /\ UNCHANGED <<todo, validator, delegation, last, entries, bondedPool, ledger, signing,
                   forZeroHeight, allowed, pending, owed>>

PrepForZeroHeightGenesis ==
    \/ \E v \in todo : WithdrawAllCommission(v)
    \/ \E k \in pending : WithdrawAllRewards(k[1], k[2])
    \/ ClearPeriods
    \/ \E v \in todo : ReinitializeValidator(v)
    \/ \E k \in pending : ReinitializeDelegation(k[1], k[2])
    \/ ResetEntries
    \/ ResetValidators
    \/ ApplyPowers
    \/ ResetSigningInfos

Next ==
    \/ ChainStep
    \/ \E zero \in ZeroHeight, list \in JailLists : BeginExport(zero, list)
    \/ PrepForZeroHeightGenesis
    \/ WriteGenesis
    \/ ImportGenesis

Spec == Init /\ [][Next]_vars

----------------------------------------------------------------------------
\* Types.

Validator == [tokens : Nat, shares : Nat, status : Statuses, jailed : BOOLEAN,
              unbondingHeight : Nat]

Entry == [kind : {"unbonding", "redelegation"}, who : Accounts, from : Vals,
          to : Vals, height : Nat]

LedgerOK(l) ==
    /\ l \in [rewards : {l.rewards}, start : {l.start}, pool : Int, balance : Int]
    /\ l.rewards = [v \in Vals |-> l.rewards[v]]
    /\ \A v \in Vals : RewardsOK(l.rewards[v])
    /\ IsPartial(l.start, Pairs, StartingInfo)

\* Every variable has its type: no height, period, reference count or token
\* count is ever negative.  (What bondedPool is, ActiveSetAgrees says.)
TypeOK ==
    /\ height \in Nat /\ horizon \in Nat
    /\ stage \in BlockStages \union ExportStages \union EndStages
    /\ todo \subseteq Vals /\ powerIndex \subseteq Vals /\ last \subseteq Vals
    /\ pending \subseteq Pairs
    /\ validator \in [Vals -> Validator]
    /\ IsPartial(delegation, Pairs, Nat)
    /\ entries \subseteq Entry
    /\ LedgerOK(ledger)
    /\ signing \in [Vals -> Nat \union {NoInfo}]
    /\ forZeroHeight \in BOOLEAN /\ resumed \in BOOLEAN
    /\ allowed \subseteq Accounts \union {Malformed}

----------------------------------------------------------------------------
\* Safety.

\* The starting infos that count: during the export those that a loop has not
\* written again yet are left over from the periods it deleted.
Live(k) ==
    /\ k \in DOMAIN ledger.start
    /\ stage # "validators"
    /\ stage = "delegations" => k \notin pending

\* What refers to period p of validator v.
References(v, p) ==
    One(\E d \in Accounts : Live(<<d, v>>) /\ ledger.start[<<d, v>>].period = p)
        + One(\E e \in ledger.rewards[v].slashes : e.period = p)
        + One(p = ledger.rewards[v].period - 1)

\* Every historical record has exactly as many references as its count says,
\* no other period is referred to, and no two delegations of a validator start
\* after the same period: no withdrawal reads a record that was dropped, none
\* is kept for ever, through slashes, the export and the resumed chain.
RefCounts ==
    \A v \in Vals :
        LET r == ledger.rewards[v] IN
        IF stage = "validators" /\ v \in todo
        THEN r.historical = Empty /\ r.slashes = {}
        ELSE /\ \A p \in 0 .. r.period : Record(r, p).refs = References(v, p)
             /\ \A p \in DOMAIN r.historical : p < r.period /\ r.historical[p].refs > 0
             /\ \A c, d \in Accounts :
                   Live(<<c, v>>) /\ Live(<<d, v>>) /\ c # d
                   => ledger.start[<<c, v>>].period # ledger.start[<<d, v>>].period

\* Every delegation can withdraw: at no point of a block, of the export or of
\* the resumed chain would the rewards calculation panic on it.
CanWithdraw ==
    stage \in BlockStages \union {"commissions", "rewards"} =>
        \A k \in DOMAIN delegation :
            MayWithdraw(ledger, k[1], k[2], validator[k[2]].tokens, height,
                        StakeOf(Staking, k[1], k[2]))

\* The module account holds exactly the community pool and what is outstanding,
\* at every step of a block and of the export, and no account is overdrawn.
Solvent ==
    /\ ledger.balance = ledger.pool + Outstanding
    /\ ledger.pool >= 0
    /\ \A v \in Vals :
          LET r == ledger.rewards[v] IN
          r.commission >= 0 /\ r.current >= 0 /\ r.outstanding >= r.commission + r.current

\* "as if they could withdraw from the start of the next block": whatever the
\* export has withdrawn before, a delegation it has still to reach is paid what
\* its own withdrawal in the next block would have paid.
PaidAsIfNextBlock ==
    stage = "rewards" =>
        \A k \in pending : RewardsAt(k[1], k[2], height) = owed[k]

\* No committed state of a chain records a height that the chain has not
\* reached: a chain restarted at height zero keeps nothing of the old heights.
NothingFromTheFuture ==
    stage = "committed" =>
        /\ \A k \in DOMAIN ledger.start : ledger.start[k].height <= height
        /\ \A v \in Vals : /\ \A e \in ledger.rewards[v].slashes : e.height <= height
                           /\ validator[v].unbondingHeight <= height
                           /\ signing[v] <= height
        /\ \A e \in entries : e.height <= height

\* The active set agrees with itself in every committed state: it is the top
\* of the power index, its members are the bonded validators, nobody in the
\* index is jailed, and the bonded pool holds their tokens.
ActiveSetAgrees ==
    stage = "committed" =>
        /\ last = Top(powerIndex, validator)
        /\ last = {v \in Vals : validator[v].status = "bonded"}
        /\ powerIndex = {v \in Vals : ~ validator[v].jailed}
        /\ bondedPool = BondedTokens

\* What a fresh start at zero height leaves in the ledger: no rewards of the
\* old chain are outstanding, all that was not paid is in the community pool.
FreshLedger ==
    forZeroHeight /\ stage \in {"resetting", "powers", "infos", "writing", "exported"} =>
        /\ \A v \in Vals : ledger.rewards[v].outstanding = 0
        /\ ledger.pool = ledger.balance

\* The modules accept the genesis the export writes, at zero height or not.
ImportAccepted == stage # "refused"

\* The validators the set update comes to: the active ones and, where these
\* leave room in the set, the first of the index that has no power.
LookedAt ==
    last \union
    {v \in powerIndex :
        /\ Cardinality(last) < MaxValidators /\ Power(v, validator) = 0
        /\ \A u \in powerIndex : Power(u, validator) = 0 => v <= u}

\* The export panics for two reasons only: an address that does not parse, or
\* a list that omits a validator the set update comes to (LookedAt), which need
\* not be an active one.
PanicsOnlyForTheList ==
    stage = "panicked" =>
        \/ Malformed \in allowed
        \/ allowed # {} /\ ~ LookedAt \subseteq allowed

\* export.go:52, "prepForZeroHeightGenesis prepares for fresh start at zero
\* height": with a list of well-formed addresses the preparation succeeds.
PreparesFreshStart == stage = "panicked" => Malformed \in allowed

\* The chain, the export and the resumed chain move the ledger only as
\* RewardLedger allows: every step balances, an account only grows by what
\* comes in for it, and the community pool never shrinks.
Promise == INSTANCE RewardLedger WITH
    balance <- ledger.balance, pool <- ledger.pool,
    outstanding <- [v \in Vals |-> ledger.rewards[v].outstanding]

KeepsTheLedger == Promise!Spec
=============================================================================
