--------------------------- MODULE InPlaceTestnet ---------------------------
(***************************************************************************)
(* cmd/pulsard/cmd/testnet.go: `pulsard in-place-testnet` takes the state  *)
(* of a stopped node, replaces its validators by one of the operator's and *)
(* starts the node, whose blocks, transactions and exports are those of    *)
(* ZeroHeightExport on what the command has left of the staking and        *)
(* distribution stores.                                                    *)
(*                                                                         *)
(* initAppForTestnet writes to the uncommitted state: it is one action per *)
(* section of the function, and an error exits the process.  An export is  *)
(* a process of its own, which reads what is committed: of the testnet,    *)
(* nothing before its first block.  (What an export of the old state does  *)
(* is in the behaviours without the command.)  Bound: the voting power and *)
(* the shares it gives the validator are constants, and so is the number   *)
(* of blocks of the testnet.                                               *)
(***************************************************************************)
EXTENDS ZeroHeightExport, Sequences

CONSTANTS
    Operators,      \* operator addresses given: of a genesis validator or new
    FundFlags,      \* values of --accounts-to-fund, as entries between commas
    VotingPower,    \* valVotingPower: the tokens of the new validator
    InitialShares,  \* its DelegatorShares (units of 1/Precision)
    TestnetBlocks   \* bound: blocks of the testnet

ASSUME TestnetAssumption ==
    /\ Operators \subseteq Nat \cap Accounts
    /\ \A f \in FundFlags : f \in Seq(Accounts \union {Malformed})
    /\ VotingPower \in Nat /\ VotingPower >= PowerReduction /\ InitialShares \in Nat \ {0}
    /\ TestnetBlocks \in Nat

VARIABLES
    operator,   \* newOperatorAddress, or NoOperator before the command ran
    fundFlag,   \* the flag the command was given
    toFund,     \* accountsToFund that the loop has not reached yet
    funds       \* bank: how often each account was funded

testnetVars == <<operator, fundFlag, toFund, funds>>
allVars     == <<vars, testnetVars>>

NoOperator == -1

CommandStages == {"replacing", "creating", "recording", "registering", "funding"}

TestnetInit ==
    /\ Init
    /\ operator = NoOperator /\ fundFlag = <<>> /\ toFund = <<>>
    /\ funds = [a \in Accounts |-> 0]

----------------------------------------------------------------------------
\* strings.Split of the flag: an empty flag, its default, is one empty entry,
\* which is no address.
Split(flag) == IF flag = <<>> THEN <<Malformed>> ELSE flag

getCommandArgs(op, flag) ==
    /\ stage = "committed" /\ height > 0 /\ operator = NoOperator /\ ~ resumed
    /\ operator' = op
    /\ fundFlag' = flag
    /\ toFund' = Split(flag)
    /\ stage' = "replacing"
    /\ UNCHANGED <<height, todo, stakingVars, ledger, signing, exportVars, funds>>

CommandStep(from, to) ==
    /\ stage = from /\ stage' = to
    /\ UNCHANGED <<height, todo, exportVars, operator, fundFlag>>

\* Mutant of RemoveAllValidators: the last validators store is forgotten.
RemoveAllValidatorsButLast ==
    /\ CommandStep("replacing", "creating")
    /\ validator' = Empty /\ powerIndex' = {}
    /\ UNCHANGED <<delegation, entries, last, bondedPool, ledger, signing, toFund, funds>>

\* Mutant of RemoveAllValidators: the records of distribution go as well.
RemoveAllValidatorsAndRewards ==
    /\ CommandStep("replacing", "creating")
    /\ validator' = Empty /\ powerIndex' = {} /\ last' = {}
    /\ ledger' = [ledger EXCEPT !.rewards = Empty]
    /\ UNCHANGED <<delegation, entries, bondedPool, signing, toFund, funds>>

\* Power store, last validators store, validators store and unbonding queue.
\* Delegations, entries and every record of distribution stay.
RemoveAllValidators ==
    /\ CommandStep("replacing", "creating")
    /\ validator' = Empty /\ powerIndex' = {} /\ last' = {}
    /\ UNCHANGED <<delegation, entries, bondedPool, ledger, signing, toFund, funds>>

newVal == [tokens |-> VotingPower, shares |-> InitialShares, status |-> "bonded",
           jailed |-> FALSE, unbondingHeight |-> 0]

\* What the distribution stores hold of an operator: nothing of a new one.
NoRecords == [outstanding |-> 0, commission |-> 0, current |-> 0, period |-> 0,
              historical |-> Empty, slashes |-> {}]

RecordsOf(l, op) == IF op \in DOMAIN l.rewards THEN l.rewards[op] ELSE NoRecords

\* Mutant of AddOurValidator: the hook AfterValidatorCreated is not called.
AddOurValidatorUnhooked ==
    /\ CommandStep("creating", "recording")
    /\ validator' = Put(validator, operator, newVal)
    /\ powerIndex' = powerIndex \union {operator}
    /\ last' = last \union {operator}
    /\ UNCHANGED <<delegation, entries, bondedPool, ledger, signing, toFund, funds>>

\* Mutant of AddOurValidator: the operator is given a delegation of the shares.
AddOurValidatorDelegated ==
    /\ CommandStep("creating", "recording")
    /\ validator' = Put(validator, operator, newVal)
    /\ delegation' = Put(delegation, <<operator, operator>>, InitialShares)
    /\ powerIndex' = powerIndex \union {operator}
    /\ last' = last \union {operator}
    /\ ledger' = InitializeValidator(
                    [ledger EXCEPT !.rewards = Put(@, operator, RecordsOf(ledger, operator))],
                    operator)
    /\ UNCHANGED <<entries, bondedPool, signing, toFund, funds>>

\* SetValidator, SetValidatorByPowerIndex, SetLastValidatorPower and the hook
\* AfterValidatorCreated.  No coins back the tokens of the validator.
AddOurValidator ==
    /\ CommandStep("creating", "recording")
    /\ validator' = Put(validator, operator, newVal)
    /\ powerIndex' = powerIndex \union {operator}
    /\ last' = last \union {operator}
    /\ ledger' = InitializeValidator(
                    [ledger EXCEPT !.rewards = Put(@, operator, RecordsOf(ledger, operator))],
                    operator)
    /\ UNCHANGED <<delegation, entries, bondedPool, signing, toFund, funds>>

\* Mutant of InitializeRecords: the period in progress is the recorded one.
InitializeRecordsAtZero ==
    /\ CommandStep("recording", "registering")
    /\ ledger' = [InitializeValidator(ledger, operator) EXCEPT !.rewards[operator].period = 0]
    /\ UNCHANGED <<stakingVars, signing, toFund, funds>>

\* The four records again that the hook has written.
InitializeRecords ==
    /\ CommandStep("recording", "registering")
    /\ ledger' = InitializeValidator(ledger, operator)
    /\ UNCHANGED <<stakingVars, signing, toFund, funds>>

\* The signing info of the operator's new consensus key.
SetSigningInfo ==
    /\ CommandStep("registering", "funding")
    /\ signing' = Put(signing, operator, height - 1)
    /\ UNCHANGED <<stakingVars, ledger, toFund, funds>>

\* An entry that is no address exits the process; what was minted for it and
\* everything before it was never committed.
FundAccount ==
    /\ stage = "funding" /\ toFund # <<>>
    /\ IF Head(toFund) = Malformed
       THEN stage' = "exited" /\ UNCHANGED <<toFund, funds>>
       ELSE /\ funds' = [funds EXCEPT ![Head(toFund)] = @ + 1]
            /\ toFund' = Tail(toFund)
            /\ UNCHANGED stage
    /\ UNCHANGED <<height, todo, stakingVars, ledger, signing, exportVars, operator, fundFlag>>

StartNode ==
    /\ stage = "funding" /\ toFund = <<>>
    /\ stage' = "committed"
    /\ horizon' = height + TestnetBlocks
    /\ UNCHANGED <<height, todo, stakingVars, ledger, signing, forZeroHeight, allowed,
                   pending, owed, resumed, testnetVars>>

\* The first block commits, with its own writes, all that the command has left
\* in memory.
Persisted == operator = NoOperator \/ height > horizon - TestnetBlocks

initAppForTestnet ==
    \/ RemoveAllValidators
    \/ AddOurValidator
    \/ InitializeRecords
    \/ SetSigningInfo
    \/ FundAccount

TestnetNext ==
    \/ /\ \/ ChainStep
          \/ Persisted /\ \E zero \in ZeroHeight, list \in JailLists : BeginExport(zero, list)
          \/ PrepForZeroHeightGenesis
          \/ WriteGenesis
       /\ UNCHANGED testnetVars
    \/ \E op \in Operators, flag \in FundFlags : getCommandArgs(op, flag)
    \/ initAppForTestnet
    \/ StartNode

TestnetSpec == TestnetInit /\ [][TestnetNext]_allVars

----------------------------------------------------------------------------
\* Types.

TestnetTypeOK ==
    /\ stage \in BlockStages \union CommandStages \union ExportStages \union EndStages
                 \union {"exited"}
    /\ operator \in Operators \union {NoOperator}
    /\ toFund \in Seq(Accounts \union {Malformed}) /\ Len(toFund) <= Len(Split(fundFlag))
    /\ funds \in [Accounts -> Nat]
    /\ validator \in [DOMAIN validator -> Validator]
    /\ IsPartial(delegation, Accounts \X (Vals \union Operators), Nat)
    /\ DOMAIN delegation = DOMAIN ledger.start
    /\ \A v \in DOMAIN ledger.rewards : RewardsOK(ledger.rewards[v])
    /\ DOMAIN validator \subseteq DOMAIN ledger.rewards
    /\ bondedPool \in Nat

----------------------------------------------------------------------------
\* Safety.

Converted == operator # NoOperator /\ stage \in BlockStages

Fresh == operator \notin Vals

\* "removing the old validator set and introducing a new set": the testnet has
\* one validator, the operator's, in every store of the set at every block, and
\* no hook, entry or later block brings an old one back.
OneValidator ==
    Converted /\ stage = "committed" =>
        /\ DOMAIN validator = {operator}
        /\ powerIndex = {operator} /\ last = {operator}
        /\ validator[operator].status = "bonded"

\* "Initialize records for this validator": a new operator's periods are
\* counted as exactly as those of a validator created by a transaction.
NewRecordsCounted ==
    Converted /\ Fresh =>
        LET r == ledger.rewards[operator] IN
        \A p \in 0 .. r.period : Record(r, p).refs =
            One(\E d \in Accounts : /\ <<d, operator>> \in DOMAIN ledger.start
                                    /\ ledger.start[<<d, operator>>].period = p)
            + One(\E e \in r.slashes : e.period = p)
            + One(p = r.period - 1)

\* Whoever delegates to the new validator can withdraw at any time.
NewDelegatorsCanWithdraw ==
    Converted /\ Fresh =>
        \A d \in Accounts :
            <<d, operator>> \in DOMAIN delegation =>
                MayWithdraw(ledger, d, operator, validator[operator].tokens, height,
                            StakeOf(Staking, d, operator))

\* The tokens of the new validator are backed by no coins, and still, until it
\* is slashed, the bonded pool can pay back everyone who delegates to it.
NewDelegatorsRedeemable ==
    Converted /\ Fresh /\ ledger.rewards[operator].slashes = {} =>
        LET Redeemable(d) == IF <<d, operator>> \in DOMAIN delegation
                             THEN TokensRemoved(Staking, operator, delegation[<<d, operator>>])
                             ELSE 0
        IN  MapThenSumSet(Redeemable, Accounts) <= bondedPool

\* The command forgets rewards and never invents any: the module account still
\* covers all that is recorded, exactly so when the operator is new.
RewardsBacked ==
    /\ ledger.balance >= ledger.pool + Outstanding
    /\ Fresh => ledger.balance = ledger.pool + Outstanding

\* With a new operator a zero-height export panics for the list of addresses, or
\* at a delegation to a validator that the command removed, and for nothing that
\* the new validator's own delegations and rewards went through.
PanicsOnlyForTheStranded ==
    stage = "panicked" /\ Fresh =>
        \/ Malformed \in allowed
        \/ allowed # {} /\ ~ LookedAt \subseteq allowed
        \/ \E k \in pending : FirstPair(k) /\ k[2] \in Vals \ DOMAIN validator

\* testnet.go:48, "Updates chain's application and consensus state with
\* provided validator info and starts the node": with addresses that parse, or
\* none, the command starts the node.
StartsNode == stage = "exited" => \E i \in DOMAIN fundFlag : fundFlag[i] = Malformed

\* testnet.go:159, "Initialize records for this validator across all
\* distribution stores": they are those of a validator that was just created.
RecordsInitialized ==
    stage = "registering" =>
        LET r == ledger.rewards[operator] IN
        /\ DOMAIN r.historical = {0} /\ r.slashes = {}
        /\ \A d \in Accounts : <<d, operator>> \notin DOMAIN ledger.start

\* export.go:160, "never called as BeforeDelegationCreated always returns nil".
BeforeDelegationCreatedReturnsNil ==
    stage = "delegations" => \A k \in pending : MayBeforeDelegationCreated(k[2])
=============================================================================
