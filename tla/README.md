# Formal model of pulsar-chain

TLA+ modules, TLC configurations and TLAPS proofs for the Cosmos SDK
application in this repository. Line numbers are those of `src/`.

## 1. Inventory

Most of the repository composes SDK modules. What it adds, and what can go wrong
in it:

| Component | State | Operations | Model |
|---|---|---|---|
| Zero-height export, `app/export.go` | the check state of a stopped node: staking, distribution, slashing stores | `ExportAppStateAndValidators`, `prepForZeroHeightGenesis` | `ZeroHeightExport` |
| Chain under export, `app/app_config.go` | the same stores, moved by blocks in the configured module order | begin blockers (distr, then slashing), transactions, end blocker (staking) | `PulsarChain`, `Distribution` |
| Genesis import, `app/app.go` 214-219, `app/sim_test.go` 280-364 | the genesis file | InitChain: what the modules demand of an exported genesis; the validators it must give, the order of the modules and the section of `x/pulsar` | `ZeroHeightExport` (`ImportGenesis`), `PulsarApp` (`InitChain`) |
| In-place testnet, `cmd/pulsard/cmd/testnet.go` | the uncommitted state of a stopped node | `getCommandArgs`, `initAppForTestnet`, the testnet it starts | `InPlaceTestnet` |
| Multi-node testnet, `cmd/pulsard/cmd/testnet_multi_node.go` | the output directory on disk | `initTestnetFiles`, `initGenFiles`, `collectGenFiles`, `copyFile` | `MultiNodeTestnet` |
| Application life cycle, `app/app.go` 128-226 | the process, the multistore in memory and on disk, the optimistic execution | `New`, `Load`, InitChain, the calls of the consensus engine, crash and restart | `PulsarApp` |
| `x/pulsar` | whether `Params`, an empty message, is stored | `UpdateParams`, `Params`, `InitGenesis`, `ExportGenesis`, the authority | `AppState`, `PulsarApp` |
| Export command, `cmd/pulsard/cmd/commands.go` 128-163 | none | `appExport` at a height, for some modules | `PulsarApp` |
| Module configuration, `app/app_config.go`, and IBC wiring, `app/ibc.go` | none; lists of modules, stores and orders | `RegisterIBC`, `registerIBCModules`, what `Load` checks | `AppConfig` |
| Generated codec, `x/pulsar/types/*.pb.go` | the positions of a decoder in its bytes | `Size`, `MarshalToSizedBuffer`, `Unmarshal`, skipping of unknown fields | `WireCodec` |
| Genesis accounts, command line, docs server, gRPC stubs | none of their own | constructors, stateless checks | not modelled |

How they interact. A node commits blocks; `export` and `in-place-testnet` are
processes of their own that open the data of a stopped node at its last
committed state. The export rewrites the reward ledger through the keepers and
hooks of `x/distribution`, the validators through `x/staking`, and writes a file
that InitChain of a new chain reads. The in-place testnet writes to the stores
directly, by key prefix, past the keepers, and the chain goes on from there; an
export of *that* chain runs the same `export.go`. `multi-node` shares only files
with anything, its own earlier invocations included. The consensus engine calls
the application, which runs blocks ahead of their decision in a goroutine; every
message, query and genesis section of `x/pulsar` goes through its codec.

What is hard here:

* `prepForZeroHeightGenesis` is a long sequence of loops over records that refer
  to one another (reference-counted reward periods, starting infos, slash
  events, outstanding rewards, module balance). Half-way through, none of the
  invariants of `x/distribution` holds; at the end all must, in *every* state
  blocks can reach, or the new chain panics long afterwards.
* Errors are dropped (`_, _ =`), the context height changes in the middle,
  records and indexes are written separately.
* `in-place-testnet` leaves delegations to validators that no longer exist.
* `multi-node` may stop between any two writes and may be repeated.
* Optimistic execution (`app.go` 190) runs beside the calls of the engine and may
  be of a block that is never decided; `in-place-testnet` writes to the multistore
  in memory without a cache; a process may stop anywhere and is given the decided
  block again.
* The IBC modules are wired by hand in four places, and the orders of the modules
  carry dependencies that only comments state.
* `Unmarshal` computes indexes from lengths in the input, on machine integers.

`PROJECT.json` lists each hazard at its line with the properties aimed at it.

What makes each component correct:

* export: the ledger is exact (`RefCounts`) and solvent (`Solvent`); everyone is
  paid what the next block would have paid (`PaidAsIfNextBlock`); no old height
  survives (`NothingFromTheFuture`); nothing of the old chain is outstanding
  (`FreshLedger`); the file is accepted (`ImportAccepted`); nobody is stuck on
  either chain (`CanWithdraw`); and it panics only for its input
  (`PanicsOnlyForTheList`): an address that does not parse, or a list that omits a
  validator the set update meets, be it active or one of the index without power.
* in-place testnet: one validator in all stores (`OneValidator`), whose periods
  are counted (`NewRecordsCounted`), whose delegators can withdraw and, until it is
  slashed, be paid back (`NewDelegatorsCanWithdraw`, `NewDelegatorsRedeemable`); no
  rewards are invented (`RewardsBacked`), and an export panics for its list or for a
  delegation the command stranded (`PanicsOnlyForTheStranded`).
* multi-node: success means one complete network (`Complete`); what a failure leaves
  another run repairs or removes, but for three things it is refused for, a validator
  key without its state among them (`RefusedForAReason`); no genesis is inconsistent
  (`GenesisConsistent`, `SameAppState`); no two nodes are set to listen on one port,
  the profiler's excepted (`ListensApart`).
* application: what is committed are the decided blocks, each once, on the state
  before it (`CommitsDecided`), and a node that stays up commits them all
  (`CatchesUp`); it starts with this configuration and any genesis file
  that gives it validators (`StartsWithValidators`), and queries and exports
  show the height they were asked for (`ShowsItsHeight`).
* codec: no index outside of a slice (`NeverPanics`), every call returns
  (`Returns`), what is written is read back (`RoundTrip`), and what is accepted is
  what the wire format says (`AgreesWithGrammar`).

## 2. Modules

```
Distribution ── PulsarChain ── ZeroHeightExport ── InPlaceTestnet
                                 (implements RewardLedger)

DistributionProofs ── LedgerProofs ── ZeroHeightExportProofs ── AccountingProofs
                                                              └─ InPlaceTestnetProofs

AppConfig ── AppState ── PulsarApp ── PulsarAppProofs
                           (implements CommittedChain)

WireCodec ── WireGrammar
WireCodecProofs

MultiNodeTestnet ── MultiNodeTestnetProofs
```

Two compositions: the export and the in-place testnet run on every state of the
chain, and the testnet's chain is exported again; the application composes its
configuration, the state of its modules, the engine, the goroutine of optimistic
execution and the commands that open its data.

**`Distribution`** (external: SDK `x/distribution`). The reward ledger as a
record and its operations as operators from ledger to ledger. Decimals are
integers in units of `1/Precision`, with the truncations of the SDK.
What the SDK panics on is a predicate (`MayWithdraw`, `MayIncrementPeriod`).

**`PulsarChain`**. One block: `BeginBlock` and one `AllocateTokensToValidator`
per active validator (distr), `NoOffence` or `SlashAndJail` (slashing), at most
one transaction, `EndBlock` (staking): the order of `app_config.go` 113-139.
Handlers of the SDK modules are external; they are here because the export's
correctness is a claim about every state they reach. A transaction in which a
hook would panic does nothing (it fails); that it never happens is `CanWithdraw`.
The set is formed by consensus power, tokens divided by `PowerReduction` and cut
(`Power`): a validator with less than one unit is in the power index and has no
power. `Visited` are the validators that `ApplyAndReturnValidatorSetUpdates` reads
from the index before it stops, the first one without power included: it looks at
whether that one is jailed before it looks at its power.

**`ZeroHeightExport`** (`app/export.go`). State beside the chain's:
`forZeroHeight`, `allowed` (the two arguments), `todo` and `pending` (what an
iterator has left), `owed` (history variable), `resumed`, `horizon` (bound).

| Action | export.go |
|---|---|
| `BeginExport` | 20-30, 56-72: arguments; a malformed address panics first |
| `WithdrawAllCommission(v)` | 76-87 |
| `WithdrawAllRewards(d, v)` | 89-107 |
| `ClearPeriods` | 109-117 |
| `ReinitializeValidator(v)` | 119-146 |
| `ReinitializeDelegation(d, v)` | 148-168 |
| `ResetEntries` | 170-203 |
| `ResetValidators` | 205-235 |
| `ApplyPowers` | 237-240 |
| `ResetSigningInfos` | 242-254 |
| `WriteGenesis` | 32-49 |
| `ImportGenesis` | InitChain of the file, `app.go` 214-219 |

Loops that touch the ledger take one step per element in store order, because a
step can panic and later ones depend on it. The other loops write each record
independently of the rest and are one step.

**`RewardLedger`**. What the ledger promises to whoever drives it: three numbers
(`balance`, `pool`, `outstanding` per validator) and two kinds of step, coins
that come in and coins that are settled; every step balances and the community
pool never shrinks. `ZeroHeightExport` implements it (`KeepsTheLedger`, by
`INSTANCE RewardLedger WITH ...`).

**`InPlaceTestnet`** (`testnet.go`). One action per section of
`initAppForTestnet`: `RemoveAllValidators` 115-147, `AddOurValidator` 149-154,
`InitializeRecords` 156-163, `SetSigningInfo` 165-175, `FundAccount` 177-192,
then `StartNode`. The testnet's blocks and exports are those of the modules
above on what the command leaves. The command writes to the multistore in memory
alone, and what it wrote is on disk with the testnet's first block (`Persisted`): an
export, a process of its own, reads the testnet from that block on. The operator may
be new or one that has a validator on the chain.

**`MultiNodeTestnet`** (`testnet_multi_node.go`). One action per file written.
A file is abstracted to the invocation that wrote it, a gentx to its node ID,
signer and stake. `InitializeNodeValidatorFiles` (209) is three files, which a later
invocation loads where they exist: `LoadOrGenNodeKey`; then, for the validator's key
and its state, `LoadFilePV` of both, `ExitInLoadFilePV` where the key has no state, or
`GenFilePV` and `SaveLastSignState` where there is no key. `FailRemoving`,
`FailKeeping`, `FailWritingNodeKey`, `FailCopying` and `FailExporting` are the ways to
stop: the errors that remove the directory, all other errors and a killed process, a
node key that is cut short, a truncated copy, and a configuration that was written
without its genesis. A configuration file is abstracted to its ports, the profiler's
included, which is that of the command's own configuration in every directory.

**`AppConfig`**. The lists of `app_config.go` and `ibc.go` as sets and sequences;
`Load` and `GenesisInOrder` are what `New` and InitChain demand of them, and
`GivesValidators` what InitChain demands of a genesis file: validators of `staking`, or
transactions of `genutil` with the accounts they are of. Which module has a genesis or
a blocker is external.

**`AppState`**. The state of the application as a record: the messages delivered,
whether the parameters are stored, what a testnet rewrote. `UpdateParams`,
`GenesisState` (InitChainer of a file it accepts) and `Rewritten` (in-place testnet)
are operators from state to state.

**`PulsarApp`**. One process of a node and its disk.

| Action | Code |
|---|---|
| `New`, `Start`, `StartTestnet` | `app.go` 128-226, `commands.go` 111-125, `testnet.go` 60-77 |
| `initAppForTestnet` | `testnet.go` 79-195, a step per store, in memory only |
| `InitChain` | `app.go` 210-219, which fails for a file without validators |
| `OptimisticExecution`, `ExecuteOptimistically` | `app.go` 188-190; the goroutine delivers one transaction per step |
| `ProcessProposal`, `Decide`, `FinalizeBlock`, `TakeResult`, `DropResult`, `ExecuteBlock`, `Commit` | BaseApp and the engine (external), from how `app.go` uses them |
| `Crash` | the end of the process at any step |
| `Params`, `appExport` | `query_params.go` 15-26, `commands.go` 127-163 |

A block is the sequence of its signers, so that two executions that differ leave
different states.

**`CommittedChain`**. What the application promises the engine: a log of decided
blocks and the chain of states they make. `PulsarApp` implements it
(`CommitsDecided`).

**`WireCodec`** (`*.pb.go`). `Unmarshal` of all seven messages, one byte per step:
the loops, the index arithmetic modulo the word size, and the order of the checks
are those of the code; an access outside of the slice is `"panic"`. What is
unmarshalled is either any byte string or what `MarshalToSizedBuffer` wrote
backwards into a buffer of `Size` bytes.

**`WireGrammar`**. The wire format as a grammar over positions, independent of the
loops, to compare their verdict with.

Operators named "Mutant of ..." are faulty versions of the definition that
follows them. No specification uses them; each is there to show that the
property `PROJECT.json` pairs it with can be violated by such a mistake.

## 3. Runs

| Run | Instance | Shows |
|---|---|---|
| `export_original` | 2 validators (1 active), 3 accounts, 2 blocks, every list, both flags, 1 resumed block; 394k states | `TypeOK`, `RefCounts`, `Solvent`, `FreshLedger`, `ImportAccepted`, `NothingFromTheFuture` |
| `export_resumed` | 2 validators, 2 accounts, 2 blocks, 2 resumed blocks, no list and one that some exports panic for, `PowerReduction` 2; 658k | `CanWithdraw`, `ActiveSetAgrees`, `KeepsTheLedger` (refinement) |
| `export_two_active` | 3 validators, 2 active, 2 blocks, every list, `PowerReduction` 2; 624k | `PaidAsIfNextBlock`, `PanicsOnlyForTheList` |
| `export_jail_list` | lists of valid addresses | **violated** `PreparesFreshStart` |
| `testnet` | 2 validators, new or known operator, 2 blocks, 3 testnet blocks, exports; 2.5M | the seven properties of `InPlaceTestnet` |
| `testnet_defaults` | no `--accounts-to-fund` | **violated** `StartsNode` |
| `testnet_reused` | operator known to the chain | **violated** `RecordsInitialized` |
| `testnet_zero_height` | zero-height export of the testnet, after its first block | **violated** `BeforeDelegationCreatedReturnsNil` |
| `multi_node` | 3 directories, 3 invocations of 1 to 3 validators, 3 stake lists, default ports and a list too short; 2.8M | `Complete`, `SameAppState`, `GenesisConsistent`, `RefusedForAReason`, `ListensApart` |
| `multi_node_stakes` | list whose first amount is no number | **violated** `StakesAsGiven` |
| `app` | 3 blocks of 2 kinds, 2 crashes, genesis files with and without `x/pulsar` and with and without validators; 116k | `CommitsDecided` (refinement), `CatchesUp` (liveness), `StartsWithValidators`, `ShowsItsHeight` |
| `wire_codec` | more than 8000 byte strings for each of 7 messages, 5 authorities; 1.5M | `NeverPanics`, `RoundTrip`, `AgreesWithGrammar`, `Returns` (liveness) |

Five runs end in a violation on purpose: the property quotes a comment or a help
text, and the counterexample is what the code does instead.

1. `--jail-allowed-addrs` that omits an active validator (`export.go` 223-237):
   the record is jailed, the power index keeps it, forming the set panics.
2. `in-place-testnet` without `--accounts-to-fund` exits (`testnet.go` 224, 189).
3. `in-place-testnet` for a known operator leaves records of old periods (160).
4. "never called" at `export.go` 160 is reached in an export of such a testnet, once
   its first block has written it to disk.
5. An amount that does not parse moves the later ones to other validators
   (`testnet_multi_node.go` 109).

### Bounds, and why they are enough

* `Vals`, `Accounts`, `MaxValidators`: two validators for one place give every
  interplay of an active, a jailed, an unbonding and an unbonded validator; three
  for two places let one withdrawal precede another of a *different* active
  validator. The third account is a delegator who operates nothing.
* `MaxHeight` 2: allocation starts at block 2, so rewards, a slash before or
  after them, a transaction in between and an export at either height occur. One
  slash and one transaction per block (bounds of the model).
* `MaxTokens`: 3, 4 or 11 tokens per validator. Transactions move one token or a
  whole delegation.
* `PowerReduction`: 1, where any tokens are power, or 2, where an undelegation
  or a redelegation leaves a validator in the index without power, so that a list can
  omit it. In the code a million tokens are one unit of power.
* `Precision` 100, `Earning` 350, `Commission` 70, a slash of one half: amounts
  do not divide, so every truncation of the code leaves a remainder.
* Entries never mature and inactive validators keep a token: removal of a
  validator by the end blocker is outside the model.
* `ResumedBlocks` 1 or 2: the resumed chain allocates at its second block.
* `VotingPower` 6, `InitialShares` 300 (three shares): as in the code, a share is
  worth more than a token. `TestnetBlocks` 3 is what a delegation, a slash and a
  withdrawal after it take.
* `Invocations` 3: a network, a failed change of it, a repair. Three stake lists:
  one without a number, a good one, and one that no account can pay.
* `MaxHeight` 3 and `MaxCrashes` 2 of the application: the first block (on the
  state of InitChain, without optimistic execution), a block after a replay, and a
  block after a testnet, each of which a crash may interrupt. Two kinds of blocks:
  a proposal may be the decided block or another; one changes the parameters after
  a message that does not, one is refused.
* `GroupSize` 32, `MaxGroups` 3, `WordSize` 2048, `Int32Size` 16: bytes of five
  bits, words of eleven, field numbers of four. The tags of fields 1 and 2 are
  those of the code (10 and 18), a varint of three bytes can exceed a word, a
  length can be negative, the sum of an index and a length can wrap around, and a
  field number can alias another. Inputs are all strings of up to three bytes of
  an alphabet of eleven and all concatenations of three of 24 chunks (fields,
  embedded messages, groups, cut and overflowing varints).

`CHECK_DEADLOCK FALSE` everywhere: a chain stops at its last height or when no
validator is left for the active set (CometBFT refuses that), an export and a
command end.

### Fairness

Only what the code schedules without waiting for anyone is assumed to go on.

* `app`: weak fairness of `NodeStep`: while the process runs, the goroutine of
  optimistic execution and the call that the engine is in go on, and the engine
  goes on with the blocks it has decided. Nothing is assumed of proposals,
  decisions, restarts or crashes; `CatchesUp` claims nothing of a process that
  ends.
* `wire_codec`: weak fairness of `Step`: `Unmarshal` is a sequential function.

## 4. Proofs

TLAPS proves, for every value of the constants that the named assumptions allow:

| Theorem | Statement |
|---|---|
| `TypesHold` | `Spec => []TypeOK` of `ZeroHeightExport` |
| `CountsAreExact` | `Spec => []RefCounts`: the reference counts of reward periods are exact in the chain, at each step of the export and in the resumed chain |
| `NothingIsFromTheFuture` | `Spec => []NothingFromTheFuture` |
| `StaysSolvent` | `Spec => []Solvent`: the module account is exactly what is outstanding and the community pool |
| `EveryoneCanWithdraw` | `Spec => []CanWithdraw`: no withdrawal panics, whatever the slashes and roundings before it |
| `StartsFresh` | `Spec => []FreshLedger` |
| `ImplementsRewardLedger` | `Spec => KeepsTheLedger`: chain, export and resumed chain implement `RewardLedger` |
| `TheSetAgrees` | `Spec => []ActiveSetAgrees` |
| `TheGenesisIsAccepted` | `Spec => []ImportAccepted` |
| `OnlyTheListPanics` | `Spec => []PanicsOnlyForTheList`, for every `PowerReduction` |
| `PaysAsIfNextBlock` | `Spec => []PaidAsIfNextBlock`: the export pays each delegation what the next block would have |
| `TestnetHasOneValidator` | `TestnetSpec => []OneValidator` of `InPlaceTestnet` |
| `TestnetTypesHold` | `TestnetSpec => []TestnetTypeOK` |
| `RewardsStayBacked` | `TestnetSpec => []RewardsBacked` |
| `NewRecordsStayCounted` | `TestnetSpec => []NewRecordsCounted` |
| `NewDelegatorsWithdraw` | `TestnetSpec => []NewDelegatorsCanWithdraw` |
| `NewDelegatorsAreRedeemed` | `TestnetSpec => []NewDelegatorsRedeemable` |
| `OnlyTheStrandedPanic` | `TestnetSpec => []PanicsOnlyForTheStranded` |
| `GenesesAreConsistent` | `Spec => []GenesisConsistent` of `MultiNodeTestnet` |
| `NetworksAreComplete` | `Spec => []Complete` |
| `StatesAreTheSame` | `Spec => []SameAppState` |
| `RefusalsHaveAReason` | `Spec => []RefusedForAReason`: a stake nobody can pay, the gentx of a node outside of the network, or a validator key without its state |
| `NodesListenApart` | `Spec => []ListensApart` for at most 1317 nodes: no port but the profiler's is given twice |
| `NetworkTypesHold` | `Spec => []TypeOK`: the loops stay within their iterations, and what the directories hold is of the nodes and invocations there are |
| `TypeCorrect` | `Spec => []TypeOK` of `PulsarApp` |
| `ImplementsCommittedChain` | `Spec => CommitsDecided`: every behaviour of the application, with optimistic execution, crashes and testnets, is one of `CommittedChain` |
| `StartsUnlessNoValidators` | `Spec => []StartsWithValidators`: `New` never fails for the lists of this program, and InitChain for nothing but a file without validators |
| `RepliesShowTheirHeight` | `Spec => []ShowsItsHeight` |
| `WireSafety`, `WireTypesHold` | `Spec => [](TypeOK /\ NeverPanics)` of `WireCodec`: for words of any width and any input that fits in a slice |
| `MessagesComeBack` | `Spec => []RoundTrip`: what is marshalled is unmarshalled to the same message, for words of any width and any authority |

**`ZeroHeightExportProofs`** (`TypesHold`, `CountsAreExact`). Neither is inductive.
`TypeOK` needs that a reference that is dropped exists (or a count could be
negative), which is `RefCounts`; `RefCounts` needs that no two delegations of a
validator start after the same period (or a record could exceed its limit) and
that delegations and starting infos have the same keys. The invariant is

    IInv == OthersOK /\ CountsOK

`OthersOK` are the types of everything but the ledger, with `DOMAIN ledger.start
= DOMAIN delegation` and the position of the export's loops; `CountsOK` says per
validator that its records *cover* the live starting infos and its slash events,
with the relaxation the export needs between `ClearPeriods` and the last
`ReinitializeDelegation`: starting infos not yet rewritten do not count and
records not yet rewritten are empty. The predicate `Covers` and what each
operator of the ledger does to it are lemmas of `DistributionProofs` (increment,
decrement, end of a period, slash) and `LedgerProofs` (the composed calls:
delegate, unbond, redelegate, withdraw); then there is one lemma per action.

`NothingIsFromTheFuture`, in the same module: the invariant (`HInv`, beside `IInv`)
says, stage by stage, which records an export for zero height has written again:
starting infos one delegation at a time, slash events from `ClearPeriods` on, then
entries, validators and signing infos; all others have at most the height of the old
chain. One step in between, `ApplyAndReturnValidatorSetUpdates`, still runs at the old
height and would write it to a validator that leaves the active set. `ActiveIsTop` is
why none does: the set of the exported state is the top of the power index by tokens,
which nothing before that step changes.

**`AccountingProofs`** (the amounts). Three more invariants, each beside those before it.

    Covered == SharesOK /\ LedgerSound (or Paid and Renewed) /\ Drained
    Whole   == Balanced /\ Coins
    Active  == Agrees /\ Indexed /\ Formed /\ ...
    Due     == Restarting /\ Foretold /\ PaidAsIfNextBlock

`Covered` is why no withdrawal panics. `calculateDelegationRewards` panics when the
recorded stake of a delegation, cut by the slash events since, exceeds the present
one by more than a margin, and the bank when rewards exceed what is outstanding.
So the invariant bounds both for all delegations of a validator at once
(`LedgerSound`): ratios only grow along the periods; each recorded stake, cut by the
events after it, is within what its shares are worth now; and the rewards of all
delegations, at the ratio the present period will end with, fit with the commission
into what is outstanding (`Margin`). The last is a sum over accounts; that a
truncation never makes it grow is proved in `DistributionProofs` by induction over
the finite set of accounts (the library's induction over sets, applied to a
set of witnesses, since its theorems with an operator parameter are out of reach).
A slash cuts the stakes by one fraction but the tokens by a truncated one;
`SharesOK` (the delegations of a validator have at most its shares) makes the first
the larger cut. Between the loops of the export that write a validator's rewards
again, `Paid` says what a validator not yet reached still has, `Renewed` what one that
was reached starts with, `Drained` that what was donated stays so.

`Whole` is the balance: the account is the pool and the sum of what is outstanding,
and it is whole coins. `Solvent` is `Covered` with `Whole`. For `KeepsTheLedger`,
`Moves` says what a step may do to the amounts: nothing, one collection, or one or
two settlements (a redelegation settles two validators); each maps to a step of
`RewardLedger` or stutters.

`Active` is about the set. `Agrees`: the last set is the bonded validators and the
bonded pool their tokens. `Indexed` says, stage by stage, how the power index relates
to who is jailed. `Formed`: the last set is the top of the index. The top is
defined by rank (fewer than `MaxValidators` ahead); `TopOfPart` shows that leaving
out validators which are not at the top does not change it, which is why InitChain,
rebuilding the index without the jailed, accepts the file. It contains
`PanicsOnlyForTheList`: the export's calls cannot panic by `Covered`, so only the
list is left, and of the validators it omits those that the set update visits. They
are the active ones and at most one more, the first of the index without power, which
is reached only if the set has room (`VisitedWithoutPower`).

`Due` is about `PaidAsIfNextBlock`. `Foretold`: while the export withdraws
commissions, what each delegation would be paid is still what `owed` has recorded,
although periods end in between. The two differ by a block height, so a delegation
started in the current block could differ; `Restarting` says that then it was
restarted by the transaction of this block and is owed nothing either way.

**`InPlaceTestnetProofs`**. `OneValidator` speaks of committed blocks; a slash and an
undelegation can leave nobody in the power index in the middle of one. The invariant
of `TestnetHasOneValidator` (`OInv`) says that from the end of the command on the
operator's validator is the only one of `validator` and `last`, and bonded, that the
power index holds nobody else, and that it holds the operator between blocks: a block
that ends with an empty index is never committed.

`TestnetTypesHold` and `RewardsStayBacked` need all the stores: `TInv == Given /\ OInv /\ Stores /\ Equipped`.
`Stores` has three cases. Before the command it is `Ordinary`, all invariants of the
chain above, whose preservation is used and not proved again. During the command
(`TakenOver`) the ledger and the delegations are still those of a sound chain, under
validators that disappear. From the operator's validator on (`Owned`) only what does
not speak of the removed validators remains: its records are typed and within what is
outstanding to it (`Lone`, `Sane`, with `Even` for steps that leave the others alone),
and `Surplus`, what the account has beyond pool and outstanding rewards, is not
negative and is zero while the operator is new. `Equipped`: until the
testnet starts, the new validator has tokens, is not jailed and is in the index. That no step makes a count negative here rests on the
guards the model takes from the code (a withdrawal that would panic fails), not on
exact counts, which a known operator does not have.

A new operator has them. The last four theorems are about its records, and the
lemmas of `LedgerProofs` are about validators of `Vals`, to which it does not belong;
so what the calls of the ledger do is stated again of one validator's record on its own
(`Serves`), and the invariant beside `TInv` is

    NInv   == (the operator is known to the command /\ it is new) => Fitted
    Fitted == Known /\ (stage by stage: FirstRecords, Serving, Repayable, Rejoined)
                    /\ PanicsOnlyForTheStranded

`Known`: nobody has delegated to another new validator. `FirstRecords`: before
`initializeValidator` runs again, the records are those of the hook that ran before, so
that running it again is the same as running it once. `Serving`: the records are counted,
and sound as in `Covered` above, with one difference. The command gives the validator
shares that no delegation has; `Issued` says that the shares are those of the delegations
and `InitialShares` more, so that everybody else's rewards still fit in what is
outstanding. `Repayable`: until the first slash a share is worth at least
what the command gave for it (`shares * VotingPower <= InitialShares * tokens`), and the
pool has all tokens but the `VotingPower` that the command invented; from the two it
follows that it can pay back what all the other shares are worth. `Rejoined` says which
references the export has written again, one delegation at a time.

**`MultiNodeTestnetProofs`**. Every genesis is written with the gentxs of directory
0, although the check at hand is of another directory. The invariant of
`GenesesAreConsistent`, `Geneses /\ GenesisConsistent`, is about all of them: a
genesis is empty, is given gentxs that have been checked against it, or is a copy of
the first, which was. For the other four: `Complete` says nothing before the command
succeeds, so the invariant says what each loop has done so far:

    NInv == Loops /\ Shapes /\ Gentxs /\ Prepared /\ Copied /\ Collecting

`Prepared` begins with the keys: the loop has left every directory behind it with a
node key that loads and both files of the validator, the one it is at with those that
its stage has come past. `KeysPreserve` is the step of the invariant for all that
writes one of the three files: keys that exist stay.

`Gentxs`: a directory has at most one gentx of a node ID, and one that this
invocation signed is the one it made. This is what old files cannot break: node
keys are kept, so an old gentx of a node of this network has the ID under which the
new one is written over it. `Prepared`, `Copied` and `Collecting` say what the
directories before the loop's position hold. `Copied` is about two nested loops
that the model counts as one; `NestedLoop` is the arithmetic of that. From 1318
nodes on the port of the API would be zero: hence the bound of `NodesListenApart`. The
profiler's port is a value of its own and meets no other within that bound.
`NetworkTypesHold` rests on `NInv` with `ControlOK /\ FilesOK`. That a stake is a
number comes from `Numbers`, written as the loop of the command: its recursive
function is shown to exist and to be unique by induction on natural numbers.

**`PulsarAppProofs`**. `CommitsDecided` needs that what is about to be committed is
the decided block executed on a state of the chain. The invariant (`IInv`) says so
of every state the process can be in: `Stopped` and `Rewriting` (without a node,
memory is the last version, partly rewritten at most), `Working` (the multistore
in memory is the last version or the rewritten one until the block is finalized),
`Executing` (a running optimistic execution of the next height has executed a
prefix of its block on that state, and all of it when it has ended without being
cancelled), `Committing`. With it each step maps to `Decide`, `Apply` or a
stutter: only `Commit` is `Apply`.

`StartsUnlessNoValidators` follows from two facts about the lists, each a lemma:
everything that has a blocker, a genesis or a keeper's store is in the list that
must name it (`ConfigurationLoads`), and no genesis has its turn before
those it needs (`EveryGenesisHasItsTurn`).

`ShowsItsHeight` compares a reply with all blocks decided up to its height, one after
another. The library's `FlattenSeq` is a recursive function; `FlattenUnfolds` and
`FlattensAgree` show, by induction on natural numbers (`NatSteps`, from the
least-number principle), that it is unique and depends only on the blocks before its
argument, so that a later decision does not change what an earlier height shows. The
invariant is `Shown` (every version on disk shows its height) with `Replied` (a
reply is about a version on disk).

**`WireCodecProofs`**. `NeverPanics` needs that positions are ordered
(`start <= index <= limit <= Len(input)`, `Positions`), that a function that skips
begins at `preIndex` with an index that is not negative (`SkipPosition`), and, for
marshalling, that the room left in the buffer is exactly the size of the fields
still to be written (`Marshalling`). The lemmas about machine integers show that a
sum of two lengths either is itself or is negative, so that the two checks of the
code suffice; this rests on inputs shorter than half a word (`SliceAssumption`),
which every slice is.

`RoundTrip` says nothing before the call ends, so its invariant follows the message:

    RInv == IInv /\ Buffer /\ OnTheWay

`Buffer`: the buffer is as long as all fields are, and field `f` has its bytes at
`After(f - 1)`, the fields that are not written yet excepted. `OnTheWay`: `Unmarshal`
is between two fields where the next one that is present begins (`AtField`), in one
of the four stages of a field (`AtTag`, `AtKind`, `AtLength`, `AtBytes`), at the end
of an embedded message, or has answered with the authority that was sent. In the
middle of a length it holds `value = n % Weight[j]` after `j` bytes: `Digits` is the
division that takes one more, and `SovIsLeast` says that `sov` is the first number of
bytes that is enough, which is where `encodeVarint` clears the continuation bit.
`Weight` (`1 << shift`) is a recursive function, shown to exist, to be unique and to
grow by induction on natural numbers. From `Buffer`, `FieldInBuffer` gives what each
stage finds at its position.

Assumptions, all evaluated by TLC on the runs: `PrecisionAssumption`,
`ChainAssumption`, `ExportAssumption`, `TestnetAssumption`, `MultiNodeAssumption`,
`AppAssumption`, `WireAssumption`, `WordAssumption` (the longest varint holds a word,
a tag fits in a word and a field number in an int32), `SliceAssumption`. They type the
constants and say
what the code's parameters guarantee (a slash fraction is at most one, commission is
a part of what is earned, there are finitely many addresses: they are byte strings of
bounded length).

Only model-checked:

* `CatchesUp`, `Returns`: liveness;
* `AgreesWithGrammar`: `Unmarshal` of any bytes against a recursive grammar, an
  induction over the input.

What the attempts to prove showed of the models. A slash of a validator whose last
period has no record would panic in its hook, so `SlashAndJail` has that guard (it
matters for a known operator only). Paying
back all delegators of the new operator from the bonded pool holds until its first
slash only, since a slash burns coins for the tokens that the command invented
(`NewDelegatorsRedeemable` says so). And an export of a testnet can panic at the
withdrawal of a stranded delegation, not only at its hook.

## 5. Abstractions

* Addresses are numbers in the order of the store; a consensus key is its
  validator. One denomination. Votes: every active validator votes.
* Slashes have the height of the block in which they are found; unbonding
  entries carry a height and no amount.
* A file that is written again needs no half-written state. Two are not: the copy of
  a gentx, since a later invocation for fewer nodes does not repeat it, and
  `node_key.json`, which is loaded where it exists. The validator's two files are
  renamed into place, so each is whole or absent. A record of the keyring that is cut
  short makes a later start fail and remove the directory (`FailRemoving`).
* Of the validator's two files only their existence matters: a gentx names the
  validator's key, and the model the node ID, which is made beside it and kept as long.
* `os.RemoveAll` succeeds.
* Of the errors that the export drops (`_, _ =`, `export.go` 82, 106) the one that
  occurs is that there is no commission to withdraw.
* The begin blockers of a block are stages in the configured order; the model has no
  other order to compare it with.
* Signing infos are keyed by validator: the one that an in-place testnet adds
  for a known operator replaces the old key's.
* A signer is an address or not; which of them is the authority is what
  `depinject.go` makes of the configuration. `Params` has no field, so its value is
  whether it is stored.
* A message that fails changes nothing, and a block of failing messages is
  committed like any other; the record of deliveries keeps the failed ones, so that
  no execution can be lost unnoticed.
* The embedded messages of the codec are of type `Params`, as in the code; two
  levels of `Unmarshal` therefore suffice. Names, unlike bytes, are not modelled:
  a string is its bytes.
* A slash that the bonded pool cannot pay, or whose hook finds no record of the last
  period (both possible on an in-place testnet only), fails the block, and the chain
  stops there.

## 6. Not modelled

* gRPC stubs, the gateway and the descriptors in the generated code: they register
  themselves and have no control of their own. `codec.go` and `autocli.go` likewise.
* Genesis accounts (`genesis_account.go`): a stateless validation of one record,
  used by nothing but simulations.
* The command line (`root.go`, `config.go`, `main.go`): flags and configuration of
  cobra and viper; only the modules it adds for `init` are in the model
  (`DefaultGenesis`).
* The documentation server and the simulation tests. The latter were read for what
  the export and the import promise.
* The end of the loops of `export.go` that write the store they iterate (176, 191,
  208-230, 245): each of them is one step of the model, so that they end is assumed.
* The version map that the InitChainer writes (`app.go` 215): upgrades alone read it,
  and there is none yet.
* Modules without a section in the genesis file, once InitChain has passed: what their
  blockers make of empty parameters.
* That a multistore loads the version it is asked for (`LoadHeight`): `ShowsItsHeight`
  takes it from the SDK.
* The two option checks of `appExport`; module account permissions and blocked
  addresses of `app_config.go`: data that nothing in this repository computes with.
* IBC packets: the handlers are those of ibc-go.
* Of `multi-node`, the settings that are the same in every directory but for the
  profiler's port, and IP addresses. All nodes have the profiler's port of the
  command's configuration (localhost:6060 by default), so that on one host only the
  first to start has a profiler: `ListensApart` names this exception. What
  `--list-ports` says is the user's choice and may be anything. The help text of `--starting-ip-address`
  (`testnet_multi_node.go` 139) shows addresses that increment; the code gives every
  node the same one, which is why `ListensApart` compares ports alone.
* Maturity of unbonding entries and the removal of validators by the end blocker:
  records of removed validators do not meet the export.
* The index by consensus address that the in-place testnet writes: nothing of the
  models reads it.

## 7. What could follow

* `PulsarChain`: maturity of entries and removal of validators.
