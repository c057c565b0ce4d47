------------------------------ MODULE AppConfig ------------------------------
(***************************************************************************)
(* app/app_config.go, app/ibc.go and the construction of the application   *)
(* in app/app.go: the modules, the orders in which they are called, the    *)
(* stores they need, and what is checked of them when the application is   *)
(* loaded and initialized.  Which module has a genesis or blockers, and    *)
(* what its genesis needs of others, is the module's (external).           *)
(***************************************************************************)
EXTENDS Naturals, Sequences, SequencesExt

CONSTANT ConfigAuthority  \* pulsarmoduletypes.Module.Authority, "" by default

\* The modules of the configuration that have a store or a genesis.
ConfigModules ==
    {"auth", "vesting", "bank", "staking", "slashing", "genutil", "authz", "upgrade",
     "distribution", "evidence", "mint", "group", "nft", "feegrant", "gov",
     "consensus", "circuit", "params", "epochs", "pulsar"}

\* Mutant of IBCStores: a store that is not registered.
IBCStoresShort == {"ibc", "transfer", "icahost"}

\* The modules that registerIBCModules adds, and the stores it registers.
IBCStores == {"ibc", "transfer", "icahost", "icacontroller"}
IBCModules == {"ibc", "transfer", "interchainaccounts", "07-tendermint", "06-solomachine"}

\* The stores of the keepers that registerIBCModules constructs.
IBCKeeperStores == {"ibc", "transfer", "icahost", "icacontroller"}

\* The modules that the command line adds to the configuration's: `init` writes the
\* genesis sections of both.
RegisterIBC ==
    {"ibc", "transfer", "interchainaccounts", "07-tendermint", "06-solomachine"}
DefaultGenesis == ConfigModules \union RegisterIBC

Modules == ConfigModules \union IBCModules

PreBlockers == <<"upgrade", "auth">>

BeginBlockers == <<"mint", "distribution", "slashing", "evidence", "staking", "authz",
                   "epochs", "ibc", "pulsar">>

EndBlockers == <<"gov", "staking", "feegrant", "group", "pulsar">>

InitGenesis == <<"consensus", "auth", "bank", "distribution", "staking", "slashing",
                 "gov", "mint", "genutil", "evidence", "authz", "feegrant", "vesting",
                 "nft", "group", "upgrade", "circuit", "epochs", "ibc", "transfer",
                 "interchainaccounts", "pulsar">>

----------------------------------------------------------------------------
\* What the modules have.

HasPreBlocker == {"upgrade", "auth"}
HasBeginBlock == {"mint", "distribution", "slashing", "evidence", "staking", "authz",
                  "epochs", "ibc", "pulsar"}
HasEndBlock   == {"gov", "staking", "feegrant", "group", "pulsar"}
HasGenesis    == Modules \ {"params", "07-tendermint", "06-solomachine"}

\* The genesis transactions are delivered to initialized pools, and the accounts
\* of the pools are created with parameters and balances.
NeedsGenesisOf(m) ==
    CASE m = "genutil" -> {"staking", "bank", "auth", "distribution"}
      [] m = "staking" -> {"auth", "bank"}
      [] m = "interchainaccounts" -> {"ibc"}
      [] m = "transfer" -> {"ibc"}
      [] OTHER -> {}

\* Load: the manager refuses an order that forgets a module, and the stores of
\* all keepers are mounted before the last version is read.
Load ==
    /\ HasPreBlocker \subseteq ToSet(PreBlockers)
    /\ HasBeginBlock \subseteq ToSet(BeginBlockers)
    /\ HasEndBlock \subseteq ToSet(EndBlockers)
    /\ HasGenesis \intersect Modules \subseteq ToSet(InitGenesis)
    /\ IBCKeeperStores \subseteq IBCStores

\* InitChainer calls the modules in order.
GenesisInOrder ==
    \A i \in 1 .. Len(InitGenesis) :
        /\ InitGenesis[i] \in Modules
        /\ NeedsGenesisOf(InitGenesis[i]) \subseteq {InitGenesis[j] : j \in 1 .. i - 1}

\* InitChainer fails unless exactly one module returns validators, and that one
\* needs the sections of others: staking for the validators that an export has
\* listed, genutil for those of the genesis transactions.  The file that `init`
\* writes has neither.
GivesValidators(file) ==
    \E m \in {"staking", "genutil"} :
        file.validators = {m} /\ {m} \union NeedsGenesisOf(m) \subseteq file.sections

\* ProvideModule: the authority of x/pulsar.
GovModuleName == "gov"
authority == IF ConfigAuthority # "" THEN ConfigAuthority ELSE GovModuleName
=============================================================================
