-------------------------- MODULE MultiNodeTestnet --------------------------
(***************************************************************************)
(* cmd/pulsard/cmd/testnet_multi_node.go: `pulsard multi-node` fills one   *)
(* directory per validator below --output-dir with keys, a gentx, the      *)
(* gentxs of the others, a genesis and a configuration.  It may stop       *)
(* between any two of its writes, and it may be started again, with other  *)
(* flags, on what an earlier invocation has left.  Only node_key.json and  *)
(* the copy of a gentx can stop halfway: the validator's two files are     *)
(* renamed into place, and a file that every invocation writes again needs *)
(* no such case.                                                           *)
(*                                                                         *)
(* Files are abstracted to what tells one writer from another: a node key, *)
(* a wallet or a mnemonic is the number of the invocation that made it (0: *)
(* no file).  An account is <<node, invocation>>, a node ID too.  Of the   *)
(* validator's files only their existence matters: a gentx is made when    *)
(* its directory has them, and they change only with the node key.         *)
(***************************************************************************)
EXTENDS Integers, Sequences

CONSTANTS
    MaxNodes,     \* bound: directories that can exist
    Sizes,        \* values of --v
    StakeFlags,   \* values of --validators-stake-amount, between commas
    PortLists,    \* values of --list-ports, between commas; <<>> if there is none
    DefaultStake, \* the amount of a validator that is given none
    Balance,      \* accStakingTokens, the balance of every account
    Invocations   \* bound: how often the command is started

NotANumber == -1

Torn == -1  \* a node key that was not written to its end

ASSUME MultiNodeAssumption ==
    /\ MaxNodes \in Nat \ {0} /\ Sizes \subseteq 1 .. MaxNodes
    /\ \A f \in StakeFlags : f \in Seq(Nat \union {NotANumber})
    /\ PortLists \subseteq Seq(Nat)
    /\ DefaultStake \in Nat /\ Balance \in Nat /\ Invocations \in Nat

VARIABLES
    stage,         \* what initTestnetFiles does next, or how it ended
    run,           \* number of the invocation
    numValidators, \* its --v
    stakeFlag,     \* its --validators-stake-amount
    portsFlag,     \* its --list-ports
    at,            \* the iteration that its loop is at
    nodeKey,       \* node_key.json
    privKeys,      \* the directories with a priv_validator_key.json
    privStates,    \* those with a priv_validator_state.json
    wallet,        \* the key of the directory's keyring
    seed,          \* key_seed.json
    gentx,         \* the files of config/gentx
    genesis,       \* genesis.json
    peers,         \* persistent_peers of config.toml
    config,        \* the ports that config.toml has the node listen on
    app            \* the ports of app.toml

process == <<run, numValidators, stakeFlag, portsFlag>>
keys    == <<nodeKey, privKeys, privStates>>
configs == <<peers, config, app>>
files   == <<keys, wallet, seed, gentx, genesis, configs>>
vars    == <<stage, at, process, files>>

Dirs    == 0 .. MaxNodes - 1
Running == {"node", "validator", "state", "key", "seed", "gentx", "app", "genesis",
            "copying", "collecting", "exporting"}
Ended   == {"idle", "done", "refused", "failed"}

NoFile    == [i \in Dirs |-> 0]
NoFiles   == [i \in Dirs |-> {}]
NoConfig  == [i \in Dirs |-> [p2p |-> 0, proxyApp |-> 0, prometheus |-> 0, rpc |-> 0,
                             pprof |-> 0]]
NoApp     == [i \in Dirs |-> [grpc |-> 0, api |-> 0]]
NoGenesis == [i \in Dirs |-> [accounts |-> {}, txs |-> {}]]

Init ==
    /\ stage = "idle" /\ at = 0
    /\ run = 0 /\ numValidators = 0 /\ stakeFlag = <<>> /\ portsFlag = <<>>
    /\ nodeKey = NoFile /\ privKeys = {} /\ privStates = {}
    /\ wallet = NoFile /\ seed = NoFile /\ gentx = NoFiles /\ peers = NoFiles
    /\ genesis = NoGenesis /\ config = NoConfig /\ app = NoApp

----------------------------------------------------------------------------
\* The flags.

Nodes == 0 .. numValidators - 1

\* An entry that is no number is left out, and those after it move up.
Numbers(flag) ==
    LET upTo[k \in 0 .. Len(flag)] ==
            IF k = 0 THEN <<>>
            ELSE IF flag[k] = NotANumber THEN upTo[k - 1] ELSE Append(upTo[k - 1], flag[k])
    IN  upTo[Len(flag)]
validatorsStakesAmount == Numbers(stakeFlag)

Stake(i) == IF i < Len(validatorsStakesAmount)
            THEN validatorsStakesAmount[i + 1] ELSE DefaultStake

nodeID(i) == <<i, nodeKey[i]>>

\* The ports of a node.  A list that is too short leaves the port out of the
\* address, and the node listens on any that is free (0).
p2pPort(i) == 26656 - 3 * i

rpcPort(i) == IF portsFlag = <<>> THEN 26657 - 3 * i
              ELSE IF i < Len(portsFlag) THEN portsFlag[i + 1] ELSE 0

\* The profiler's port is that of the command's own configuration, 6060 by default.
pprofPort == 6060

nodePorts(i) == [p2p |-> p2pPort(i), proxyApp |-> 26658 - 3 * i,
                 prometheus |-> 26660 + i, rpc |-> rpcPort(i), pprof |-> pprofPort]

appPorts(i) == [grpc |-> 9090 - 2 * i, api |-> 1317 - i]

\* The entry of a node in the persistent peers of the others.
memo(id) == [id |-> id, port |-> p2pPort(id[1])]

\* Iterations of the loop of a stage.
Iterations(s) == IF s = "copying" THEN numValidators * numValidators ELSE numValidators

\* Mutant of Start: the loop goes on where the last invocation stopped.
StartAgain(v, flag, list) ==
    /\ stage \in Ended /\ run < Invocations
    /\ stage' = "node"
    /\ run' = run + 1 /\ numValidators' = v /\ stakeFlag' = flag /\ portsFlag' = list
    /\ UNCHANGED <<at, files>>

Start(v, flag, list) ==
    /\ stage \in Ended /\ run < Invocations
    /\ stage' = "node" /\ at' = 0
    /\ run' = run + 1 /\ numValidators' = v /\ stakeFlag' = flag /\ portsFlag' = list
    /\ UNCHANGED files

----------------------------------------------------------------------------
\* initTestnetFiles, write by write.

Within(from, to) == stage = from /\ stage' = to /\ UNCHANGED <<at, process>>

\* One iteration: back to `again` for the next one, or on to `to`.
Iterate(from, again, to) ==
    /\ stage = from
    /\ IF at + 1 < Iterations(from)
       THEN at' = at + 1 /\ stage' = again
       ELSE at' = 0 /\ stage' = to
    /\ UNCHANGED process

\* Mutant of LoadOrGenNodeKey: a key that exists is replaced.
LoadOrGenNodeKeyAnew ==
    /\ Within("node", "validator") /\ nodeKey[at] # Torn
    /\ nodeKey' = [nodeKey EXCEPT ![at] = run]
    /\ UNCHANGED <<privKeys, privStates, wallet, seed, gentx, genesis, configs>>

\* InitializeNodeValidatorFiles, file by file: a key that exists is loaded.
LoadOrGenNodeKey ==
    /\ Within("node", "validator") /\ nodeKey[at] # Torn
    /\ nodeKey' = [nodeKey EXCEPT ![at] = IF @ = 0 THEN run ELSE @]
    /\ UNCHANGED <<privKeys, privStates, wallet, seed, gentx, genesis, configs>>

LoadFilePV ==
    /\ Within("validator", "key") /\ at \in privKeys \intersect privStates
    /\ UNCHANGED files

\* The key's file is loaded with that of its state: where there is none, the
\* process exits.
ExitInLoadFilePV ==
    /\ stage = "validator" /\ at \in privKeys \ privStates
    /\ stage' = "refused"
    /\ UNCHANGED <<at, process, files>>

\* A new validator key is saved first, its state second.
GenFilePV ==
    /\ Within("validator", "state") /\ at \notin privKeys
    /\ privKeys' = privKeys \union {at}
    /\ UNCHANGED <<nodeKey, privStates, wallet, seed, gentx, genesis, configs>>

SaveLastSignState ==
    /\ Within("state", "key")
    /\ privStates' = privStates \union {at}
    /\ UNCHANGED <<nodeKey, privKeys, wallet, seed, gentx, genesis, configs>>

\* The keyring's key is overwritten.
GenerateSaveCoinKey ==
    /\ Within("key", "seed")
    /\ wallet' = [wallet EXCEPT ![at] = run]
    /\ UNCHANGED <<keys, seed, gentx, genesis, configs>>

\* Mutant of WriteKeySeed: a file that exists is kept.
WriteKeySeedOnce ==
    /\ Within("seed", "gentx")
    /\ seed' = [seed EXCEPT ![at] = IF @ = 0 THEN run ELSE @]
    /\ UNCHANGED <<keys, wallet, gentx, genesis, configs>>

WriteKeySeed ==
    /\ Within("seed", "gentx")
    /\ seed' = [seed EXCEPT ![at] = run]
    /\ UNCHANGED <<keys, wallet, gentx, genesis, configs>>

\* A gentx file is named for the node ID; it replaces a file of that name.
Written(dir, tx) == {t \in dir : t.id # tx.id} \union {tx}

WriteGentx ==
    /\ Within("gentx", "app")
    /\ gentx' = [gentx EXCEPT
            ![at] = Written(@, [id |-> nodeID(at), signer |-> run, stake |-> Stake(at)])]
    /\ UNCHANGED <<keys, wallet, seed, genesis, configs>>

WriteAppConfig ==
    /\ Iterate("app", "node", "genesis")
    /\ app' = [app EXCEPT ![at] = appPorts(at)]
    /\ UNCHANGED <<keys, wallet, seed, gentx, genesis, peers, config>>

\* initGenFiles: the accounts of this invocation and no gentx.
initGenFiles ==
    /\ Iterate("genesis", "genesis", "copying")
    /\ genesis' = [genesis EXCEPT ![at] = [accounts |-> Nodes \X {run}, txs |-> {}]]
    /\ UNCHANGED <<keys, wallet, seed, gentx, configs>>

\* The two loops over directories and gentx files as one.
CopyTo   == at \div numValidators
CopyFrom == at % numValidators

OwnGentx(j) == CHOOSE t \in gentx[j] : t.id = nodeID(j)

\* Mutant of copyFile: no directory gets the gentx of a node before its own.
copyFileForward ==
    /\ Iterate("copying", "copying", "collecting")
    /\ gentx' = IF CopyFrom <= CopyTo THEN gentx
                ELSE [gentx EXCEPT ![CopyTo] = Written(@, OwnGentx(CopyFrom))]
    /\ UNCHANGED <<keys, wallet, seed, genesis, configs>>

\* isSubDir: a directory holds its own gentx already.
copyFile ==
    /\ Iterate("copying", "copying", "collecting")
    /\ gentx' = IF CopyFrom = CopyTo THEN gentx
                ELSE [gentx EXCEPT ![CopyTo] = Written(@, OwnGentx(CopyFrom))]
    /\ UNCHANGED <<keys, wallet, seed, genesis, configs>>

\* CollectTxs: every file of the directory is a gentx of an account that the
\* genesis gives enough coins.
Affordable(stake) == stake <= Balance

Acceptable(tx, g) == <<tx.id[1], tx.signer>> \in g.accounts /\ Affordable(tx.stake)

Collectable(i) == \A tx \in gentx[i] : Acceptable(tx, genesis[i])

\* The loops have one nodeConfig: its ports are those of the node before, and of
\* the last one whose RPC address the first loop has set.
nodeConfig == IF at > 0 THEN nodePorts(at - 1)
              ELSE [nodePorts(0) EXCEPT !.rpc = rpcPort(numValidators - 1)]

\* Mutant of GenAppStateFromConfig: the gentxs are not checked against the genesis.
GenAppStateFromConfigUnchecked ==
    /\ Within("collecting", "exporting")
    /\ genesis' = [genesis EXCEPT ![at].txs = gentx[at]]
    /\ peers' = [peers EXCEPT ![at] = {memo(tx.id) : tx \in {t \in gentx[at] : t.id[1] # at}}]
    /\ config' = [config EXCEPT ![at] = nodeConfig]
    /\ UNCHANGED <<keys, wallet, seed, gentx, app>>

\* The gentxs of the directory go to its genesis, and the addresses that those of
\* the others have as memos to config.toml.
GenAppStateFromConfig ==
    /\ Within("collecting", "exporting") /\ Collectable(at)
    /\ genesis' = [genesis EXCEPT ![at].txs = gentx[at]]
    /\ peers' = [peers EXCEPT ![at] = {memo(tx.id) : tx \in {t \in gentx[at] : t.id[1] # at}}]
    /\ config' = [config EXCEPT ![at] = nodeConfig]
    /\ UNCHANGED <<keys, wallet, seed, gentx, app>>

\* Mutant of WriteConfig: one of the ports is left as it was.
WriteConfigShort ==
    /\ peers' = [peers EXCEPT ![at] = {memo(nodeID(j)) : j \in Nodes}]
    /\ config' = [config EXCEPT ![at] = [nodePorts(at) EXCEPT !.proxyApp = nodeConfig.proxyApp]]
    /\ UNCHANGED app

WriteConfig ==
    /\ peers' = [peers EXCEPT ![at] = {memo(nodeID(j)) : j \in Nodes}]
    /\ config' = [config EXCEPT ![at] = nodePorts(at)]
    /\ UNCHANGED app

\* The state of the first genesis, which it has just been given, is written to all.
collectGenFiles ==
    /\ Iterate("exporting", "collecting", "done")
    /\ WriteConfig
    /\ genesis' = [genesis EXCEPT ![at] = genesis[0]]
    /\ UNCHANGED <<keys, wallet, seed, gentx>>

Refuse ==
    /\ stage = "collecting" /\ ~ Collectable(at)
    /\ stage' = "refused"
    /\ UNCHANGED <<at, process, files>>

----------------------------------------------------------------------------
\* Errors and crashes.

\* Some errors of the first steps remove the output directory, that of a node key
\* which does not load among them.
FailRemoving ==
    /\ stage \in {"node", "validator", "key"}
    /\ stage' = "failed"
    /\ nodeKey' = NoFile /\ privKeys' = {} /\ privStates' = {}
    /\ wallet' = NoFile /\ seed' = NoFile /\ gentx' = NoFiles /\ peers' = NoFiles
    /\ genesis' = NoGenesis /\ config' = NoConfig /\ app' = NoApp
    /\ UNCHANGED <<at, process>>

\* Every other error returns or panics as it is, and a killed process does no more.
FailKeeping ==
    /\ stage \in Running
    /\ stage' = "failed"
    /\ UNCHANGED <<at, process, files>>

\* A process killed while it writes a node key leaves one that does not load.
FailWritingNodeKey ==
    /\ stage = "node" /\ nodeKey[at] = 0
    /\ stage' = "failed"
    /\ nodeKey' = [nodeKey EXCEPT ![at] = Torn]
    /\ UNCHANGED <<at, process, privKeys, privStates, wallet, seed, gentx, genesis, configs>>

\* copyFile creates the destination, or empties it, before it copies: a gentx
\* that nobody signed.
FailCopying ==
    /\ stage = "copying" /\ CopyFrom # CopyTo
    /\ stage' = "failed"
    /\ gentx' = [gentx EXCEPT
            ![CopyTo] = Written(@, [id |-> nodeID(CopyFrom), signer |-> 0, stake |-> 0])]
    /\ UNCHANGED <<at, process, keys, wallet, seed, genesis, configs>>

\* config.toml is written, the genesis is not.
FailExporting ==
    /\ stage = "exporting"
    /\ stage' = "failed"
    /\ WriteConfig
    /\ UNCHANGED <<at, process, keys, wallet, seed, gentx, genesis>>

initTestnetFiles ==
    \/ LoadOrGenNodeKey
    \/ LoadFilePV
    \/ ExitInLoadFilePV
    \/ GenFilePV
    \/ SaveLastSignState
    \/ GenerateSaveCoinKey
    \/ WriteKeySeed
    \/ WriteGentx
    \/ WriteAppConfig
    \/ initGenFiles
    \/ copyFile
    \/ GenAppStateFromConfig
    \/ collectGenFiles
    \/ Refuse

Next ==
    \/ \E v \in Sizes, flag \in StakeFlags, list \in PortLists :
           Start(v, flag, list)
    \/ initTestnetFiles
    \/ FailRemoving
    \/ FailKeeping
    \/ FailWritingNodeKey
    \/ FailCopying
    \/ FailExporting

Spec == Init /\ [][Next]_vars

----------------------------------------------------------------------------
\* Types.

Account == Dirs \X (1 .. Invocations)
Gentx   == [id : Account, signer : 0 .. Invocations, stake : Nat]

\* Every variable has its type, and a loop is never past its last iteration.
TypeOK ==
    /\ stage \in Running \union Ended
    /\ stage \in Running => at \in 0 .. Iterations(stage) - 1
    /\ run \in 0 .. Invocations /\ numValidators \in Sizes \union {0}
    /\ stakeFlag \in StakeFlags \union {<<>>} /\ portsFlag \in PortLists \union {<<>>}
    /\ privKeys \union privStates \subseteq Dirs
    /\ \A i \in Dirs :
          /\ nodeKey[i] \in {Torn} \union (0 .. Invocations)
          /\ {wallet[i], seed[i]} \subseteq 0 .. Invocations
          /\ gentx[i] \subseteq Gentx /\ genesis[i].txs \subseteq Gentx
          /\ genesis[i].accounts \subseteq Account
          /\ \A peer \in peers[i] : peer.id \in Account /\ peer.port = p2pPort(peer.id[1])
          /\ DOMAIN config[i] = {"p2p", "proxyApp", "prometheus", "rpc", "pprof"}
          /\ DOMAIN app[i] = {"grpc", "api"}

----------------------------------------------------------------------------
\* Safety.

\* "populate each with necessary files for running v validator nodes": when the
\* command succeeds, whatever it found in the directories, they agree on one
\* genesis with the gentx of every node and of nobody else, the peers are the
\* nodes where they listen, each mnemonic is that of the key that signed, and
\* every node can start with the keys it has.
Complete ==
    stage = "done" =>
        \A i \in Nodes :
            /\ genesis[i] = [accounts |-> Nodes \X {run},
                             txs |-> {[id |-> nodeID(j), signer |-> run, stake |-> Stake(j)] :
                                         j \in Nodes}]
            /\ \A j \in Nodes : [id |-> nodeID(j), port |-> config[j].p2p] \in peers[i]
            /\ {peer.id : peer \in peers[i]} = {nodeID(j) : j \in Nodes}
            /\ wallet[i] = run /\ seed[i] = run
            /\ nodeKey[i] > 0 /\ i \in privKeys \intersect privStates

\* testnet_multi_node.go:456, "they should not differ": a directory that will
\* be accepted collects the same state as the first one.
SameAppState ==
    stage = "collecting" =>
        \A i \in Nodes : Collectable(i) /\ Collectable(0) => gentx[i] = gentx[0]

\* No genesis file ever holds a gentx of an account it gives no coins to,
\* although directories keep the gentxs of earlier networks.
GenesisConsistent ==
    \A i \in Dirs : \A tx \in genesis[i].txs : Acceptable(tx, genesis[i])

\* What starting the command again does not repair: it is refused for a stake
\* that no account can pay, in directories that hold the gentx of a node which
\* this network does not have, or by a validator key that an invocation left
\* without its state, and for nothing else that a failed one left.
RefusedForAReason ==
    stage = "refused" =>
        \/ \E i \in Nodes : ~ Affordable(Stake(i))
        \/ \E i \in Nodes : \E tx \in gentx[i] : tx.id[1] \notin Nodes
        \/ at \in Nodes \intersect (privKeys \ privStates)

\* All nodes run on one host: when the command succeeds, every port is one, and the
\* only one that two nodes, or two services of one, have in common is the
\* profiler's, although the loops share one nodeConfig, of which each node gets the
\* fields that were set for it (testnet_multi_node.go:120, 201, 310-312, 447-454).
\* What --list-ports says is not the command's choice.
Port(i, service) == IF service \in {"grpc", "api"} THEN app[i][service] ELSE config[i][service]

IsPort(port) == 0 < port /\ port < 2^16

Services == {"p2p", "proxyApp", "prometheus", "pprof", "grpc", "api"}
                \union (IF portsFlag = <<>> THEN {"rpc"} ELSE {})

ListensApart ==
    stage = "done" =>
        \A i, j \in Nodes : \A a, b \in Services :
            /\ IsPort(Port(i, a))
            /\ <<i, a>> # <<j, b>> /\ Port(i, a) = Port(j, b) => {a, b} = {"pprof"}

\* testnet_multi_node.go:104, "If the flag string is invalid, the amount will
\* default to 100000000": the validator of an entry that is no number gets the
\* default, and the others what the flag says.
StakesAsGiven ==
    stage = "done" =>
        \A i \in Nodes : \A tx \in genesis[0].txs :
            tx.id = nodeID(i) /\ i < Len(stakeFlag) =>
                tx.stake = IF stakeFlag[i + 1] = NotANumber THEN DefaultStake
                           ELSE stakeFlag[i + 1]
=============================================================================
