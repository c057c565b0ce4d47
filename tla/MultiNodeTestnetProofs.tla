----------------------- MODULE MultiNodeTestnetProofs -----------------------
(***************************************************************************)
(* Theorems about MultiNodeTestnet, for any number of nodes and of         *)
(* invocations and whatever errors and crashes have left: no genesis is    *)
(* ever inconsistent, an invocation that succeeds leaves one complete      *)
(* network, and what one may be refused for.                               *)
(***************************************************************************)
EXTENDS MultiNodeTestnet, WellFoundedInduction, TLAPS

\* Every genesis is given gentxs that have been checked against it, or is a copy
\* of the first.
Geneses == genesis = [i \in Dirs |-> [accounts |-> genesis[i].accounts, txs |-> genesis[i].txs]]

IInv == Geneses /\ GenesisConsistent

----------------------------------------------------------------------------
LEMMA FirstDir == 0 \in Dirs
BY MultiNodeAssumption DEF Dirs

\* A genesis is replaced by one that can pay for its gentxs.
LEMMA GenesisReplaced ==
    ASSUME Geneses, GenesisConsistent, NEW i, NEW g,
           g = [accounts |-> g.accounts, txs |-> g.txs],
           \A tx \in g.txs : Acceptable(tx, g),
           genesis' = [genesis EXCEPT ![i] = g]
    PROVE  Geneses' /\ GenesisConsistent'
<1>1. \A j \in Dirs : genesis'[j] = IF j = i THEN g ELSE genesis[j]
  BY DEF Geneses
<1>2. Geneses'
  BY DEF Geneses
<1>3. ASSUME NEW j \in Dirs, NEW tx \in genesis'[j].txs
      PROVE  Acceptable(tx, genesis'[j])
  BY <1>1, <1>3 DEF GenesisConsistent
<1>4. GenesisConsistent'
  BY <1>3 DEF GenesisConsistent, Acceptable
<1> QED
  BY <1>2, <1>4

----------------------------------------------------------------------------
\* The invariant.

LEMMA InitHolds == Init => IInv
BY DEF Init, IInv, Geneses, GenesisConsistent, NoGenesis

LEMMA Unwritten == IInv /\ UNCHANGED genesis => IInv'
BY DEF IInv, Geneses, GenesisConsistent, Acceptable

LEMMA InitGenFiles ==
    ASSUME IInv, initGenFiles
    PROVE  IInv'
<1> DEFINE g == [accounts |-> Nodes \X {run}, txs |-> {}]
<1>1. genesis' = [genesis EXCEPT ![at] = g]
  BY DEF initGenFiles
<1> QED
  BY <1>1, GenesisReplaced DEF IInv

LEMMA GenAppState ==
    ASSUME IInv, GenAppStateFromConfig
    PROVE  IInv'
<1> DEFINE g == [accounts |-> genesis[at].accounts, txs |-> gentx[at]]
<1>1. CASE at \in Dirs
  <2>1. genesis' = [genesis EXCEPT ![at] = g]
    <3>1. genesis' = [genesis EXCEPT ![at] = [genesis[at] EXCEPT !.txs = gentx[at]]]
      BY DEF GenAppStateFromConfig
    <3>2. genesis[at] = [accounts |-> genesis[at].accounts, txs |-> genesis[at].txs]
      BY <1>1 DEF IInv, Geneses
    <3>3. [genesis[at] EXCEPT !.txs = gentx[at]] = g
      BY <3>2
    <3> QED
      BY <3>1, <3>3
  <2>2. \A tx \in g.txs : Acceptable(tx, g)
    BY DEF GenAppStateFromConfig, Collectable, Acceptable
  <2> QED
    BY <2>1, <2>2, GenesisReplaced DEF IInv
<1>2. CASE at \notin Dirs
  <2>1. UNCHANGED genesis
    BY <1>2 DEF GenAppStateFromConfig, IInv, Geneses
  <2> QED
    BY <2>1, Unwritten
<1> QED
  BY <1>1, <1>2

LEMMA CollectGenFiles ==
    ASSUME IInv, collectGenFiles
    PROVE  IInv'
<1> DEFINE g == genesis[0]
<1>1. genesis' = [genesis EXCEPT ![at] = g]
  BY DEF collectGenFiles
<1>2. g = [accounts |-> g.accounts, txs |-> g.txs]
  BY FirstDir DEF IInv, Geneses
<1>3. \A tx \in g.txs : Acceptable(tx, g)
  BY FirstDir DEF IInv, GenesisConsistent
<1> HIDE DEF g
<1> QED
  BY <1>1, <1>2, <1>3, GenesisReplaced DEF IInv

LEMMA Invariance == IInv /\ [Next]_vars => IInv'
<1> SUFFICES ASSUME IInv, [Next]_vars PROVE IInv'
  OBVIOUS
<1>1. CASE initGenFiles
  BY <1>1, InitGenFiles
<1>2. CASE GenAppStateFromConfig
  BY <1>2, GenAppState
<1>3. CASE collectGenFiles
  BY <1>3, CollectGenFiles
<1>4. CASE FailRemoving
  BY <1>4 DEF FailRemoving, IInv, Geneses, GenesisConsistent, NoGenesis
<1>5. \/ UNCHANGED genesis \/ initGenFiles \/ GenAppStateFromConfig
      \/ collectGenFiles \/ FailRemoving
  BY DEF Next, initTestnetFiles, Start, LoadOrGenNodeKey, LoadFilePV, ExitInLoadFilePV,
     GenFilePV, SaveLastSignState, GenerateSaveCoinKey, WriteKeySeed, WriteGentx,
     WriteAppConfig, copyFile, Refuse, FailKeeping, FailWritingNodeKey, FailCopying,
     FailExporting, vars, files
<1> QED
  BY <1>1, <1>2, <1>3, <1>4, <1>5, Unwritten

\* No genesis file ever holds a gentx of an account that it gives no coins or
\* too few, whatever the directories keep of earlier invocations.
THEOREM GenesesAreConsistent == Spec => []GenesisConsistent
<1>1. IInv => GenesisConsistent
  BY DEF IInv
<1> QED
  BY InitHolds, Invariance, <1>1, PTL DEF Spec

----------------------------------------------------------------------------
\* Complete networks.

\* The gentx that this invocation makes for a node, and the state it collects.
Own(j) == [id |-> nodeID(j), signer |-> run, stake |-> Stake(j)]
Made   == {Own(j) : j \in Nodes}
Empty  == [accounts |-> Nodes \X {run}, txs |-> {}]
Final  == [accounts |-> Nodes \X {run}, txs |-> Made]

----------------------------------------------------------------------------
\* The nested loops as one.

LEMMA NestedLoop ==
    ASSUME NEW n \in Nat, NEW i \in 0 .. n - 1, NEW j \in 0 .. n - 1
    PROVE  /\ i * n + j \in 0 .. n * n - 1
           /\ (i * n + j) \div n = i /\ (i * n + j) % n = j
OBVIOUS

LEMMA NestedIterations ==
    ASSUME NEW n \in Nat, NEW a \in 0 .. n * n - 1
    PROVE  a \div n \in 0 .. n - 1 /\ a % n \in 0 .. n - 1
OBVIOUS

----------------------------------------------------------------------------
\* The invariant.

First == {"node", "validator", "state", "key", "seed", "gentx", "app"}
Later == {"genesis", "copying", "collecting", "exporting", "done"}

\* The loops stay within the nodes of the network.
Loops ==
    /\ at \in Nat /\ run \in Nat
    /\ stage \in Running \union {"done"} =>
           numValidators \in 1 .. MaxNodes /\ run > 0
    /\ stage \in Running => at < Iterations(stage)
    /\ stage \in Running \union Ended

NodeKeys == Nat \union {Torn}

Shapes ==
    /\ nodeKey \in [Dirs -> NodeKeys]
    /\ DOMAIN wallet = Dirs /\ wallet = [i \in Dirs |-> wallet[i]]
    /\ seed = [i \in Dirs |-> seed[i]] /\ gentx = [i \in Dirs |-> gentx[i]]
    /\ genesis = [i \in Dirs |-> [accounts |-> genesis[i].accounts, txs |-> genesis[i].txs]]
    /\ peers = [i \in Dirs |-> peers[i]] /\ config = [i \in Dirs |-> config[i]]
    /\ app = [i \in Dirs |-> app[i]]

\* A file of any invocation has the ID of a node, of which no directory has two
\* files, and a file of this invocation is what it made for that node.
Gentxs ==
    \A d \in Dirs :
        /\ \A tx \in gentx[d] :
              /\ \E j \in Dirs : tx.id = nodeID(j) /\ nodeKey[j] > 0
              /\ tx.signer \in 0 .. run
              /\ tx.signer = run /\ run > 0 => tx = Own(tx.id[1]) /\ tx.id[1] \in Nodes
        /\ \A tx, other \in gentx[d] : tx.id = other.id => tx = other

\* The first loop has passed a step of node i: it is one of a loop before, or of
\* this one and the stage is among those after the step.
Past(i, after) ==
    \/ stage \in Later
    \/ stage \in First /\ (i < at \/ (i = at /\ stage \in after))

Prepared ==
    \A i \in Nodes :
        /\ Past(i, First \ {"node"}) => nodeKey[i] > 0
        /\ Past(i, First \ {"node", "validator"}) => i \in privKeys
        /\ Past(i, {"key", "seed", "gentx", "app"}) => i \in privStates
        /\ Past(i, {"seed", "gentx", "app"}) => wallet[i] = run
        /\ Past(i, {"gentx", "app"}) => seed[i] = run
        /\ Past(i, {"app"}) => Own(i) \in gentx[i]
        /\ Past(i, {}) => app[i] = appPorts(i)

Has(i, j) == \/ stage \in {"collecting", "exporting", "done"}
             \/ stage = "copying" /\ i * numValidators + j < at

Copied == \A i, j \in Nodes : Has(i, j) => Own(j) \in gentx[i]

\* The directories before `at` are finished, those after it are not begun.
Untouched(i) == \/ stage = "genesis" /\ i < at
                \/ stage = "copying"
                \/ stage = "collecting" /\ i >= at
                \/ stage = "exporting" /\ i > at

Finished(i) == \/ stage \in {"collecting", "exporting"} /\ i < at
               \/ stage = "done"

Collecting ==
    \A i \in Nodes :
        /\ Untouched(i) => genesis[i] = Empty
        /\ Finished(i) => /\ genesis[i] = Final
                          /\ config[i] = nodePorts(i)
                          /\ peers[i] = {memo(nodeID(j)) : j \in Nodes}
        /\ stage = "exporting" /\ at = 0 => genesis[0] = Final

NInv == Loops /\ Shapes /\ Gentxs /\ Prepared /\ Copied /\ Collecting

----------------------------------------------------------------------------
\* What a step leaves alone.

LEMMA NodesAreDirs ==
    ASSUME Loops, stage \in Running \union {"done"}
    PROVE  Nodes \subseteq Dirs /\ numValidators \in Nat \ {0} /\ 0 \in Nodes /\ run > 0
BY MultiNodeAssumption DEF Loops, Nodes, Dirs

LEMMA SameRun ==
    ASSUME UNCHANGED process
    PROVE  /\ Nodes' = Nodes /\ Empty' = Empty /\ run' = run /\ numValidators' = numValidators
           /\ \A i : Stake(i)' = Stake(i)
           /\ \A i : nodePorts(i)' = nodePorts(i)
<1>1. UNCHANGED <<run, numValidators, stakeFlag, portsFlag>>
  BY DEF process
<1>2. validatorsStakesAmount' = validatorsStakesAmount
  BY <1>1 DEF validatorsStakesAmount
<1> QED
  BY <1>1, <1>2 DEF Nodes, Empty, Stake, nodePorts, rpcPort, p2pPort

LEMMA SameNodes ==
    ASSUME UNCHANGED <<process, nodeKey>>
    PROVE  /\ \A i : nodeID(i)' = nodeID(i) /\ Own(i)' = Own(i)
           /\ Made' = Made /\ Final' = Final
<1>1. \A i : nodeID(i)' = nodeID(i)
  BY DEF nodeID
<1>2. \A i : Own(i)' = Own(i)
  BY <1>1, SameRun DEF Own
<1>3. Made' = Made
  BY <1>2, SameRun DEF Made
<1> QED
  BY <1>1, <1>2, <1>3, SameRun DEF Final

LEMMA MemoIsConstant == \A id : memo(id)' = memo(id)
BY DEF memo, p2pPort

LEMMA GentxsKept ==
    ASSUME Gentxs, UNCHANGED <<process, nodeKey, gentx>>
    PROVE  Gentxs'
BY SameRun, SameNodes DEF Gentxs

\* A gentx of node j is written to directory d.
Writes(d, j, tx) ==
    /\ d \in Dirs /\ j \in Dirs /\ tx.id = nodeID(j) /\ nodeKey[j] > 0
    /\ tx.signer \in 0 .. run
    /\ tx.signer = run /\ run > 0 => tx = Own(j) /\ j \in Nodes
    /\ gentx' = [gentx EXCEPT ![d] = Written(gentx[d], tx)]

LEMMA GentxWritten ==
    ASSUME Gentxs, Shapes, UNCHANGED <<process, nodeKey>>,
           NEW d, NEW j, NEW tx, Writes(d, j, tx)
    PROVE  /\ Gentxs'
           /\ tx \in gentx'[d]
           /\ \A e \in Dirs : \A t \in gentx[e] :
                  t.id # tx.id \/ e # d => t \in gentx'[e]
<1> USE DEF Writes
<1>1. \A e \in Dirs : gentx'[e] = IF e = d THEN Written(gentx[d], tx) ELSE gentx[e]
  BY DEF Shapes
<1>2. nodeID(j)[1] = j
  BY DEF nodeID
<1>3. ASSUME NEW e \in Dirs, NEW t \in gentx'[e]
      PROVE  /\ \E i \in Dirs : t.id = nodeID(i) /\ nodeKey[i] > 0
             /\ t.signer \in 0 .. run
             /\ t.signer = run /\ run > 0 => t = Own(t.id[1]) /\ t.id[1] \in Nodes
  <2>1. t = tx \/ t \in gentx[e]
    BY <1>1, <1>3 DEF Written
  <2>2. CASE t = tx
    BY <1>2, <2>2
  <2>3. CASE t \in gentx[e]
    BY <2>3 DEF Gentxs
  <2> QED
    BY <2>1, <2>2, <2>3
<1>4. ASSUME NEW e \in Dirs, NEW t \in gentx'[e], NEW o \in gentx'[e], t.id = o.id
      PROVE  t = o
  BY <1>1, <1>4 DEF Gentxs, Written
<1>5. Gentxs'
  BY <1>3, <1>4, SameRun, SameNodes DEF Gentxs
<1>6. tx \in gentx'[d]
  <2>1. gentx'[d] = Written(gentx[d], tx)
    BY <1>1
  <2>2. tx \in Written(gentx[d], tx)
    BY DEF Written
  <2> QED
    BY <2>1, <2>2
<1>7. ASSUME NEW e \in Dirs, NEW t \in gentx[e], t.id # tx.id \/ e # d
      PROVE  t \in gentx'[e]
  BY <1>1, <1>7 DEF Written
<1> QED
  BY <1>5, <1>6, <1>7

\* Steps of one iteration of the first loop.
LEMMA SameIteration ==
    ASSUME stage \in First, stage' \in First, UNCHANGED <<at, process>>
    PROVE  /\ Nodes' = Nodes
           /\ \A i, after : Past(i, after) <=> i < at \/ (i = at /\ stage \in after)
           /\ \A i, after : Past(i, after)' <=> i < at \/ (i = at /\ stage' \in after)
BY SameRun DEF Past, First, Later

\* The first loop is over.
LEMMA AllPrepared ==
    ASSUME Prepared, stage \in Later, NEW i \in Nodes
    PROVE  /\ nodeKey[i] > 0 /\ i \in privKeys /\ i \in privStates
           /\ wallet[i] = run /\ seed[i] = run
           /\ Own(i) \in gentx[i] /\ app[i] = appPorts(i)
BY DEF Prepared, Past

LEMMA StaysPrepared ==
    ASSUME Prepared, stage \in Later, stage' \in Later,
           UNCHANGED <<process, nodeKey, privKeys, privStates, wallet, seed, app>>,
           \A i \in Nodes : Own(i) \in gentx'[i]
    PROVE  Prepared'
<1>1. /\ Nodes' = Nodes /\ run' = run
      /\ \A i : Own(i)' = Own(i) /\ appPorts(i)' = appPorts(i)
  BY SameRun, SameNodes DEF appPorts
<1> QED
  BY <1>1, AllPrepared DEF Prepared

LEMMA Stopped ==
    ASSUME stage' \in {"refused", "failed"}
    PROVE  Prepared' /\ Copied' /\ Collecting'
BY DEF Prepared, Past, Copied, Has, Collecting, Untouched, Finished, First, Later

LEMMA Unfinished ==
    ASSUME stage' \in First
    PROVE  Copied' /\ Collecting'
BY DEF Copied, Has, Collecting, Untouched, Finished, First

----------------------------------------------------------------------------
\* Where the steps lead.

LEMMA WithinStays ==
    ASSUME NInv, NEW from \in Running, NEW to \in Running, Within(from, to),
           Iterations(to)' = Iterations(from)
    PROVE  Loops'
BY SameRun DEF NInv, Loops, Within, process, Running, Ended

LEMMA IterateKeeps ==
    ASSUME NEW from, NEW again, NEW to, Iterate(from, again, to)
    PROVE  stage = from /\ UNCHANGED process
BY DEF Iterate

LEMMA IterateStays ==
    ASSUME NInv, NEW from \in Running, NEW again \in Running, NEW to \in Running \union {"done"},
           Iterate(from, again, to), Iterations(again) = Iterations(from)
    PROVE  /\ Loops'
           /\ \/ stage' = again /\ at' = at + 1 /\ at + 1 < Iterations(from)
              \/ stage' = to /\ at' = 0 /\ at + 1 = Iterations(from)
<1>1. /\ stage = from /\ at \in Nat /\ at < Iterations(from) /\ numValidators \in Nat \ {0}
      /\ UNCHANGED <<run, numValidators>>
  BY NodesAreDirs DEF NInv, Loops, Iterate, process
<1>2. Iterations(from) \in Nat /\ \A s : Iterations(s)' = Iterations(s)
  BY <1>1 DEF Iterations
<1>3. Iterations(to) > 0
  BY <1>1 DEF Iterations
<1>4. \/ stage' = again /\ at' = at + 1 /\ at + 1 < Iterations(from)
      \/ stage' = to /\ at' = 0 /\ at + 1 = Iterations(from)
  BY <1>1, <1>2 DEF Iterate
<1>5. Loops'
  BY <1>1, <1>2, <1>3, <1>4 DEF NInv, Loops, Running, Ended
<1> QED
  BY <1>4, <1>5
----------------------------------------------------------------------------
\* The first loop.

LEMMA StartPreserves ==
    ASSUME NInv, NEW v \in Sizes, NEW flag, NEW list, Start(v, flag, list)
    PROVE  NInv'
<1>1. /\ stage' = "node" /\ at' = 0 /\ run' = run + 1 /\ numValidators' = v
      /\ UNCHANGED <<nodeKey, privKeys, privStates, wallet, seed, gentx, genesis, peers, config, app>>
      /\ v \in 1 .. MaxNodes /\ v \in Nat
  BY MultiNodeAssumption DEF Start, files, configs, keys
<1>2. Loops'
  BY <1>1 DEF NInv, Loops, Running, Ended, Iterations
<1>3. Shapes'
  BY <1>1 DEF NInv, Shapes
<1>4. Gentxs'
  <2>1. \A j : nodeID(j)' = nodeID(j)
    BY <1>1 DEF nodeID
  <2>2. \A r : r \in 0 .. run => r \in 0 .. run + 1 /\ r # run + 1
    BY DEF NInv, Loops
  <2> QED
    BY <1>1, <2>1, <2>2 DEF NInv, Gentxs
<1>5. Prepared'
  BY <1>1 DEF Prepared, Past, First, Later, Nodes
<1>6. Copied' /\ Collecting'
  BY <1>1, Unfinished DEF First
<1> QED
  BY <1>2, <1>3, <1>4, <1>5, <1>6 DEF NInv

\* A step of InitializeNodeValidatorFiles replaces no key.
LEMMA KeysPreserve ==
    ASSUME NInv, Loops', stage \in {"node", "validator", "state"},
           stage' \in {"validator", "state", "key"},
           UNCHANGED <<at, process, wallet, seed, gentx, genesis, peers, config, app>>,
           nodeKey' \in [Dirs -> NodeKeys], nodeKey'[at] > 0,
           \A i \in Dirs : nodeKey[i] > 0 => nodeKey'[i] = nodeKey[i],
           privKeys \subseteq privKeys', privStates \subseteq privStates',
           stage' \in {"state", "key"} => at \in privKeys',
           stage' = "key" => at \in privStates'
    PROVE  NInv'
<1>1. stage \in First /\ stage' \in First /\ UNCHANGED <<at, process>>
  BY DEF First
<1>2. Nodes \subseteq Dirs
  BY NodesAreDirs DEF NInv, Running
<1>3. \A i \in Dirs : nodeKey[i] > 0 => nodeID(i)' = nodeID(i) /\ Own(i)' = Own(i)
  BY <1>1, SameRun DEF nodeID, Own
<1>4. Shapes'
  BY DEF NInv, Shapes
<1>5. Gentxs'
  <2>1. ASSUME NEW d \in Dirs, NEW tx \in gentx[d]
        PROVE  /\ \E j \in Dirs : tx.id = nodeID(j)' /\ nodeKey'[j] > 0
               /\ tx.signer = run /\ run > 0 => tx = Own(tx.id[1])' /\ tx.id[1] \in Nodes
    <3>1. PICK j \in Dirs : tx.id = nodeID(j) /\ nodeKey[j] > 0
      BY DEF NInv, Gentxs
    <3>2. tx.id[1] = j
      BY <3>1 DEF nodeID
    <3> QED
      BY <1>3, <3>1, <3>2 DEF NInv, Gentxs
  <2> QED
    BY <1>1, <2>1, SameRun DEF NInv, Gentxs
<1>6. Prepared'
  <2>1. ASSUME NEW i \in Nodes, i < at
        PROVE  /\ nodeKey'[i] > 0 /\ i \in privKeys' /\ i \in privStates'
               /\ wallet[i] = run /\ seed[i] = run
               /\ Own(i)' \in gentx[i] /\ app[i] = appPorts(i)
    <3>1. \A after : Past(i, after)
      BY <1>1, <2>1 DEF Past
    <3>2. /\ nodeKey[i] > 0 /\ i \in privKeys /\ i \in privStates
          /\ wallet[i] = run /\ seed[i] = run
          /\ Own(i) \in gentx[i] /\ app[i] = appPorts(i)
      BY <3>1 DEF NInv, Prepared
    <3> QED
      BY <1>2, <1>3, <3>2
  <2>2. /\ Nodes' = Nodes
        /\ \A i, after : Past(i, after)' <=> i < at \/ (i = at /\ stage' \in after)
    BY <1>1, SameIteration
  <2>3. /\ wallet' = wallet /\ seed' = seed /\ gentx' = gentx /\ app' = app /\ run' = run
        /\ \A i : appPorts(i)' = appPorts(i)
    BY <1>1, SameRun DEF appPorts
  <2>4. /\ stage' \in First \ {"node", "validator"} => at \in privKeys'
        /\ stage' \in {"key", "seed", "gentx", "app"} => at \in privStates'
        /\ stage' \notin {"seed", "gentx", "app"}
    BY DEF First
  <2> QED
    BY <2>1, <2>2, <2>3, <2>4 DEF Prepared
<1>7. Copied' /\ Collecting'
  BY <1>1, Unfinished
<1> QED
  BY <1>4, <1>5, <1>6, <1>7 DEF NInv

LEMMA NodeKeyPreserves ==
    ASSUME NInv, LoadOrGenNodeKey
    PROVE  NInv'
<1> DEFINE key == IF nodeKey[at] = 0 THEN run ELSE nodeKey[at]
<1>1. /\ stage = "node" /\ stage' = "validator" /\ UNCHANGED <<at, process>>
      /\ nodeKey' = [nodeKey EXCEPT ![at] = key] /\ nodeKey[at] # Torn
      /\ UNCHANGED <<privKeys, privStates, wallet, seed, gentx, genesis, peers, config, app>>
  BY DEF LoadOrGenNodeKey, Within, configs
<1>2. Nodes \subseteq Dirs /\ run > 0 /\ at \in Nodes /\ run \in Nat
  BY <1>1, NodesAreDirs DEF NInv, Loops, Running, Iterations, Nodes
<1>3. key \in NodeKeys /\ key > 0
  <2>1. nodeKey[at] \in Nat
    BY <1>1, <1>2 DEF NInv, Shapes, NodeKeys
  <2> QED
    BY <1>2, <2>1 DEF NodeKeys
<1>4. /\ nodeKey' \in [Dirs -> NodeKeys] /\ nodeKey'[at] > 0
      /\ \A i \in Dirs : nodeKey[i] > 0 => nodeKey'[i] = nodeKey[i]
  BY <1>1, <1>2, <1>3 DEF NInv, Shapes
<1>5. Loops'
  BY <1>1, WithinStays DEF Iterations, LoadOrGenNodeKey, Running, process
<1> QED
  BY <1>1, <1>4, <1>5, KeysPreserve

LEMMA ValidatorFilesPreserve ==
    ASSUME NInv, LoadFilePV \/ GenFilePV \/ SaveLastSignState
    PROVE  NInv'
<1>1. /\ stage \in {"validator", "state"} /\ UNCHANGED <<at, process>>
      /\ UNCHANGED <<nodeKey, wallet, seed, gentx, genesis, peers, config, app>>
      /\ privKeys \subseteq privKeys' /\ privStates \subseteq privStates'
  BY DEF LoadFilePV, GenFilePV, SaveLastSignState, Within, files, keys, configs
<1>2. at \in Nodes /\ Nodes \subseteq Dirs
  BY <1>1, NodesAreDirs DEF NInv, Loops, Running, Iterations, Nodes
<1>3. nodeKey[at] > 0 /\ (stage = "state" => at \in privKeys)
  BY <1>1, <1>2 DEF NInv, Prepared, Past, First
<1>4. /\ stage' \in {"state", "key"} /\ at \in privKeys'
      /\ stage' = "key" => at \in privStates'
  BY <1>1, <1>3 DEF LoadFilePV, GenFilePV, SaveLastSignState, Within, files, keys
<1>5. Loops'
  BY <1>1, WithinStays
  DEF Iterations, LoadFilePV, GenFilePV, SaveLastSignState, Within, Running, process
<1>6. nodeKey' \in [Dirs -> NodeKeys] /\ nodeKey' = nodeKey
  BY <1>1 DEF NInv, Shapes
<1> QED
  BY <1>1, <1>3, <1>4, <1>5, <1>6, KeysPreserve

LEMMA WalletPreserves ==
    ASSUME NInv, GenerateSaveCoinKey
    PROVE  NInv'
<1>1. /\ stage = "key" /\ stage' = "seed" /\ UNCHANGED <<at, process>>
      /\ wallet' = [wallet EXCEPT ![at] = run]
      /\ UNCHANGED <<nodeKey, privKeys, privStates, seed, gentx, genesis, peers, config, app>>
  BY DEF GenerateSaveCoinKey, Within, configs, keys
<1>2. Nodes \subseteq Dirs /\ at \in Nodes
  BY <1>1, NodesAreDirs DEF NInv, Loops, Running, Iterations, Nodes
<1>3. Loops'
  BY <1>1, WithinStays DEF Iterations, GenerateSaveCoinKey, Running, process
<1>4. Shapes'
  <2>1. wallet = [i \in Dirs |-> wallet[i]]
    BY DEF NInv, Shapes
  <2>2. wallet' = [i \in Dirs |-> IF i = at THEN run ELSE wallet[i]]
    BY <1>1, <2>1
  <2>3. wallet' = [i \in Dirs |-> wallet'[i]] /\ DOMAIN wallet' = Dirs
    BY <2>2
  <2> QED
    BY <1>1, <2>3 DEF NInv, Shapes
<1>5. Gentxs'
  BY <1>1, GentxsKept DEF NInv
<1>6. Prepared'
  <2>1. /\ Nodes' = Nodes
        /\ \A i, after : Past(i, after) <=> i < at \/ (i = at /\ "key" \in after)
        /\ \A i, after : Past(i, after)' <=> i < at \/ (i = at /\ "seed" \in after)
    BY <1>1, SameIteration DEF First
  <2>2. \A i \in Nodes : wallet'[i] = IF i = at THEN run ELSE wallet[i]
    BY <1>1, <1>2 DEF NInv, Shapes
  <2>3. run' = run /\ \A i : Own(i)' = Own(i) /\ appPorts(i)' = appPorts(i)
    BY <1>1, SameRun, SameNodes DEF appPorts
  <2> QED
    BY <1>1, <2>1, <2>2, <2>3 DEF NInv, Prepared, First
<1>7. Copied' /\ Collecting'
  BY <1>1, Unfinished DEF First
<1> QED
  BY <1>3, <1>4, <1>5, <1>6, <1>7 DEF NInv

LEMMA SeedPreserves ==
    ASSUME NInv, WriteKeySeed
    PROVE  NInv'
<1>1. /\ stage = "seed" /\ stage' = "gentx" /\ UNCHANGED <<at, process>>
      /\ seed' = [seed EXCEPT ![at] = run]
      /\ UNCHANGED <<nodeKey, privKeys, privStates, wallet, gentx, genesis, peers, config, app>>
  BY DEF WriteKeySeed, Within, configs, keys
<1>2. Nodes \subseteq Dirs /\ at \in Nodes
  BY <1>1, NodesAreDirs DEF NInv, Loops, Running, Iterations, Nodes
<1>3. Loops'
  BY <1>1, WithinStays DEF Iterations, WriteKeySeed, Running, process
<1>4. Shapes'
  <2>1. seed = [i \in Dirs |-> seed[i]]
    BY DEF NInv, Shapes
  <2>2. seed' = [i \in Dirs |-> IF i = at THEN run ELSE seed[i]]
    BY <1>1, <2>1
  <2>3. seed' = [i \in Dirs |-> seed'[i]] /\ DOMAIN seed' = Dirs
    BY <2>2
  <2> QED
    BY <1>1, <2>3 DEF NInv, Shapes
<1>5. Gentxs'
  BY <1>1, GentxsKept DEF NInv
<1>6. Prepared'
  <2>1. /\ Nodes' = Nodes
        /\ \A i, after : Past(i, after) <=> i < at \/ (i = at /\ "seed" \in after)
        /\ \A i, after : Past(i, after)' <=> i < at \/ (i = at /\ "gentx" \in after)
    BY <1>1, SameIteration DEF First
  <2>2. \A i \in Nodes : seed'[i] = IF i = at THEN run ELSE seed[i]
    BY <1>1, <1>2 DEF NInv, Shapes
  <2>3. run' = run /\ \A i : Own(i)' = Own(i) /\ appPorts(i)' = appPorts(i)
    BY <1>1, SameRun, SameNodes DEF appPorts
  <2> QED
    BY <1>1, <2>1, <2>2, <2>3 DEF NInv, Prepared, First
<1>7. Copied' /\ Collecting'
  BY <1>1, Unfinished DEF First
<1> QED
  BY <1>3, <1>4, <1>5, <1>6, <1>7 DEF NInv

LEMMA GentxPreserves ==
    ASSUME NInv, WriteGentx
    PROVE  NInv'
<1>1. /\ stage = "gentx" /\ stage' = "app" /\ UNCHANGED <<at, process>>
      /\ gentx' = [gentx EXCEPT ![at] = Written(gentx[at], Own(at))]
      /\ UNCHANGED <<nodeKey, privKeys, privStates, wallet, seed, genesis, peers, config, app>>
  BY DEF WriteGentx, Within, configs, keys, Own
<1>2. Nodes \subseteq Dirs /\ at \in Nodes /\ run \in 0 .. run
  BY <1>1, NodesAreDirs DEF NInv, Loops, Running, Iterations, Nodes
<1>3. nodeKey[at] > 0
  BY <1>1, <1>2 DEF NInv, Prepared, Past, First
<1>4. Own(at).id = nodeID(at) /\ Own(at).signer = run
  BY DEF Own
<1>5. /\ Gentxs' /\ Own(at) \in gentx'[at]
      /\ \A e \in Dirs : \A t \in gentx[e] : t.id # nodeID(at) => t \in gentx'[e]
  <2>1. Writes(at, at, Own(at))
    BY <1>1, <1>2, <1>3, <1>4 DEF Writes
  <2>2. /\ Gentxs' /\ Own(at) \in gentx'[at]
        /\ \A e \in Dirs : \A t \in gentx[e] : t.id # Own(at).id => t \in gentx'[e]
    BY <1>1, <2>1, GentxWritten DEF NInv
  <2> QED
    BY <1>4, <2>2
<1>6. Loops'
  BY <1>1, WithinStays DEF Iterations, WriteGentx, Running, process
<1>7. Shapes'
  <2>1. Shapes /\ UNCHANGED <<nodeKey, wallet, seed, genesis, peers, config, app>>
    BY <1>1 DEF NInv
  <2>2. gentx = [i \in Dirs |-> gentx[i]]
    BY <2>1 DEF Shapes
  <2>3. gentx' = [i \in Dirs |-> gentx'[i]]
    BY <1>1, <2>2
  <2> QED
    BY <2>1, <2>3 DEF Shapes
<1>8. Prepared'
  <2>1. \A i \in Nodes : Past(i, {"app"})' => Own(i) \in gentx'[i]
    <3> SUFFICES ASSUME NEW i \in Nodes, Past(i, {"app"})', i # at
                 PROVE  Own(i) \in gentx'[i]
      BY <1>5
    <3>1. Past(i, {"app"})
      BY <1>1 DEF Past, First, Later
    <3>2. Own(i) \in gentx[i]
      BY <3>1 DEF NInv, Prepared
    <3>3. Own(i).id # nodeID(at)
      BY DEF Own, nodeID
    <3> QED
      BY <1>2, <1>5, <3>2, <3>3
  <2>2. /\ Nodes' = Nodes
        /\ \A i, after : Past(i, after) <=> i < at \/ (i = at /\ "gentx" \in after)
        /\ \A i, after : Past(i, after)' <=> i < at \/ (i = at /\ "app" \in after)
    BY <1>1, SameIteration DEF First
  <2>3. run' = run /\ \A i : Own(i)' = Own(i) /\ appPorts(i)' = appPorts(i)
    BY <1>1, SameRun, SameNodes DEF appPorts
  <2> QED
    BY <1>1, <2>1, <2>2, <2>3 DEF NInv, Prepared, First
<1>9. Copied' /\ Collecting'
  BY <1>1, Unfinished DEF First
<1> QED
  BY <1>5, <1>6, <1>7, <1>8, <1>9 DEF NInv

LEMMA AppConfigPreserves ==
    ASSUME NInv, WriteAppConfig
    PROVE  NInv'
<1>1. /\ stage = "app" /\ Iterate("app", "node", "genesis") /\ UNCHANGED process
      /\ app' = [app EXCEPT ![at] = appPorts(at)]
      /\ UNCHANGED <<nodeKey, privKeys, privStates, wallet, seed, gentx, genesis, peers, config>>
  BY IterateKeeps DEF WriteAppConfig, keys
<1>2. Nodes \subseteq Dirs /\ at \in Nodes /\ numValidators \in Nat /\ at \in Nat
  BY <1>1, NodesAreDirs DEF NInv, Loops, Running, Iterations, Nodes
<1>3. /\ Loops'
      /\ \/ stage' = "node" /\ at' = at + 1
         \/ stage' = "genesis" /\ at' = 0 /\ at + 1 = numValidators
  BY <1>1, IterateStays DEF Running, Iterations
<1>4. Shapes'
  <2>1. app = [i \in Dirs |-> app[i]]
    BY DEF NInv, Shapes
  <2>2. app' = [i \in Dirs |-> IF i = at THEN appPorts(i) ELSE app[i]]
    BY <1>1, <2>1
  <2>3. app' = [i \in Dirs |-> app'[i]] /\ DOMAIN app' = Dirs
    BY <2>2
  <2> QED
    BY <1>1, <2>3 DEF NInv, Shapes
<1>5. Gentxs'
  BY <1>1, GentxsKept DEF NInv
<1>6. Prepared'
  <2>1. \A i \in Nodes : \A after : Past(i, after)' /\ after \in SUBSET (First \ {"node"}) => i < at \/ i = at
    BY <1>1, <1>2, <1>3 DEF Past, First, Later, Nodes
  <2>2. ASSUME NEW i \in Nodes, i < at \/ i = at
        PROVE  /\ nodeKey[i] > 0 /\ i \in privKeys /\ i \in privStates
               /\ wallet[i] = run /\ seed[i] = run
               /\ Own(i) \in gentx[i] /\ app'[i] = appPorts(i)
    <3>1. Past(i, First \ {"node"}) /\ Past(i, {"seed", "gentx", "app"})
          /\ Past(i, First \ {"node", "validator"}) /\ Past(i, {"key", "seed", "gentx", "app"})
          /\ Past(i, {"gentx", "app"}) /\ Past(i, {"app"}) /\ (i # at => Past(i, {}))
      BY <1>1, <2>2 DEF Past, First
    <3> QED
      BY <1>1, <1>2, <3>1 DEF NInv, Shapes, Prepared
  <2>3. /\ Nodes' = Nodes /\ run' = run
        /\ \A i : Own(i)' = Own(i) /\ appPorts(i)' = appPorts(i)
    BY <1>1, SameRun, SameNodes DEF appPorts
  <2> QED
    BY <1>1, <2>1, <2>2, <2>3 DEF Prepared, First
<1>7. Copied'
  BY <1>3 DEF Copied, Has
<1>8. Collecting'
  BY <1>2, <1>3, SameRun DEF Collecting, Untouched, Finished, Nodes
<1> QED
  BY <1>3, <1>4, <1>5, <1>6, <1>7, <1>8 DEF NInv

----------------------------------------------------------------------------
\* The loops after it.

LEMMA InitGenFilesPreserves ==
    ASSUME NInv, initGenFiles
    PROVE  NInv'
<1>1. /\ stage = "genesis" /\ Iterate("genesis", "genesis", "copying") /\ UNCHANGED process
      /\ genesis' = [genesis EXCEPT ![at] = Empty]
      /\ UNCHANGED <<nodeKey, privKeys, privStates, wallet, seed, gentx, peers, config, app>>
  BY IterateKeeps DEF initGenFiles, configs, keys, Empty
<1>2. Nodes \subseteq Dirs /\ at \in Nodes /\ numValidators \in Nat /\ at \in Nat
  BY <1>1, NodesAreDirs DEF NInv, Loops, Running, Iterations, Nodes
<1>3. /\ Loops'
      /\ \/ stage' = "genesis" /\ at' = at + 1
         \/ stage' = "copying" /\ at' = 0 /\ at + 1 = numValidators
  BY <1>1, IterateStays DEF Running, Iterations
<1>4. /\ genesis' = [i \in Dirs |-> IF i = at THEN Empty ELSE genesis[i]]
      /\ Empty = [accounts |-> Empty.accounts, txs |-> Empty.txs]
  <2>1. genesis = [i \in Dirs |-> genesis[i]] BY Zenon DEF NInv, Shapes
  <2>2. DOMAIN genesis = Dirs BY <2>1, Zenon
  <2>3. genesis' = [i \in Dirs |-> IF i = at THEN Empty ELSE genesis[i]] BY ONLY <1>1, <2>2
  <2>4. Empty = [accounts |-> Empty.accounts, txs |-> Empty.txs] BY DEF Empty
  <2>. QED BY <2>3, <2>4
<1>5. Shapes'
  <2>1. genesis' = [i \in Dirs |-> [accounts |-> genesis'[i].accounts, txs |-> genesis'[i].txs]]
    <3>1. \A i \in Dirs : genesis[i] = [accounts |-> genesis[i].accounts, txs |-> genesis[i].txs]
      BY DEF NInv, Shapes
    <3> HIDE DEF Empty
    <3>2. \A i \in Dirs : genesis'[i] = IF i = at THEN Empty ELSE genesis[i]
      BY <1>4, Zenon
    <3>3. \A i \in Dirs :
              genesis'[i] = [accounts |-> genesis'[i].accounts, txs |-> genesis'[i].txs]
      BY ONLY <1>4, <3>1, <3>2
    <3>4. genesis' = [i \in Dirs |-> genesis'[i]]
      BY <1>4, Zenon
    <3> QED
      BY <3>3, <3>4
  <2>2. Shapes /\ UNCHANGED <<nodeKey, wallet, seed, gentx, peers, config, app>>
    BY <1>1 DEF NInv
  <2> QED
    BY <2>1, <2>2 DEF Shapes
<1>6. Gentxs'
  BY <1>1, GentxsKept DEF NInv
<1>7. Prepared'
  <2>1. \A i \in Nodes : Own(i) \in gentx'[i]
    BY <1>1, AllPrepared DEF NInv, Later
  <2> QED
    BY <1>1, <1>3, <2>1, StaysPrepared DEF NInv, Later
<1>8. Copied'
  <2>1. \A i, j \in Nodes : ~ (i * numValidators + j < 0)
    BY <1>2, NestedLoop DEF Nodes
  <2> QED
    BY <1>1, <1>3, <2>1, SameRun DEF Copied, Has
<1>9. Collecting'
  <2>1. \A i \in Nodes : i < at => genesis[i] = Empty
    BY <1>1 DEF NInv, Collecting, Untouched
  <2>2. \A i \in Nodes : i < at \/ i = at => genesis'[i] = Empty
    BY <1>2, <1>4, <2>1
  <2>3. \A i \in Nodes : Untouched(i)' => i < at \/ i = at
    BY <1>2, <1>3 DEF Untouched, Nodes
  <2>4. \A i \in Nodes : ~ Finished(i)' /\ stage' # "exporting"
    BY <1>3 DEF Finished
  <2> QED
    BY <1>1, <2>2, <2>3, <2>4, SameRun DEF Collecting
<1> QED
  BY <1>3, <1>5, <1>6, <1>7, <1>8, <1>9 DEF NInv

LEMMA CopyPreserves ==
    ASSUME NInv, copyFile
    PROVE  NInv'
<1> DEFINE n == numValidators
           to == CopyTo
           from == CopyFrom
<1>1. /\ stage = "copying" /\ Iterate("copying", "copying", "collecting") /\ UNCHANGED process
      /\ gentx' = IF from = to THEN gentx
                  ELSE [gentx EXCEPT ![to] = Written(gentx[to], OwnGentx(from))]
      /\ UNCHANGED <<nodeKey, privKeys, privStates, wallet, seed, genesis, peers, config, app>>
  BY IterateKeeps DEF copyFile, configs, keys
<1>2. Nodes \subseteq Dirs /\ n \in Nat /\ at \in 0 .. n * n - 1 /\ run \in Nat
  <2>1. Nodes \subseteq Dirs /\ n \in Nat /\ at \in Nat /\ at < Iterations("copying") /\ run \in Nat
    BY <1>1, NodesAreDirs DEF NInv, Loops, Running
  <2> QED
    BY <2>1 DEF Iterations
<1>3. to \in Nodes /\ from \in Nodes
  BY <1>2, NestedIterations DEF CopyTo, CopyFrom, Nodes
<1>4. \A i, j \in Nodes : i * n + j = at => i = to /\ j = from
  BY <1>2, NestedLoop DEF CopyTo, CopyFrom, Nodes
<1>5. /\ Loops'
      /\ \/ stage' = "copying" /\ at' = at + 1
         \/ stage' = "collecting" /\ at' = 0 /\ at + 1 = n * n
  BY <1>1, IterateStays DEF Running, Iterations
<1>6. OwnGentx(from) = Own(from) /\ nodeKey[from] > 0 /\ Own(to) \in gentx[to]
  <2>1. Own(from) \in gentx[from] /\ nodeKey[from] > 0 /\ Own(to) \in gentx[to]
    BY <1>1, <1>3, AllPrepared DEF NInv, Later
  <2>2. Own(from).id = nodeID(from)
    BY DEF Own
  <2>3. \A t \in gentx[from] : t.id = nodeID(from) => t = Own(from)
    BY <1>2, <1>3, <2>1, <2>2 DEF NInv, Gentxs
  <2> QED
    BY <2>1, <2>2, <2>3 DEF OwnGentx
<1> HIDE DEF to, from, n
<1>7. /\ Gentxs' /\ Own(from) \in gentx'[to]
      /\ \A i, j \in Nodes : Own(j) \in gentx[i] => Own(j) \in gentx'[i]
  <2>1. CASE from = to
    BY <1>1, <1>6, <2>1, GentxsKept DEF NInv
  <2>2. CASE from # to
    <3>1. Own(from).id = nodeID(from) /\ Own(from).signer = run
      BY DEF Own
    <3>2. Writes(to, from, Own(from))
      BY <1>1, <1>2, <1>3, <1>6, <2>2, <3>1 DEF Writes
    <3>3. /\ Gentxs' /\ Own(from) \in gentx'[to]
          /\ \A e \in Dirs : \A t \in gentx[e] :
                 t.id # Own(from).id \/ e # to => t \in gentx'[e]
      BY <1>1, <3>2, GentxWritten DEF NInv
    <3>4. \A j \in Nodes : j # from => Own(j).id # Own(from).id
      BY DEF Own, nodeID
    <3> QED
      BY <1>2, <3>3, <3>4
  <2> QED
    BY <2>1, <2>2
<1>8. Shapes'
  <2>1. Shapes /\ UNCHANGED <<nodeKey, wallet, seed, genesis, peers, config, app>>
    BY <1>1 DEF NInv
  <2>2. gentx = [i \in Dirs |-> gentx[i]]
    BY <2>1 DEF Shapes
  <2>3. gentx' = [i \in Dirs |-> gentx'[i]]
    BY <1>1, <2>2
  <2> QED
    BY <2>1, <2>3 DEF Shapes
<1>9. Prepared'
  <2>1. \A i \in Nodes : Own(i) \in gentx'[i]
    BY <1>1, <1>7, AllPrepared DEF NInv, Later
  <2> QED
    BY <1>1, <1>5, <2>1, StaysPrepared DEF NInv, Later
<1>10. Copied'
  <2>1. /\ Nodes' = Nodes /\ numValidators' = n /\ \A j : Own(j)' = Own(j)
    BY <1>1, SameRun, SameNodes DEF n
  <2>2. ASSUME NEW i \in Nodes, NEW j \in Nodes, i * n + j < at + 1
        PROVE  Own(j) \in gentx'[i]
    <3>1. i * n + j \in Int
      BY <1>2, <2>2, NestedLoop DEF Nodes, n
    <3>2. CASE i * n + j = at
      BY <1>4, <1>7, <3>2
    <3>3. CASE i * n + j < at
      BY <1>1, <1>7, <3>3 DEF NInv, Copied, Has, n
    <3> QED
      BY <1>2, <2>2, <3>1, <3>2, <3>3
  <2>3. ASSUME NEW i \in Nodes, NEW j \in Nodes, at + 1 = n * n
        PROVE  i * n + j < at + 1
    BY <1>2, <2>3, NestedLoop DEF Nodes, n
  <2> QED
    BY <1>5, <2>1, <2>2, <2>3 DEF Copied, Has
<1>11. Collecting'
  <2>1. \A i \in Nodes : genesis[i] = Empty
    BY <1>1 DEF NInv, Collecting, Untouched
  <2>2. \A i \in Nodes : ~ Finished(i)' /\ stage' # "exporting"
    BY <1>5 DEF Finished, Nodes
  <2> QED
    BY <1>1, <2>1, <2>2, SameRun DEF Collecting
<1> QED
  BY <1>5, <1>7, <1>8, <1>9, <1>10, <1>11 DEF NInv

\* What a directory collects, if nothing of it is refused.
LEMMA CollectableMade ==
    ASSUME NInv, stage \in {"collecting", "exporting", "done"}, NEW d \in Nodes,
           genesis[d].accounts = Nodes \X {run}, Collectable(d)
    PROVE  gentx[d] = Made
<1>1. d \in Dirs /\ run > 0
  BY NodesAreDirs DEF NInv, Running
<1>2. Made \subseteq gentx[d]
  BY DEF NInv, Copied, Has, Made
<1>3. ASSUME NEW tx \in gentx[d]
      PROVE  tx \in Made
  <2>1. <<tx.id[1], tx.signer>> \in Nodes \X {run}
    BY <1>3 DEF Collectable, Acceptable
  <2>2. tx.signer = run
    BY <2>1
  <2> QED
    BY <1>1, <2>2 DEF NInv, Gentxs, Made
<1> QED
  BY <1>2, <1>3

LEMMA FinalGeneses ==
    ASSUME Shapes, genesis' = [i \in Dirs |-> IF i = at THEN Final ELSE genesis[i]]
    PROVE  genesis' = [i \in Dirs |-> [accounts |-> genesis'[i].accounts, txs |-> genesis'[i].txs]]
<1>1. \A i \in Dirs : genesis[i] = [accounts |-> genesis[i].accounts, txs |-> genesis[i].txs]
  BY DEF Shapes
<1>2. Final = [accounts |-> Final.accounts, txs |-> Final.txs]
  BY DEF Final
<1> HIDE DEF Final
<1>3. ASSUME NEW i \in Dirs
      PROVE  genesis'[i] = [accounts |-> genesis'[i].accounts, txs |-> genesis'[i].txs]
  <2>1. CASE i = at
    BY <1>2, <2>1
  <2>2. CASE i # at
    <3>1. genesis'[i] = genesis[i]
      BY <2>2
    <3> QED
      BY <1>1, <3>1
  <2> QED
    BY <2>1, <2>2
<1>4. genesis' = [i \in Dirs |-> genesis'[i]]
  OBVIOUS
<1> QED
  BY <1>3, <1>4

LEMMA GenAppStatePreserves ==
    ASSUME NInv, GenAppStateFromConfig
    PROVE  NInv'
<1> DEFINE g == [accounts |-> genesis[at].accounts, txs |-> gentx[at]]
<1>1. /\ stage = "collecting" /\ stage' = "exporting" /\ UNCHANGED <<at, process>>
      /\ Collectable(at) /\ Within("collecting", "exporting")
      /\ genesis' = [genesis EXCEPT ![at] = [genesis[at] EXCEPT !.txs = gentx[at]]]
      /\ UNCHANGED <<nodeKey, privKeys, privStates, wallet, seed, gentx, app>>
  BY DEF GenAppStateFromConfig, Within, keys
<1>2. Nodes \subseteq Dirs /\ at \in Nodes /\ numValidators \in Nat /\ at \in Nat /\ 0 \in Nodes
  BY <1>1, NodesAreDirs DEF NInv, Loops, Running, Iterations, Nodes
<1>3. genesis[at] = Empty
  BY <1>1, <1>2 DEF NInv, Collecting, Untouched
<1>4. genesis[at].accounts = Nodes \X {run}
  BY <1>3 DEF Empty
<1>5. gentx[at] = Made
  BY <1>1, <1>2, <1>4, CollectableMade
<1>6. [genesis[at] EXCEPT !.txs = gentx[at]] = Final
  BY <1>3, <1>5 DEF Empty, Final
<1>7. genesis' = [i \in Dirs |-> IF i = at THEN Final ELSE genesis[i]]
  <2>1. genesis = [i \in Dirs |-> genesis[i]]
    BY DEF NInv, Shapes
  <2> QED
    BY <1>1, <1>6, <2>1
<1>8. /\ peers' = [i \in Dirs |-> peers'[i]] /\ config' = [i \in Dirs |-> config'[i]]
      /\ \A i \in Dirs : i # at => peers'[i] = peers[i] /\ config'[i] = config[i]
  <2>1. peers = [i \in Dirs |-> peers[i]] /\ config = [i \in Dirs |-> config[i]]
    BY DEF NInv, Shapes
  <2>2. /\ peers' = [i \in Dirs |-> peers'[i]]
        /\ \A i \in Dirs : i # at => peers'[i] = peers[i]
    BY <2>1 DEF GenAppStateFromConfig
  <2>3. /\ config' = [i \in Dirs |-> config'[i]]
        /\ \A i \in Dirs : i # at => config'[i] = config[i]
    BY <2>1 DEF GenAppStateFromConfig
  <2> QED
    BY <2>2, <2>3
<1>9. Loops'
  BY <1>1, WithinStays DEF Iterations, Running, process
<1>10. Shapes'
  <2>1. genesis' = [i \in Dirs |-> [accounts |-> genesis'[i].accounts, txs |-> genesis'[i].txs]]
    BY <1>7, FinalGeneses DEF NInv
  <2>2. Shapes /\ UNCHANGED <<nodeKey, privKeys, privStates, wallet, seed, gentx, app>>
    BY <1>1 DEF NInv
  <2> QED
    BY <1>8, <2>1, <2>2 DEF Shapes
<1>11. Gentxs'
  BY <1>1, GentxsKept DEF NInv
<1>12. Prepared'
  <2>1. \A i \in Nodes : Own(i) \in gentx'[i]
    BY <1>1, AllPrepared DEF NInv, Later
  <2> QED
    BY <1>1, <2>1, StaysPrepared DEF NInv, Later
<1>13. Copied'
  BY <1>1, SameRun, SameNodes DEF NInv, Copied, Has
<1>14. Collecting'
  <2>1. ASSUME NEW i \in Nodes, i > at
        PROVE  genesis'[i] = Empty
    BY <1>1, <1>2, <1>7, <2>1 DEF NInv, Collecting, Untouched, Nodes
  <2>2. ASSUME NEW i \in Nodes, i < at
        PROVE  /\ genesis'[i] = Final /\ config'[i] = nodePorts(i)
               /\ peers'[i] = {memo(nodeID(j)) : j \in Nodes}
    <3>1. /\ genesis[i] = Final /\ config[i] = nodePorts(i)
          /\ peers[i] = {memo(nodeID(j)) : j \in Nodes}
      BY <1>1, <2>2 DEF NInv, Collecting, Finished
    <3> QED
      BY <1>2, <1>7, <1>8, <2>2, <3>1
  <2>3. at = 0 => genesis'[0] = Final
    BY <1>2, <1>7
  <2>4. /\ Nodes' = Nodes /\ Empty' = Empty /\ Final' = Final
        /\ \A i : nodePorts(i)' = nodePorts(i) /\ nodeID(i)' = nodeID(i)
        /\ \A id : memo(id)' = memo(id)
    BY <1>1, SameRun, SameNodes, MemoIsConstant
  <2>5. \A i \in Nodes : /\ Untouched(i)' <=> i > at
                         /\ Finished(i)' <=> i < at
    BY <1>1 DEF Untouched, Finished
  <2>6. {memo(nodeID(j)) : j \in Nodes}' = {memo(nodeID(j)) : j \in Nodes}
    BY <2>4
  <2> QED
    BY <1>1, <2>1, <2>2, <2>3, <2>4, <2>5, <2>6 DEF Collecting
<1> QED
  BY <1>9, <1>10, <1>11, <1>12, <1>13, <1>14 DEF NInv

LEMMA CollectPreserves ==
    ASSUME NInv, collectGenFiles
    PROVE  NInv'
<1>1. /\ stage = "exporting" /\ Iterate("exporting", "collecting", "done") /\ UNCHANGED process
      /\ genesis' = [genesis EXCEPT ![at] = genesis[0]]
      /\ peers' = [peers EXCEPT ![at] = {memo(nodeID(j)) : j \in Nodes}]
      /\ config' = [config EXCEPT ![at] = nodePorts(at)]
      /\ UNCHANGED <<nodeKey, privKeys, privStates, wallet, seed, gentx, app>>
  BY IterateKeeps DEF collectGenFiles, WriteConfig, keys
<1>2. Nodes \subseteq Dirs /\ at \in Nodes /\ numValidators \in Nat /\ at \in Nat /\ 0 \in Nodes
  BY <1>1, NodesAreDirs DEF NInv, Loops, Running, Iterations, Nodes
<1>3. /\ Loops'
      /\ \/ stage' = "collecting" /\ at' = at + 1
         \/ stage' = "done" /\ at' = 0 /\ at + 1 = numValidators
  BY <1>1, IterateStays DEF Running, Iterations
<1>4. genesis[0] = Final
  <2>1. CASE at = 0
    BY <1>1, <1>2, <2>1 DEF NInv, Collecting
  <2>2. CASE at > 0
    BY <1>1, <1>2, <2>2 DEF NInv, Collecting, Finished
  <2> QED
    BY <1>2, <2>1, <2>2
<1>5. /\ genesis' = [i \in Dirs |-> IF i = at THEN Final ELSE genesis[i]]
      /\ config' = [i \in Dirs |-> IF i = at THEN nodePorts(i) ELSE config[i]]
      /\ peers' = [i \in Dirs |-> IF i = at THEN {memo(nodeID(j)) : j \in Nodes} ELSE peers[i]]
  <2>1. genesis = [i \in Dirs |-> genesis[i]]
    BY DEF NInv, Shapes
  <2>2. genesis' = [i \in Dirs |-> IF i = at THEN Final ELSE genesis[i]]
    BY <1>1, <1>4, <2>1
  <2>3. config' = [i \in Dirs |-> IF i = at THEN nodePorts(i) ELSE config[i]]
    BY <1>1 DEF NInv, Shapes
  <2>4. peers' = [i \in Dirs |-> IF i = at THEN {memo(nodeID(j)) : j \in Nodes} ELSE peers[i]]
    BY <1>1 DEF NInv, Shapes
  <2> QED
    BY <2>2, <2>3, <2>4
<1>6. Shapes'
  <2>2. genesis' = [i \in Dirs |-> [accounts |-> genesis'[i].accounts, txs |-> genesis'[i].txs]]
    BY <1>5, FinalGeneses DEF NInv
  <2>3. peers' = [i \in Dirs |-> peers'[i]] /\ config' = [i \in Dirs |-> config'[i]]
    BY <1>5
  <2>4. Shapes /\ UNCHANGED <<nodeKey, privKeys, privStates, wallet, seed, gentx, app>>
    BY <1>1 DEF NInv
  <2> QED
    BY <2>2, <2>3, <2>4 DEF Shapes
<1>7. Gentxs'
  BY <1>1, GentxsKept DEF NInv
<1>8. Prepared'
  <2>1. \A i \in Nodes : Own(i) \in gentx'[i]
    BY <1>1, AllPrepared DEF NInv, Later
  <2> QED
    BY <1>1, <1>3, <2>1, StaysPrepared DEF NInv, Later
<1>9. Copied'
  BY <1>1, <1>3, SameRun, SameNodes DEF NInv, Copied, Has
<1>10. Collecting'
  <2>1. ASSUME NEW i \in Nodes, i > at
        PROVE  genesis'[i] = Empty
    BY <1>1, <1>2, <1>5, <2>1 DEF NInv, Collecting, Untouched, Nodes
  <2>2. ASSUME NEW i \in Nodes, i < at \/ i = at
        PROVE  /\ genesis'[i] = Final /\ config'[i] = nodePorts(i)
               /\ peers'[i] = {memo(nodeID(j)) : j \in Nodes}
    <3>1. i < at => /\ genesis[i] = Final /\ config[i] = nodePorts(i)
                    /\ peers[i] = {memo(nodeID(j)) : j \in Nodes}
      BY <1>1 DEF NInv, Collecting, Finished
    <3> QED
      BY <1>2, <1>5, <2>2, <3>1
  <2>3. /\ Nodes' = Nodes /\ Empty' = Empty /\ Final' = Final
        /\ \A i : nodePorts(i)' = nodePorts(i) /\ nodeID(i)' = nodeID(i)
        /\ \A id : memo(id)' = memo(id)
    BY <1>1, SameRun, SameNodes, MemoIsConstant
  <2>4. \A i \in Nodes : /\ Untouched(i)' => i > at
                         /\ Finished(i)' => i < at \/ i = at
    BY <1>2, <1>3 DEF Untouched, Finished, Nodes
  <2>5. {memo(nodeID(j)) : j \in Nodes}' = {memo(nodeID(j)) : j \in Nodes}
    BY <2>3
  <2> QED
    BY <1>3, <2>1, <2>2, <2>3, <2>4, <2>5 DEF Collecting
<1> QED
  BY <1>3, <1>6, <1>7, <1>8, <1>9, <1>10 DEF NInv

----------------------------------------------------------------------------
\* Refusals, errors and crashes.

LEMMA EndedPreserves ==
    ASSUME NInv, stage' \in {"refused", "failed"}, UNCHANGED <<at, process>>, Shapes', Gentxs'
    PROVE  NInv'
<1>1. Loops'
  BY SameRun DEF NInv, Loops, Running, Ended
<1> QED
  BY <1>1, Stopped DEF NInv

LEMMA FailRemovingPreserves ==
    ASSUME NInv, FailRemoving
    PROVE  NInv'
<1>1. /\ stage' = "failed" /\ UNCHANGED <<at, process>>
      /\ nodeKey' = NoFile /\ wallet' = NoFile /\ seed' = NoFile
      /\ gentx' = NoFiles /\ peers' = NoFiles /\ genesis' = NoGenesis
      /\ config' = NoConfig /\ app' = NoApp
  BY DEF FailRemoving
<1>2. Shapes'
  BY <1>1 DEF Shapes, NodeKeys, NoFile, NoFiles, NoGenesis, NoConfig, NoApp
<1>3. Gentxs'
  BY <1>1 DEF Gentxs, NoFiles
<1> QED
  BY <1>1, <1>2, <1>3, EndedPreserves

LEMMA FailKeepingPreserves ==
    ASSUME NInv, FailKeeping \/ Refuse \/ ExitInLoadFilePV
    PROVE  NInv'
<1>1. /\ stage' \in {"refused", "failed"} /\ UNCHANGED <<at, process>>
      /\ UNCHANGED <<nodeKey, privKeys, privStates, wallet, seed, gentx, genesis, peers, config, app>>
  BY DEF FailKeeping, Refuse, ExitInLoadFilePV, files, configs, keys
<1>2. Shapes' /\ Gentxs'
  BY <1>1, GentxsKept DEF NInv, Shapes
<1> QED
  BY <1>1, <1>2, EndedPreserves

LEMMA FailWritingNodeKeyPreserves ==
    ASSUME NInv, FailWritingNodeKey
    PROVE  NInv'
<1>1. /\ stage' = "failed" /\ UNCHANGED <<at, process>> /\ nodeKey[at] = 0
      /\ nodeKey' = [nodeKey EXCEPT ![at] = Torn]
      /\ UNCHANGED <<wallet, seed, gentx, genesis, peers, config, app>>
  BY DEF FailWritingNodeKey, configs
<1>2. nodeKey' \in [Dirs -> NodeKeys] /\ \A i \in Dirs : nodeKey[i] > 0 => nodeKey'[i] = nodeKey[i]
  <2>1. nodeKey \in [Dirs -> NodeKeys]
    BY DEF NInv, Shapes
  <2>2. nodeKey' \in [Dirs -> NodeKeys]
    <3>1. Torn \in NodeKeys
      BY DEF NodeKeys
    <3> QED
      BY <1>1, <2>1, <3>1
  <2>3. ASSUME NEW i \in Dirs, nodeKey[i] > 0
        PROVE  nodeKey'[i] = nodeKey[i]
    <3>1. i # at
      BY <1>1, <2>3
    <3> QED
      BY <1>1, <2>1, <3>1
  <2> QED
    BY <2>2, <2>3
<1>3. Shapes'
  BY <1>1, <1>2 DEF NInv, Shapes
<1>4. \A i \in Dirs : nodeKey[i] > 0 => nodeID(i)' = nodeID(i) /\ Own(i)' = Own(i)
  BY <1>1, <1>2, SameRun DEF nodeID, Own
<1>5. Gentxs'
  <2>1. ASSUME NEW d \in Dirs, NEW tx \in gentx[d]
        PROVE  /\ \E j \in Dirs : tx.id = nodeID(j)' /\ nodeKey'[j] > 0
               /\ tx.signer = run /\ run > 0 => tx = Own(tx.id[1])' /\ tx.id[1] \in Nodes
    <3>1. PICK j \in Dirs : tx.id = nodeID(j) /\ nodeKey[j] > 0
      BY DEF NInv, Gentxs
    <3>2. tx.id[1] = j
      BY <3>1 DEF nodeID
    <3> QED
      BY <1>2, <1>4, <3>1, <3>2 DEF NInv, Gentxs
  <2> QED
    BY <1>1, <2>1, SameRun DEF NInv, Gentxs
<1> QED
  BY <1>1, <1>3, <1>5, EndedPreserves

LEMMA FailExportingPreserves ==
    ASSUME NInv, FailExporting
    PROVE  NInv'
<1>1. /\ stage' = "failed" /\ UNCHANGED <<at, process>>
      /\ UNCHANGED <<nodeKey, privKeys, privStates, wallet, seed, gentx, genesis, app>>
      /\ peers' = [peers EXCEPT ![at] = {memo(nodeID(j)) : j \in Nodes}]
      /\ config' = [config EXCEPT ![at] = nodePorts(at)]
  BY DEF FailExporting, WriteConfig, keys
<1>2. peers' = [i \in Dirs |-> peers'[i]] /\ config' = [i \in Dirs |-> config'[i]]
  <2>1. peers = [i \in Dirs |-> peers[i]] /\ config = [i \in Dirs |-> config[i]]
    BY DEF NInv, Shapes
  <2>2. peers' = [i \in Dirs |-> peers'[i]]
    BY <1>1, <2>1
  <2>3. config' = [i \in Dirs |-> config'[i]]
    BY <1>1, <2>1
  <2> QED
    BY <2>2, <2>3
<1>3. Shapes' /\ Gentxs'
  BY <1>1, <1>2, GentxsKept DEF NInv, Shapes
<1> QED
  BY <1>1, <1>3, EndedPreserves

LEMMA FailCopyingPreserves ==
    ASSUME NInv, FailCopying
    PROVE  NInv'
<1> DEFINE tx == [id |-> nodeID(CopyFrom), signer |-> 0, stake |-> 0]
<1>1. /\ stage = "copying" /\ stage' = "failed" /\ UNCHANGED <<at, process>>
      /\ UNCHANGED <<nodeKey, privKeys, privStates, wallet, seed, genesis, peers, config, app>>
      /\ gentx' = [gentx EXCEPT ![CopyTo] = Written(gentx[CopyTo], tx)]
  BY DEF FailCopying, configs, keys
<1>2. Nodes \subseteq Dirs /\ numValidators \in Nat /\ run > 0 /\ run \in Nat
      /\ at \in 0 .. numValidators * numValidators - 1
  <2>1. Nodes \subseteq Dirs /\ numValidators \in Nat /\ at \in Nat /\ at < Iterations("copying")
        /\ run > 0 /\ run \in Nat
    BY <1>1, NodesAreDirs DEF NInv, Loops, Running
  <2> QED
    BY <2>1 DEF Iterations
<1>3. CopyTo \in Nodes /\ CopyFrom \in Nodes
  BY <1>2, NestedIterations DEF CopyTo, CopyFrom, Nodes
<1>4. nodeKey[CopyFrom] > 0
  BY <1>1, <1>3, AllPrepared DEF NInv, Later
<1>5. tx.id = nodeID(CopyFrom) /\ tx.signer = 0
  OBVIOUS
<1>6. Writes(CopyTo, CopyFrom, tx)
  <2> HIDE DEF tx
  <2> QED
    BY <1>1, <1>2, <1>3, <1>4, <1>5 DEF Writes
<1>7. Gentxs'
  BY <1>1, <1>6, GentxWritten DEF NInv
<1>8. Shapes'
  BY <1>1 DEF NInv, Shapes
<1> QED
  BY <1>1, <1>7, <1>8, EndedPreserves

LEMMA NInvInit == Init => NInv
<1> SUFFICES ASSUME Init PROVE NInv
  OBVIOUS
<1>1. Loops
  BY DEF Init, Loops, Running, Ended
<1>2. Shapes
  BY DEF Init, Shapes, NodeKeys, NoFile, NoFiles, NoGenesis, NoConfig, NoApp
<1>3. Gentxs
  BY DEF Init, Gentxs, NoFiles
<1>4. Prepared /\ Copied /\ Collecting
  BY DEF Init, Prepared, Past, First, Later, Copied, Has, Collecting, Untouched, Finished
<1> QED
  BY <1>1, <1>2, <1>3, <1>4 DEF NInv

LEMMA NInvUnchanged == ASSUME NInv, UNCHANGED vars PROVE NInv'
<1>1. /\ UNCHANGED <<stage, at, process, nodeKey, privKeys, privStates, wallet, seed>>
      /\ UNCHANGED <<gentx, genesis, peers, config, app>>
      /\ UNCHANGED <<run, numValidators, stakeFlag, portsFlag>>
  BY DEF vars, files, configs, keys, process
<1>2. Loops' /\ Shapes'
  BY <1>1 DEF NInv, Loops, Iterations, Shapes
<1>3. Gentxs'
  BY <1>1, GentxsKept DEF NInv
<1>4. Prepared' /\ Copied'
  BY <1>1, SameRun, SameNodes DEF NInv, Prepared, Past, Copied, Has, appPorts
<1>5. Collecting'
  <2>1. {memo(nodeID(j)) : j \in Nodes}' = {memo(nodeID(j)) : j \in Nodes}
    BY <1>1, SameRun, SameNodes, MemoIsConstant
  <2> QED
    BY <1>1, <2>1, SameRun, SameNodes DEF NInv, Collecting, Untouched, Finished
<1> QED
  BY <1>2, <1>3, <1>4, <1>5 DEF NInv

LEMMA NInvNext == NInv /\ [Next]_vars => NInv'
<1> SUFFICES ASSUME NInv, [Next]_vars PROVE NInv'
  OBVIOUS
<1>1. CASE initTestnetFiles
  BY <1>1, NodeKeyPreserves, ValidatorFilesPreserve, WalletPreserves, SeedPreserves,
     GentxPreserves, AppConfigPreserves,
     InitGenFilesPreserves, CopyPreserves, GenAppStatePreserves, CollectPreserves,
     FailKeepingPreserves DEF initTestnetFiles
<1>2. CASE \E v \in Sizes, flag \in StakeFlags, list \in PortLists : Start(v, flag, list)
  BY <1>2, StartPreserves
<1>3. CASE FailRemoving \/ FailKeeping \/ FailWritingNodeKey \/ FailCopying \/ FailExporting
  BY <1>3, FailRemovingPreserves, FailKeepingPreserves, FailWritingNodeKeyPreserves,
     FailCopyingPreserves, FailExportingPreserves
<1>4. CASE UNCHANGED vars
  BY <1>4, NInvUnchanged
<1> QED
  BY <1>1, <1>2, <1>3, <1>4 DEF Next

LEMMA NInvAlways == Spec => []NInv
<1>. QED
  BY NInvInit, NInvNext, PTL DEF Spec

----------------------------------------------------------------------------
\* What the invariant says of an invocation that ends.

\* A command that succeeds leaves one complete network: every directory has the
\* genesis with the gentx of each node and of nobody else, the peers are the nodes
\* where they listen, and each mnemonic is that of the key that signed, for any
\* number of nodes and whatever earlier invocations have left.
THEOREM NetworksAreComplete == Spec => []Complete
<1>1. NInv => Complete
  <2> SUFFICES ASSUME NInv, stage = "done", NEW i \in Nodes
               PROVE  /\ genesis[i] = Final
                      /\ \A j \in Nodes : [id |-> nodeID(j), port |-> config[j].p2p] \in peers[i]
                      /\ {peer.id : peer \in peers[i]} = {nodeID(j) : j \in Nodes}
                      /\ wallet[i] = run /\ seed[i] = run
                      /\ nodeKey[i] > 0 /\ i \in privKeys /\ i \in privStates
    BY DEF Complete, Final, Made, Own
  <2>1. \A j \in Nodes : /\ genesis[j] = Final /\ config[j] = nodePorts(j)
                         /\ peers[j] = {memo(nodeID(k)) : k \in Nodes}
    BY DEF NInv, Collecting, Finished
  <2>2. /\ wallet[i] = run /\ seed[i] = run
        /\ nodeKey[i] > 0 /\ i \in privKeys /\ i \in privStates
    BY AllPrepared DEF NInv, Later
  <2>3. \A j \in Nodes : memo(nodeID(j)) = [id |-> nodeID(j), port |-> config[j].p2p]
    <3> SUFFICES ASSUME NEW j \in Nodes
                 PROVE  memo(nodeID(j)) = [id |-> nodeID(j), port |-> config[j].p2p]
      OBVIOUS
    <3>1. nodeID(j)[1] = j
      BY DEF nodeID
    <3>2. config[j] = nodePorts(j)
      BY <2>1
    <3>3. nodePorts(j).p2p = p2pPort(j)
      BY DEF nodePorts
    <3> QED
      BY <3>1, <3>2, <3>3 DEF memo
  <2>4. \A j \in Nodes : memo(nodeID(j)).id = nodeID(j)
    BY DEF memo
  <2> QED
    BY <2>1, <2>2, <2>3, <2>4
<1>. QED
  BY <1>1, NInvAlways, PTL

\* A directory that is accepted collects the same state as the first one.
THEOREM StatesAreTheSame == Spec => []SameAppState
<1>1. NInv => SameAppState
  <2> SUFFICES ASSUME NInv, stage = "collecting", NEW i \in Nodes, Collectable(i), Collectable(0)
               PROVE  gentx[i] = gentx[0]
    BY DEF SameAppState
  <2>1. 0 \in Nodes /\ \A d \in Nodes : d \in Nat /\ at \in Nat
    BY NodesAreDirs DEF NInv, Loops, Running, Nodes
  <2>2. \A d \in Nodes : genesis[d].accounts = Nodes \X {run}
    BY <2>1 DEF NInv, Collecting, Untouched, Finished, Empty, Final
  <2> QED
    BY <2>1, <2>2, CollectableMade
<1>. QED
  BY <1>1, NInvAlways, PTL

----------------------------------------------------------------------------
\* Refusals.

LEMMA RefuseForAReason ==
    ASSUME NInv, Refuse
    PROVE  RefusedForAReason'
<1>1. /\ stage = "collecting" /\ ~ Collectable(at)
      /\ UNCHANGED <<process, nodeKey, gentx>>
  BY DEF Refuse, files, keys
<1>2. Nodes \subseteq Dirs /\ at \in Nodes /\ \A i \in Nodes : i \in Nat
  BY <1>1, NodesAreDirs DEF NInv, Loops, Running, Iterations, Nodes
<1>3. genesis[at].accounts = Nodes \X {run}
  BY <1>1, <1>2 DEF NInv, Collecting, Untouched, Empty, Nodes
<1>4. PICK tx \in gentx[at] : ~ Acceptable(tx, genesis[at])
  BY <1>1 DEF Collectable
<1>5. PICK j \in Dirs : tx.id = nodeID(j)
  BY <1>2, <1>4 DEF NInv, Gentxs
<1>6. tx.id[1] = j
  BY <1>5 DEF nodeID
<1>7. CASE j \notin Nodes
  BY <1>1, <1>2, <1>4, <1>6, <1>7, SameRun DEF RefusedForAReason
<1>8. CASE j \in Nodes
  <2>1. Own(j) \in gentx[at] /\ Own(j).id = nodeID(j)
    BY <1>1, <1>2, <1>8 DEF NInv, Copied, Has, Own
  <2>2. tx = Own(j)
    BY <1>2, <1>4, <1>5, <2>1 DEF NInv, Gentxs
  <2>3. tx.signer = run /\ tx.stake = Stake(j)
    BY <2>2 DEF Own
  <2>4. ~ Affordable(Stake(j))
    BY <1>3, <1>4, <1>6, <1>8, <2>3 DEF Acceptable
  <2>5. Affordable(Stake(j))' = Affordable(Stake(j))
    BY <1>1, SameRun DEF Affordable
  <2> QED
    BY <1>1, <1>8, <2>4, <2>5, SameRun DEF RefusedForAReason
<1> QED
  BY <1>7, <1>8

LEMMA ExitForAReason ==
    ASSUME NInv, ExitInLoadFilePV
    PROVE  RefusedForAReason'
<1>1. /\ stage = "validator" /\ at \in privKeys \ privStates
      /\ UNCHANGED <<at, process, privKeys, privStates>>
  BY DEF ExitInLoadFilePV, files, keys
<1>2. at \in Nodes
  BY <1>1, NodesAreDirs DEF NInv, Loops, Running, Iterations, Nodes
<1> QED
  BY <1>1, <1>2, SameRun DEF RefusedForAReason

\* The command is refused only for a stake that no account can pay, in directories
\* that hold the gentx of a node which this network does not have, or by a validator
\* key without its state, which a process stopped between the two files leaves:
\* starting it again repairs whatever else a failed invocation has left.
THEOREM RefusalsHaveAReason == Spec => []RefusedForAReason
<1>1. Init => RefusedForAReason
  BY DEF Init, RefusedForAReason
<1>2. NInv /\ RefusedForAReason /\ [Next]_vars => RefusedForAReason'
  <2> SUFFICES ASSUME NInv, RefusedForAReason, [Next]_vars
               PROVE  RefusedForAReason'
    OBVIOUS
  <2>1. CASE Refuse
    BY <2>1, RefuseForAReason
  <2>2. CASE stage' # "refused"
    BY <2>2 DEF RefusedForAReason
  <2>3. CASE UNCHANGED vars
    <3>1. UNCHANGED <<stage, at, process, gentx, privKeys, privStates>>
      BY <2>3 DEF vars, files, keys
    <3> QED
      BY <3>1, SameRun DEF RefusedForAReason
  <2>4. CASE ExitInLoadFilePV
    BY <2>4, ExitForAReason
  <2>5. Refuse \/ ExitInLoadFilePV \/ stage' # "refused" \/ UNCHANGED vars
    BY DEF Next, initTestnetFiles, Start, LoadOrGenNodeKey, LoadFilePV, GenFilePV,
       SaveLastSignState, GenerateSaveCoinKey, WriteKeySeed, WriteGentx, WriteAppConfig,
       initGenFiles, copyFile, GenAppStateFromConfig, collectGenFiles, Within, Iterate,
       FailRemoving, FailKeeping, FailWritingNodeKey, FailCopying, FailExporting
  <2> QED
    BY <2>1, <2>2, <2>3, <2>4, <2>5
<1>. QED
  BY <1>1, <1>2, NInvAlways, PTL DEF Spec

----------------------------------------------------------------------------
\* Ports.

Indices == 0 .. 1316

\* The ports of node i that the command chooses.
PeersPort(i)      == 26656 - 3 * i
RpcPort(i)        == 26657 - 3 * i
ProxyPort(i)      == 26658 - 3 * i
PrometheusPort(i) == 26660 + i
GrpcPort(i)       == 9090 - 2 * i
ApiPort(i)        == 1317 - i

Listens(i, service, port) ==
    \/ service = "p2p" /\ port = PeersPort(i)
    \/ service = "rpc" /\ port = RpcPort(i)
    \/ service = "proxyApp" /\ port = ProxyPort(i)
    \/ service = "prometheus" /\ port = PrometheusPort(i)
    \/ service = "grpc" /\ port = GrpcPort(i)
    \/ service = "api" /\ port = ApiPort(i)
    \/ service = "pprof" /\ port = pprofPort

LEMMA PortsAreNumbers ==
    ASSUME NEW i \in Indices
    PROVE  /\ IsPort(PeersPort(i)) /\ IsPort(RpcPort(i)) /\ IsPort(ProxyPort(i))
           /\ IsPort(PrometheusPort(i)) /\ IsPort(GrpcPort(i)) /\ IsPort(ApiPort(i))
           /\ IsPort(pprofPort)
BY DEF Indices, IsPort, PeersPort, RpcPort, ProxyPort, PrometheusPort, GrpcPort, ApiPort, pprofPort

LEMMA PortsExist ==
    ASSUME NEW i \in Indices, NEW a, NEW x, Listens(i, a, x)
    PROVE  IsPort(x)
BY PortsAreNumbers DEF Listens

\* A service has another port at another node.
LEMMA OneService ==
    ASSUME NEW i \in Indices, NEW j \in Indices, i # j
    PROVE  /\ PeersPort(i) # PeersPort(j) /\ RpcPort(i) # RpcPort(j) /\ ProxyPort(i) # ProxyPort(j)
           /\ PrometheusPort(i) # PrometheusPort(j)
           /\ GrpcPort(i) # GrpcPort(j) /\ ApiPort(i) # ApiPort(j)
BY DEF Indices, PeersPort, RpcPort, ProxyPort, PrometheusPort, GrpcPort, ApiPort

\* Ports that count down in steps of three from three neighbours never meet.
LEMMA StepsOfThree ==
    ASSUME NEW i \in Indices, NEW j \in Indices
    PROVE  /\ PeersPort(i) # RpcPort(j) /\ PeersPort(i) # ProxyPort(j)
           /\ RpcPort(i) # ProxyPort(j)
BY DEF Indices, PeersPort, RpcPort, ProxyPort

\* The others keep to ranges of their own.
LEMMA RangesApart ==
    ASSUME NEW i \in Indices, NEW j \in Indices
    PROVE  /\ PeersPort(i) # PrometheusPort(j) /\ PeersPort(i) # GrpcPort(j)
           /\ PeersPort(i) # ApiPort(j)
           /\ RpcPort(i) # PrometheusPort(j) /\ RpcPort(i) # GrpcPort(j)
           /\ RpcPort(i) # ApiPort(j)
           /\ ProxyPort(i) # PrometheusPort(j) /\ ProxyPort(i) # GrpcPort(j)
           /\ ProxyPort(i) # ApiPort(j)
           /\ PrometheusPort(i) # GrpcPort(j) /\ PrometheusPort(i) # ApiPort(j)
           /\ GrpcPort(i) # ApiPort(j)
BY DEF Indices, PeersPort, RpcPort, ProxyPort, PrometheusPort, GrpcPort, ApiPort

\* The profiler's is between those of gRPC and of the API.
LEMMA ProfilerApart ==
    ASSUME NEW i \in Indices
    PROVE  /\ pprofPort # PeersPort(i) /\ pprofPort # RpcPort(i) /\ pprofPort # ProxyPort(i)
           /\ pprofPort # PrometheusPort(i) /\ pprofPort # GrpcPort(i) /\ pprofPort # ApiPort(i)
<1>1. i \in Int /\ 0 <= i /\ i <= 1316
  BY DEF Indices
<1>2. pprofPort # PeersPort(i) /\ pprofPort # RpcPort(i) /\ pprofPort # ProxyPort(i)
  BY <1>1 DEF PeersPort, RpcPort, ProxyPort, pprofPort
<1>3. pprofPort # PrometheusPort(i) /\ pprofPort # GrpcPort(i) /\ pprofPort # ApiPort(i)
  BY <1>1 DEF PrometheusPort, GrpcPort, ApiPort, pprofPort
<1> QED
  BY <1>2, <1>3

LEMMA PortsDiffer ==
    ASSUME NEW i \in Indices, NEW j \in Indices, NEW a, NEW b, NEW x, NEW y,
           Listens(i, a, x), Listens(j, b, y), i # j \/ a # b, a # "pprof" \/ b # "pprof"
    PROVE  x # y
<1>1. CASE a = "pprof" \/ b = "pprof"
  BY <1>1, ProfilerApart DEF Listens
<1>2. CASE a = b /\ a # "pprof"
  BY <1>2, OneService DEF Listens
<1>3. CASE a # b /\ a # "pprof" /\ b # "pprof"
  BY <1>3, StepsOfThree, RangesApart DEF Listens
<1> QED
  BY <1>1, <1>2, <1>3

LEMMA NodesListen ==
    ASSUME NInv, stage = "done", NEW i \in Nodes, NEW a \in Services
    PROVE  Listens(i, a, Port(i, a))
<1>1. config[i] = nodePorts(i)
  BY DEF NInv, Collecting, Finished
<1>2. app[i] = appPorts(i)
  BY AllPrepared DEF NInv, Later
<1>3. CASE a \in {"p2p", "proxyApp", "prometheus", "pprof"}
  BY <1>1, <1>3 DEF Port, Listens, nodePorts, p2pPort, PeersPort, ProxyPort, PrometheusPort
<1>4. CASE a \in {"grpc", "api"}
  BY <1>2, <1>4 DEF Port, Listens, appPorts, GrpcPort, ApiPort
<1>5. CASE a = "rpc" /\ portsFlag = <<>>
  BY <1>1, <1>5 DEF Port, Listens, nodePorts, rpcPort, RpcPort
<1>6. a \in {"p2p", "proxyApp", "prometheus", "pprof", "grpc", "api"} \/ (a = "rpc" /\ portsFlag = <<>>)
  BY DEF Services
<1> QED
  BY <1>3, <1>4, <1>5, <1>6

\* Up to 1317 nodes, every port is one, and no two services of the network listen
\* on the same port unless both are profilers, which all have the one port of the
\* command's own configuration: that many --v may ask for before the API has none left.
THEOREM NodesListenApart ==
    ASSUME MaxNodes <= 1317
    PROVE  Spec => []ListensApart
<1>1. NInv => ListensApart
  <2> SUFFICES ASSUME NInv, stage = "done", NEW i \in Nodes, NEW j \in Nodes,
                      NEW a \in Services, NEW b \in Services
               PROVE  /\ IsPort(Port(i, a))
                      /\ <<i, a>> # <<j, b>> /\ Port(i, a) = Port(j, b) => {a, b} = {"pprof"}
    BY DEF ListensApart
  <2>1. i \in Indices /\ j \in Indices
    BY MultiNodeAssumption DEF NInv, Loops, Nodes, Indices
  <2>2. Listens(i, a, Port(i, a)) /\ Listens(j, b, Port(j, b))
    BY NodesListen
  <2>3. IsPort(Port(i, a))
    BY <2>1, <2>2, PortsExist
  <2>4. ASSUME i # j \/ a # b, a # "pprof" \/ b # "pprof"
        PROVE  Port(i, a) # Port(j, b)
    BY ONLY <2>1, <2>2, <2>4, PortsDiffer
  <2>5. <<i, a>> # <<j, b>> => i # j \/ a # b
    OBVIOUS
  <2>6. ~ (a # "pprof" \/ b # "pprof") => {a, b} = {"pprof"}
    OBVIOUS
  <2> QED
    BY <2>3, <2>4, <2>5, <2>6
<1>. QED
  BY <1>1, NInvAlways, PTL

----------------------------------------------------------------------------
(* Types.  Numbers is a recursive function, for which the prover knows an   *)
(* equation only where there is a function that meets it.                   *)

LEMMA NatSteps ==
    ASSUME NEW A, 0 \in A, \A n \in Nat : n \in A => n + 1 \in A
    PROVE  \A n \in Nat : n \in A
<1> DEFINE T == Nat \ A
           R == OpToRel(<, Nat)
<1>1. SUFFICES ASSUME T # {} PROVE FALSE
  OBVIOUS
<1>2. \A m, n \in Nat : <<m, n>> \in R <=> m < n
  <2>1. R = {ss \in Nat \X Nat : ss[1] < ss[2]}
    BY DEF OpToRel
  <2> HIDE DEF R
  <2> QED
    BY <2>1
<1>3. IsWellFoundedOn(R, Nat)
  BY NatLessThanWellFounded
<1> HIDE DEF R
<1>4. PICK n \in T : \A m \in T : ~ (<<m, n>> \in R)
  BY <1>1, <1>3, WFMin
<1>5. n \in Nat \ {0} /\ n \notin A
  OBVIOUS
<1>6. n - 1 \in Nat
  BY <1>5
<1>7. n - 1 \in A
  <2>1. <<n - 1, n>> \in R
    BY <1>2, <1>5, <1>6
  <2>2. n - 1 \notin T
    BY <1>4, <2>1
  <2> QED
    BY <1>6, <2>2
<1>8. (n - 1) + 1 \in A
  BY <1>6, <1>7
<1> QED
  BY <1>5, <1>8

\* The function that Numbers computes.
Selected(flag, f, k) ==
    IF k = 0 THEN <<>>
    ELSE IF flag[k] = NotANumber THEN f[k - 1] ELSE Append(f[k - 1], flag[k])

Selects(flag, f, n) == f = [k \in 0 .. n |-> Selected(flag, f, k)]

LEMMA SelectionExists ==
    ASSUME NEW flag, NEW n \in Nat
    PROVE  \E f : Selects(flag, f, n)
<1> DEFINE A == {m \in Nat : \E f : Selects(flag, f, m)}
<1>1. 0 \in A
  <2> DEFINE f == [k \in 0 .. 0 |-> <<>>]
  <2>1. f = [k \in 0 .. 0 |-> Selected(flag, f, k)]
    BY DEF Selected
  <2> HIDE DEF f
  <2> QED
    BY <2>1 DEF Selects
<1>2. ASSUME NEW m \in Nat, m \in A
      PROVE  m + 1 \in A
  <2>1. PICK f : Selects(flag, f, m)
    BY <1>2
  <2> DEFINE g == [k \in 0 .. m + 1 |-> IF k <= m THEN f[k] ELSE Selected(flag, f, k)]
  <2>2. ASSUME NEW k \in 0 .. m + 1
        PROVE  g[k] = Selected(flag, g, k)
    <3>1. k # 0 => k - 1 \in 0 .. m + 1 /\ k - 1 <= m
      OBVIOUS
    <3>2. k # 0 => g[k - 1] = f[k - 1]
      BY <3>1
    <3>3. Selected(flag, g, k) = Selected(flag, f, k)
      BY <3>2 DEF Selected
    <3>4. \A j \in 0 .. m : f[j] = Selected(flag, f, j)
      BY <2>1, Zenon DEF Selects
    <3>5. k <= m => k \in 0 .. m
      OBVIOUS
    <3> QED
      BY <3>3, <3>4, <3>5
  <2>3. Selects(flag, g, m + 1)
    BY <2>2 DEF Selects
  <2> HIDE DEF g
  <2> QED
    BY <2>3
<1> HIDE DEF A
<1>3. n \in A
  BY <1>1, <1>2, NatSteps
<1> QED
  BY <1>3 DEF A

LEMMA NumbersUnfold ==
    ASSUME NEW flag
    PROVE  Numbers(flag) = (CHOOSE f : Selects(flag, f, Len(flag)))[Len(flag)]
BY DEF Numbers, Selects, Selected

\* What is left of a list of amounts is numbers.
LEMMA NumbersAreNumbers ==
    ASSUME NEW flag \in Seq(Nat \union {NotANumber})
    PROVE  Numbers(flag) \in Seq(Nat)
<1> DEFINE f == CHOOSE g : Selects(flag, g, Len(flag))
           A == {k \in Nat : k <= Len(flag) => f[k] \in Seq(Nat)}
<1>1. Len(flag) \in Nat
  OBVIOUS
<1>2. Selects(flag, f, Len(flag))
  BY <1>1, SelectionExists
<1> HIDE DEF f
<1>3. \A k \in 0 .. Len(flag) : f[k] = Selected(flag, f, k)
  BY <1>2, Zenon DEF Selects
<1>4. 0 \in A
  <2>1. 0 \in 0 .. Len(flag)
    BY <1>1
  <2>2. f[0] = <<>>
    BY <1>3, <2>1 DEF Selected
  <2>3. f[0] \in Seq(Nat)
    <3>1. <<>> \in Seq(Nat)
      OBVIOUS
    <3> QED
      BY <2>2, <3>1, Zenon
  <2> QED
    BY <2>3
<1>5. ASSUME NEW k \in Nat, k \in A
      PROVE  k + 1 \in A
  <2> SUFFICES ASSUME k + 1 <= Len(flag)
               PROVE  f[k + 1] \in Seq(Nat)
    OBVIOUS
  <2>1. k + 1 \in 1 .. Len(flag) /\ k + 1 \in 0 .. Len(flag) /\ k + 1 # 0 /\ (k + 1) - 1 = k
    BY <1>1
  <2>2. f[k] \in Seq(Nat)
    BY <1>1, <1>5
  <2>3. f[k + 1] = IF flag[k + 1] = NotANumber THEN f[k] ELSE Append(f[k], flag[k + 1])
    BY <1>3, <2>1 DEF Selected
  <2>4. flag[k + 1] \in Nat \union {NotANumber}
    BY <2>1
  <2> QED
    BY <2>2, <2>3, <2>4
<1> HIDE DEF A
<1>6. Len(flag) \in A
  BY <1>1, <1>4, <1>5, NatSteps
<1> QED
  BY <1>1, <1>6, NumbersUnfold DEF A, f

\* The files of one directory.
NodeKeyOK(key)    == key \in {Torn} \union (0 .. Invocations)
KeysOK(key)       == key \in 0 .. Invocations
GentxsOK(txs)     == txs \subseteq Gentx
GenesisOK(g)      == g.txs \subseteq Gentx /\ g.accounts \subseteq Account
PeersOK(ps)       == \A peer \in ps : peer.id \in Account /\ peer.port = p2pPort(peer.id[1])
ConfigOK(ports)   == DOMAIN ports = {"p2p", "proxyApp", "prometheus", "rpc", "pprof"}
AppOK(ports)      == DOMAIN ports = {"grpc", "api"}

FilesOK ==
    /\ privKeys \union privStates \subseteq Dirs
    /\ \A i \in Dirs : NodeKeyOK(nodeKey[i]) /\ KeysOK(wallet[i]) /\ KeysOK(seed[i])
    /\ \A i \in Dirs : GentxsOK(gentx[i])
    /\ \A i \in Dirs : GenesisOK(genesis[i])
    /\ \A i \in Dirs : PeersOK(peers[i])
    /\ \A i \in Dirs : ConfigOK(config[i])
    /\ \A i \in Dirs : AppOK(app[i])

ControlOK ==
    /\ stage \in Running \union Ended
    /\ stage \in Running => at \in 0 .. Iterations(stage) - 1
    /\ run \in 0 .. Invocations /\ numValidators \in Sizes \union {0}
    /\ stakeFlag \in StakeFlags \union {<<>>} /\ portsFlag \in PortLists \union {<<>>}

LEMMA TypeIsControlAndFiles == TypeOK <=> ControlOK /\ FilesOK
BY DEF TypeOK, ControlOK, FilesOK, NodeKeyOK, KeysOK, GentxsOK, GenesisOK, PeersOK, ConfigOK, AppOK

LEMMA FileReplaced ==
    ASSUME NEW f, f = [i \in Dirs |-> f[i]], NEW d, NEW x, NEW g, g = [f EXCEPT ![d] = x]
    PROVE  \A i \in Dirs : g[i] = IF i = d THEN x ELSE f[i]
OBVIOUS

LEMMA StakeIsNumber ==
    ASSUME ControlOK, NEW i \in Nat
    PROVE  Stake(i) \in Nat
<1>1. stakeFlag \in Seq(Nat \union {NotANumber})
  <2>1. stakeFlag \in StakeFlags => stakeFlag \in Seq(Nat \union {NotANumber})
    BY MultiNodeAssumption
  <2>2. <<>> \in Seq(Nat \union {NotANumber})
    OBVIOUS
  <2> QED
    BY <2>1, <2>2, Zenon DEF ControlOK
<1>2. validatorsStakesAmount \in Seq(Nat)
  BY <1>1, NumbersAreNumbers DEF validatorsStakesAmount
<1>3. DefaultStake \in Nat
  BY MultiNodeAssumption
<1>4. Stake(i) = IF i < Len(validatorsStakesAmount) THEN validatorsStakesAmount[i + 1]
                 ELSE DefaultStake
  BY DEF Stake
<1> HIDE DEF validatorsStakesAmount
<1>5. i < Len(validatorsStakesAmount) => validatorsStakesAmount[i + 1] \in Nat
  BY <1>2
<1> QED
  BY <1>3, <1>4, <1>5

LEMMA NodeIDIsAccount ==
    ASSUME FilesOK, NEW j \in Dirs, nodeKey[j] > 0
    PROVE  nodeID(j) \in Account
<1>1. nodeKey[j] \in 1 .. Invocations
  BY MultiNodeAssumption DEF FilesOK, NodeKeyOK, Torn
<1> QED
  BY <1>1 DEF nodeID, Account

LEMMA OwnIsGentx ==
    ASSUME ControlOK, FilesOK, NEW j \in Dirs, nodeKey[j] > 0
    PROVE  Own(j) \in Gentx
<1>1. j \in Nat
  BY MultiNodeAssumption DEF Dirs
<1>2. Stake(j) \in Nat
  BY <1>1, StakeIsNumber
<1>3. nodeID(j) \in Account
  BY NodeIDIsAccount
<1>4. run \in 0 .. Invocations
  BY DEF ControlOK
<1> QED
  BY <1>2, <1>3, <1>4 DEF Own, Gentx

LEMMA MemoIsPeer ==
    ASSUME NEW id \in Account
    PROVE  memo(id).id \in Account /\ memo(id).port = p2pPort(memo(id).id[1])
BY DEF memo

LEMMA WrittenIsGentxs ==
    ASSUME NEW txs, GentxsOK(txs), NEW tx \in Gentx
    PROVE  GentxsOK(Written(txs, tx))
BY DEF GentxsOK, Written

\* Control.
LEMMA ControlInit == Init => ControlOK
BY MultiNodeAssumption DEF Init, ControlOK, Running, Ended

LEMMA LoopsAreTyped ==
    ASSUME Loops'
    PROVE  (stage \in Running \union Ended)' /\ (stage \in Running => at \in 0 .. Iterations(stage) - 1)'
<1>1. stage' \in Running \union Ended
  BY DEF Loops
<1>2. ASSUME stage' \in Running
      PROVE  at' \in 0 .. Iterations(stage)' - 1
  <2>1. at' \in Nat /\ at' < Iterations(stage)' /\ numValidators' \in Nat
    BY <1>2, MultiNodeAssumption DEF Loops
  <2>2. Iterations(stage)' \in Nat
    <3>1. \A n \in Nat : n * n \in Nat
      OBVIOUS
    <3>2. Iterations(stage)' = numValidators' * numValidators' \/ Iterations(stage)' = numValidators'
      BY DEF Iterations
    <3> QED
      BY <2>1, <3>1, <3>2, Zenon
  <2> QED
    BY <2>1, <2>2
<1> QED
  BY <1>1, <1>2

LEMMA ControlNext ==
    ASSUME ControlOK, Loops', [Next]_vars
    PROVE  ControlOK'
<1>1. \/ \E v \in Sizes, flag \in StakeFlags, list \in PortLists : Start(v, flag, list)
      \/ UNCHANGED process
  BY DEF Next, initTestnetFiles, LoadOrGenNodeKey, LoadFilePV, ExitInLoadFilePV,
     GenFilePV, SaveLastSignState, GenerateSaveCoinKey, WriteKeySeed, WriteGentx,
     WriteAppConfig, initGenFiles, copyFile, GenAppStateFromConfig, collectGenFiles, Within,
     Iterate, Refuse, FailRemoving, FailKeeping, FailWritingNodeKey, FailCopying,
     FailExporting, vars
<1>2. /\ run' \in 0 .. Invocations /\ numValidators' \in Sizes \union {0}
      /\ stakeFlag' \in StakeFlags \union {<<>>} /\ portsFlag' \in PortLists \union {<<>>}
  <2>1. CASE UNCHANGED process
    BY <2>1 DEF process, ControlOK
  <2>2. CASE \E v \in Sizes, flag \in StakeFlags, list \in PortLists : Start(v, flag, list)
    BY <2>2, MultiNodeAssumption DEF Start, ControlOK
  <2> QED
    BY <1>1, <2>1, <2>2
<1> QED
  BY <1>2, LoopsAreTyped DEF ControlOK

\* The first loop.
LEMMA WorkingNode ==
    ASSUME NInv, ControlOK, stage \in Running \ {"copying"}
    PROVE  /\ at \in Nodes /\ at \in Dirs /\ Nodes \subseteq Dirs
           /\ run \in 1 .. Invocations /\ \A j \in Nodes : j \in Nat
<1>1. Nodes \subseteq Dirs /\ numValidators \in Nat \ {0} /\ run > 0
  BY NodesAreDirs DEF NInv
<1>2. at \in 0 .. numValidators - 1
  BY <1>1 DEF ControlOK, Iterations
<1>3. run \in 1 .. Invocations
  BY <1>1, MultiNodeAssumption DEF ControlOK
<1> QED
  BY <1>1, <1>2, <1>3 DEF Nodes

LEMMA NodeKeyIsTyped ==
    ASSUME NInv, ControlOK, FilesOK, NEW key, NodeKeyOK(key),
           nodeKey' = [nodeKey EXCEPT ![at] = key],
           UNCHANGED <<privKeys, privStates, wallet, seed, gentx, genesis, peers, config, app>>
    PROVE  FilesOK'
<1>1. nodeKey = [i \in Dirs |-> nodeKey[i]]
  BY DEF NInv, Shapes
<1>2. \A i \in Dirs : nodeKey'[i] = IF i = at THEN key ELSE nodeKey[i]
  BY <1>1, FileReplaced
<1>3. \A i \in Dirs : NodeKeyOK(nodeKey'[i])
  BY <1>2 DEF FilesOK
<1> QED
  BY <1>3 DEF FilesOK

LEMMA NodeFilesAreTyped ==
    ASSUME NInv, ControlOK, FilesOK,
           LoadOrGenNodeKey \/ FailWritingNodeKey \/ GenFilePV \/ SaveLastSignState
    PROVE  FilesOK'
<1>1. stage \in Running \ {"copying"}
      /\ UNCHANGED <<wallet, seed, gentx, genesis, peers, config, app>>
  BY DEF LoadOrGenNodeKey, FailWritingNodeKey, GenFilePV, SaveLastSignState, Within, Running,
     configs
<1>2. at \in Dirs /\ run \in 0 .. Invocations
  BY <1>1, WorkingNode DEF ControlOK
<1>3. CASE LoadOrGenNodeKey
  <2> DEFINE key == IF nodeKey[at] = 0 THEN run ELSE nodeKey[at]
  <2>1. nodeKey' = [nodeKey EXCEPT ![at] = key] /\ UNCHANGED <<privKeys, privStates>>
    BY <1>3 DEF LoadOrGenNodeKey
  <2>2. NodeKeyOK(key)
    BY <1>2 DEF FilesOK, NodeKeyOK
  <2> HIDE DEF key
  <2> QED
    BY <1>1, <2>1, <2>2, NodeKeyIsTyped
<1>4. CASE FailWritingNodeKey
  <2>1. nodeKey' = [nodeKey EXCEPT ![at] = Torn] /\ UNCHANGED <<privKeys, privStates>>
    BY <1>4 DEF FailWritingNodeKey
  <2>2. NodeKeyOK(Torn)
    BY DEF NodeKeyOK
  <2> QED
    BY <1>1, <2>1, <2>2, NodeKeyIsTyped
<1>5. CASE GenFilePV \/ SaveLastSignState
  <2>1. /\ UNCHANGED nodeKey
        /\ privKeys' \union privStates' \subseteq privKeys \union privStates \union {at}
    BY <1>5 DEF GenFilePV, SaveLastSignState
  <2> QED
    BY <1>1, <1>2, <2>1 DEF FilesOK
<1> QED
  BY <1>3, <1>4, <1>5

LEMMA KeyIsTyped ==
    ASSUME NInv, ControlOK, FilesOK, GenerateSaveCoinKey \/ WriteKeySeed
    PROVE  FilesOK'
<1>1. UNCHANGED <<nodeKey, privKeys, privStates, gentx, genesis, peers, config, app>>
  BY DEF GenerateSaveCoinKey, WriteKeySeed, keys, configs
<1>2. KeysOK(run)
  BY DEF ControlOK, KeysOK
<1>3. wallet = [i \in Dirs |-> wallet[i]] /\ seed = [i \in Dirs |-> seed[i]]
  BY DEF NInv, Shapes
<1>4. \A i \in Dirs : KeysOK(wallet[i]) /\ KeysOK(seed[i])
  BY DEF FilesOK
<1>5. \A i \in Dirs : KeysOK(wallet'[i]) /\ KeysOK(seed'[i])
  <2>1. CASE GenerateSaveCoinKey
    <3>1. wallet' = [wallet EXCEPT ![at] = run] /\ UNCHANGED seed
      BY <2>1 DEF GenerateSaveCoinKey
    <3>2. \A i \in Dirs : wallet'[i] = IF i = at THEN run ELSE wallet[i]
      BY <1>3, <3>1, FileReplaced
    <3> QED
      BY <1>2, <1>4, <3>1, <3>2
  <2>2. CASE WriteKeySeed
    <3>1. seed' = [seed EXCEPT ![at] = run] /\ UNCHANGED wallet
      BY <2>2 DEF WriteKeySeed
    <3>2. \A i \in Dirs : seed'[i] = IF i = at THEN run ELSE seed[i]
      BY <1>3, <3>1, FileReplaced
    <3> QED
      BY <1>2, <1>4, <3>1, <3>2
  <2> QED
    BY <2>1, <2>2
<1> QED
  BY <1>1, <1>5 DEF FilesOK

\* A directory is given a gentx.
LEMMA GentxIsTyped ==
    ASSUME Shapes, FilesOK, NEW d, NEW tx \in Gentx,
           gentx' = [gentx EXCEPT ![d] = Written(gentx[d], tx)]
    PROVE  \A i \in Dirs : GentxsOK(gentx'[i])
<1> DEFINE new == Written(gentx[d], tx)
<1>1. \A i \in Dirs : GentxsOK(gentx[i])
  BY DEF FilesOK
<1>2. gentx = [i \in Dirs |-> gentx[i]]
  BY DEF Shapes
<1>3. gentx' = [gentx EXCEPT ![d] = new]
  OBVIOUS
<1>4. d \in Dirs => GentxsOK(new)
  BY <1>1, WrittenIsGentxs
<1> HIDE DEF new
<1>5. \A i \in Dirs : gentx'[i] = IF i = d THEN new ELSE gentx[i]
  BY <1>2, <1>3, FileReplaced
<1> QED
  BY <1>1, <1>4, <1>5

LEMMA WriteGentxIsTyped ==
    ASSUME NInv, ControlOK, FilesOK, WriteGentx
    PROVE  FilesOK'
<1>1. stage = "gentx"
      /\ UNCHANGED <<nodeKey, privKeys, privStates, wallet, seed, genesis, peers, config, app>>
      /\ gentx' = [gentx EXCEPT ![at] = Written(gentx[at], Own(at))]
  BY DEF WriteGentx, Within, configs, keys, Own
<1>2. at \in Nodes /\ at \in Dirs
  BY <1>1, WorkingNode DEF Running
<1>3. nodeKey[at] > 0
  BY <1>1, <1>2 DEF NInv, Prepared, Past, First
<1>4. Own(at) \in Gentx
  BY <1>2, <1>3, OwnIsGentx
<1>5. \A i \in Dirs : GentxsOK(gentx'[i])
  BY <1>1, <1>4, GentxIsTyped DEF NInv
<1> QED
  BY <1>1, <1>5 DEF FilesOK

LEMMA AppIsTyped ==
    ASSUME NInv, FilesOK, WriteAppConfig
    PROVE  FilesOK'
<1>1. /\ app' = [app EXCEPT ![at] = appPorts(at)]
      /\ UNCHANGED <<nodeKey, privKeys, privStates, wallet, seed, gentx, genesis, peers, config>>
  BY DEF WriteAppConfig, keys
<1>2. app = [i \in Dirs |-> app[i]]
  BY DEF NInv, Shapes
<1>3. AppOK(appPorts(at))
  BY DEF appPorts, AppOK
<1>4. \A i \in Dirs : app'[i] = IF i = at THEN appPorts(at) ELSE app[i]
  BY <1>1, <1>2, FileReplaced
<1>5. \A i \in Dirs : AppOK(app'[i])
  BY <1>3, <1>4 DEF FilesOK
<1> QED
  BY <1>1, <1>5 DEF FilesOK

\* A directory is given a genesis.
LEMMA GenesisIsTyped ==
    ASSUME Shapes, FilesOK, NEW d, NEW g, GenesisOK(g), genesis' = [genesis EXCEPT ![d] = g]
    PROVE  \A i \in Dirs : GenesisOK(genesis'[i])
<1>1. genesis = [i \in Dirs |-> genesis[i]]
  <2>1. genesis = [i \in Dirs |-> [accounts |-> genesis[i].accounts, txs |-> genesis[i].txs]]
    BY DEF Shapes
  <2> QED
    BY <2>1
<1>2. \A i \in Dirs : genesis'[i] = IF i = d THEN g ELSE genesis[i]
  BY <1>1, FileReplaced
<1> QED
  BY <1>2 DEF FilesOK

LEMMA InitGenFilesIsTyped ==
    ASSUME NInv, ControlOK, FilesOK, initGenFiles
    PROVE  FilesOK'
<1> DEFINE g == [accounts |-> Nodes \X {run}, txs |-> {}]
<1>1. /\ stage = "genesis" /\ genesis' = [genesis EXCEPT ![at] = g]
      /\ UNCHANGED <<nodeKey, privKeys, privStates, wallet, seed, gentx, peers, config, app>>
  BY DEF initGenFiles, Iterate, configs, keys
<1>2. Nodes \subseteq Dirs /\ run \in 1 .. Invocations
  BY <1>1, WorkingNode DEF Running
<1>3. GenesisOK(g)
  BY <1>2 DEF GenesisOK, Account
<1> HIDE DEF g
<1>4. \A i \in Dirs : GenesisOK(genesis'[i])
  BY <1>1, <1>3, GenesisIsTyped DEF NInv
<1> QED
  BY <1>1, <1>4 DEF FilesOK

LEMMA CopyingNodes ==
    ASSUME NInv, stage = "copying"
    PROVE  /\ CopyTo \in Dirs /\ CopyFrom \in Dirs /\ nodeKey[CopyFrom] > 0
           /\ OwnGentx(CopyFrom) = Own(CopyFrom)
<1>1. Nodes \subseteq Dirs /\ numValidators \in Nat /\ at \in 0 .. numValidators * numValidators - 1
  <2>1. Nodes \subseteq Dirs /\ numValidators \in Nat /\ at \in Nat /\ at < Iterations("copying")
    BY NodesAreDirs DEF NInv, Loops, Running
  <2> QED
    BY <2>1 DEF Iterations
<1>2. CopyTo \in Nodes /\ CopyFrom \in Nodes
  BY <1>1, NestedIterations DEF CopyTo, CopyFrom, Nodes
<1> HIDE DEF CopyTo, CopyFrom
<1>3. Own(CopyFrom) \in gentx[CopyFrom] /\ nodeKey[CopyFrom] > 0
  BY <1>2, AllPrepared DEF NInv, Later
<1>4. Own(CopyFrom).id = nodeID(CopyFrom)
  BY DEF Own
<1>5. \A t \in gentx[CopyFrom] : t.id = nodeID(CopyFrom) => t = Own(CopyFrom)
  BY <1>1, <1>2, <1>3, <1>4 DEF NInv, Gentxs
<1> QED
  BY <1>1, <1>2, <1>3, <1>4, <1>5 DEF OwnGentx

LEMMA CopyIsTyped ==
    ASSUME NInv, ControlOK, FilesOK, copyFile \/ FailCopying
    PROVE  FilesOK'
<1>1. stage = "copying"
      /\ UNCHANGED <<nodeKey, privKeys, privStates, wallet, seed, genesis, peers, config, app>>
  BY DEF copyFile, FailCopying, Iterate, configs, keys
<1>2. /\ CopyFrom \in Dirs /\ nodeKey[CopyFrom] > 0
      /\ OwnGentx(CopyFrom) = Own(CopyFrom)
  BY <1>1, CopyingNodes
<1> HIDE DEF CopyTo, CopyFrom
<1>3. \A i \in Dirs : GentxsOK(gentx'[i])
  <2>1. CASE UNCHANGED gentx
    BY <2>1 DEF FilesOK
  <2>2. CASE copyFile /\ ~ UNCHANGED gentx
    <3>1. gentx' = [gentx EXCEPT ![CopyTo] = Written(gentx[CopyTo], Own(CopyFrom))]
      BY <1>2, <2>2 DEF copyFile
    <3>2. Own(CopyFrom) \in Gentx
      BY <1>2, OwnIsGentx
    <3> QED
      BY <3>1, <3>2, GentxIsTyped DEF NInv
  <2>3. CASE FailCopying
    <3> DEFINE tx == [id |-> nodeID(CopyFrom), signer |-> 0, stake |-> 0]
    <3>1. gentx' = [gentx EXCEPT ![CopyTo] = Written(gentx[CopyTo], tx)]
      BY <2>3 DEF FailCopying
    <3>2. nodeID(CopyFrom) \in Account
      BY <1>2, NodeIDIsAccount
    <3>3. tx \in Gentx
      BY <3>2, MultiNodeAssumption DEF Gentx
    <3> HIDE DEF tx
    <3> QED
      BY <3>1, <3>3, GentxIsTyped DEF NInv
  <2> QED
    BY <2>1, <2>2, <2>3
<1> QED
  BY <1>1, <1>3 DEF FilesOK

\* config.toml is written.
LEMMA ConfigIsTyped ==
    ASSUME Shapes, FilesOK, NEW d, NEW ps, NEW ports, PeersOK(ps), ConfigOK(ports),
           peers' = [peers EXCEPT ![d] = ps], config' = [config EXCEPT ![d] = ports]
    PROVE  (\A i \in Dirs : PeersOK(peers'[i])) /\ (\A i \in Dirs : ConfigOK(config'[i]))
<1>1. peers = [i \in Dirs |-> peers[i]] /\ config = [i \in Dirs |-> config[i]]
  BY DEF Shapes
<1>2. \A i \in Dirs : peers'[i] = IF i = d THEN ps ELSE peers[i]
  BY <1>1, FileReplaced
<1>3. \A i \in Dirs : config'[i] = IF i = d THEN ports ELSE config[i]
  BY <1>1, FileReplaced
<1> QED
  BY <1>2, <1>3 DEF FilesOK

LEMMA NodePortsOK == ASSUME NEW i PROVE ConfigOK(nodePorts(i))
BY DEF ConfigOK, nodePorts

LEMMA NodeConfigOK == ConfigOK(nodeConfig)
<1> DEFINE first == [nodePorts(0) EXCEPT !.rpc = rpcPort(numValidators - 1)]
<1>1. DOMAIN first = DOMAIN nodePorts(0)
  OBVIOUS
<1>2. ConfigOK(first)
  BY <1>1, NodePortsOK DEF ConfigOK
<1> HIDE DEF first
<1>3. nodeConfig = IF at > 0 THEN nodePorts(at - 1) ELSE first
  BY DEF nodeConfig, first
<1> QED
  BY <1>2, <1>3, NodePortsOK

LEMMA GenAppStateIsTyped ==
    ASSUME NInv, ControlOK, FilesOK, GenAppStateFromConfig
    PROVE  FilesOK'
<1> DEFINE g  == [genesis[at] EXCEPT !.txs = gentx[at]]
           ps == {memo(tx.id) : tx \in {t \in gentx[at] : t.id[1] # at}}
<1>1. /\ stage = "collecting" /\ genesis' = [genesis EXCEPT ![at] = g]
      /\ peers' = [peers EXCEPT ![at] = ps] /\ config' = [config EXCEPT ![at] = nodeConfig]
      /\ UNCHANGED <<nodeKey, privKeys, privStates, wallet, seed, gentx, app>>
  BY DEF GenAppStateFromConfig, Within, keys
<1>2. at \in Dirs
  BY <1>1, WorkingNode DEF Running
<1>3. GentxsOK(gentx[at]) /\ GenesisOK(genesis[at])
  BY <1>2 DEF FilesOK
<1>4. GenesisOK(g)
  <2>1. genesis[at] = [accounts |-> genesis[at].accounts, txs |-> genesis[at].txs]
    BY <1>2 DEF NInv, Shapes
  <2>2. g.accounts = genesis[at].accounts /\ g.txs = gentx[at]
    BY <2>1
  <2> HIDE DEF g
  <2> QED
    BY <1>3, <2>2 DEF GenesisOK, GentxsOK
<1>5. PeersOK(ps)
  <2>1. \A tx \in gentx[at] : tx.id \in Account
    BY <1>3 DEF GentxsOK, Gentx
  <2> QED
    BY <2>1, MemoIsPeer DEF PeersOK
<1> HIDE DEF g, ps
<1>6. \A i \in Dirs : GenesisOK(genesis'[i])
  BY <1>1, <1>4, GenesisIsTyped DEF NInv
<1>7. (\A i \in Dirs : PeersOK(peers'[i])) /\ (\A i \in Dirs : ConfigOK(config'[i]))
  BY <1>1, <1>5, NodeConfigOK, ConfigIsTyped DEF NInv
<1> QED
  BY <1>1, <1>6, <1>7 DEF FilesOK

LEMMA WriteConfigIsTyped ==
    ASSUME NInv, ControlOK, FilesOK, stage = "exporting", WriteConfig
    PROVE  /\ (\A i \in Dirs : PeersOK(peers'[i])) /\ (\A i \in Dirs : ConfigOK(config'[i]))
           /\ \A i \in Dirs : AppOK(app'[i])
<1> DEFINE ps == {memo(nodeID(j)) : j \in Nodes}
<1>1. /\ peers' = [peers EXCEPT ![at] = ps] /\ config' = [config EXCEPT ![at] = nodePorts(at)]
      /\ UNCHANGED app
  BY DEF WriteConfig
<1>2. Nodes \subseteq Dirs
  BY WorkingNode DEF Running
<1>3. \A j \in Nodes : nodeID(j) \in Account
  BY <1>2, AllPrepared, NodeIDIsAccount DEF NInv, Later
<1>4. PeersOK(ps)
  BY <1>3, MemoIsPeer DEF PeersOK
<1> HIDE DEF ps
<1>5. (\A i \in Dirs : PeersOK(peers'[i])) /\ (\A i \in Dirs : ConfigOK(config'[i]))
  BY <1>1, <1>4, NodePortsOK, ConfigIsTyped DEF NInv
<1> QED
  BY <1>1, <1>5 DEF FilesOK

LEMMA CollectIsTyped ==
    ASSUME NInv, ControlOK, FilesOK, collectGenFiles \/ FailExporting
    PROVE  FilesOK'
<1>1. stage = "exporting" /\ WriteConfig
      /\ UNCHANGED <<nodeKey, privKeys, privStates, wallet, seed, gentx>>
  BY DEF collectGenFiles, FailExporting, Iterate, keys
<1>2. /\ (\A i \in Dirs : PeersOK(peers'[i])) /\ (\A i \in Dirs : ConfigOK(config'[i]))
      /\ \A i \in Dirs : AppOK(app'[i])
  BY <1>1, WriteConfigIsTyped
<1>3. \A i \in Dirs : GenesisOK(genesis'[i])
  <2>1. CASE collectGenFiles
    <3>1. genesis' = [genesis EXCEPT ![at] = genesis[0]]
      BY <2>1 DEF collectGenFiles
    <3>2. GenesisOK(genesis[0])
      BY FirstDir DEF FilesOK
    <3> QED
      BY <3>1, <3>2, GenesisIsTyped DEF NInv
  <2>2. CASE FailExporting
    BY <2>2 DEF FailExporting, FilesOK
  <2> QED
    BY <2>1, <2>2
<1> QED
  BY <1>1, <1>2, <1>3 DEF FilesOK

\* Empty directories.
LEMMA EmptyIsTyped ==
    /\ \A i \in Dirs : NodeKeyOK(NoFile[i]) /\ KeysOK(NoFile[i])
    /\ \A i \in Dirs : GentxsOK(NoFiles[i]) /\ PeersOK(NoFiles[i])
    /\ \A i \in Dirs : GenesisOK(NoGenesis[i]) /\ ConfigOK(NoConfig[i]) /\ AppOK(NoApp[i])
BY MultiNodeAssumption DEF NoFile, NoFiles, NoGenesis, NoConfig, NoApp, NodeKeyOK,
   KeysOK, GentxsOK, PeersOK, GenesisOK, ConfigOK, AppOK

LEMMA FilesInit == Init => FilesOK
BY EmptyIsTyped DEF Init, FilesOK

LEMMA RemovedIsTyped == FailRemoving => FilesOK'
BY EmptyIsTyped DEF FailRemoving, FilesOK

LEMMA KeptIsTyped ==
    ASSUME FilesOK, UNCHANGED files
    PROVE  FilesOK'
BY DEF FilesOK, files, configs, keys

LEMMA FilesNext ==
    ASSUME NInv, ControlOK, FilesOK, [Next]_vars
    PROVE  FilesOK'
<1>1. CASE initTestnetFiles /\ ~ UNCHANGED files
  BY <1>1, NodeFilesAreTyped, KeyIsTyped, WriteGentxIsTyped, AppIsTyped, InitGenFilesIsTyped,
     CopyIsTyped, GenAppStateIsTyped, CollectIsTyped
  DEF initTestnetFiles, Refuse, LoadFilePV, ExitInLoadFilePV
<1>2. CASE UNCHANGED files
  BY <1>2, KeptIsTyped
<1>3. CASE FailRemoving \/ FailWritingNodeKey \/ FailCopying \/ FailExporting
  BY <1>3, RemovedIsTyped, NodeFilesAreTyped, CopyIsTyped, CollectIsTyped
<1>4. \/ (initTestnetFiles /\ ~ UNCHANGED files) \/ UNCHANGED files
      \/ FailRemoving \/ FailWritingNodeKey \/ FailCopying \/ FailExporting
  BY DEF Next, Start, FailKeeping, vars
<1> QED
  BY <1>1, <1>2, <1>3, <1>4

\* In any number of invocations, stopped anywhere, the loops stay within their
\* iterations, every stake is a number, and every key, gentx, account and peer of
\* every directory is of a node of the largest network and of an invocation
\* (testnet_multi_node.go:102-115 and 204-540).
THEOREM NetworkTypesHold == Spec => []TypeOK
<1>1. Init => ControlOK /\ FilesOK
  BY ControlInit, FilesInit
<1>2. NInv /\ NInv' /\ ControlOK /\ FilesOK /\ [Next]_vars => ControlOK' /\ FilesOK'
  BY ControlNext, FilesNext DEF NInv
<1>3. ControlOK /\ FilesOK => TypeOK
  BY TypeIsControlAndFiles
<1> QED
  BY <1>1, <1>2, <1>3, NInvAlways, PTL DEF Spec
=============================================================================
