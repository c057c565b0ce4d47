------------------------------ MODULE PulsarApp ------------------------------
(***************************************************************************)
(* The life of a node's application: app.New, InitChain, optimistic        *)
(* execution, commits, crashes and restarts, in-place testnets, queries    *)
(* and exports at any height, with x/pulsar as the module whose            *)
(* transactions, queries and genesis are followed.                         *)
(*                                                                         *)
(* BaseApp and the consensus engine are modelled by how app.go uses them:  *)
(* the goroutine of optimistic execution runs beside the calls of the      *)
(* consensus engine, and consensus decides a block no matter what this     *)
(* node was proposed or is doing.                                          *)
(* Bounds: the number of blocks and of crashes.                            *)
(***************************************************************************)
EXTENDS AppState

CONSTANTS
    Signers,      \* signers of MsgUpdateParams, addresses or not
    Blocks,       \* contents of blocks: the signers of their messages
    Genesis,      \* genesis files: their sections, and which give validators
    MaxHeight,    \* bound
    MaxCrashes    \* bound

ASSUME AppAssumption ==
    /\ Blocks \subseteq Seq(Signers)
    /\ Genesis \subseteq [sections : SUBSET DefaultGenesis,
                           validators : SUBSET {"staking", "genutil"}]
    /\ MaxHeight \in Nat /\ MaxCrashes \in Nat

VARIABLES
    process,   \* "down", "failed" (at its start), "testnet" (rewriting) or "node"
    genesis,   \* the genesis file
    decided,   \* blocks that consensus has decided: decided[h] at height h
    disk,      \* committed versions of the multistore: disk[h] after height h
    work,      \* the multistore in memory: the last version and what is not committed
    finalize,  \* finalizeState: <<>> or <<state>>
    initial,   \* initialHeight: 1 if this process has run InitChain, else 0
    oe,        \* the optimistic execution
    abci,      \* the call of the consensus engine that is being answered
    crashes,   \* number of crashes so far
    reply      \* the last query or export: <<>> or <<record>>

memory == <<work, finalize, initial, oe, abci>>
NoOE   == [block |-> <<>>, height |-> 0, left |-> <<>>, running |-> FALSE, cancelled |-> FALSE]
Idle   == [call |-> "idle", block |-> <<>>]
vars   == <<process, genesis, decided, disk, memory, crashes, reply>>

Latest == IF disk = <<>> THEN Empty ELSE disk[Len(disk)]
Height == Len(disk) + 1      \* of the next block

----------------------------------------------------------------------------
Init ==
    /\ process = "down" /\ genesis \in Genesis
    /\ decided = <<>> /\ disk = <<>>
    /\ work = Empty /\ finalize = <<>> /\ initial = 0 /\ oe = NoOE /\ abci = Idle
    /\ crashes = 0 /\ reply = <<>>

\* newApp: New, and with loadLatest the last committed version.
New(next) ==
    /\ process = "down"
    /\ process' = IF Load THEN next ELSE "failed"
    /\ work' = Latest
    /\ UNCHANGED <<genesis, decided, disk, finalize, initial, oe, abci, crashes, reply>>

Start == New("node")

\* newTestnetApp: New, then initAppForTestnet, whose writes go to the multistore
\* in memory; an error exits the process, which Crash stands for.
StartTestnet == disk # <<>> /\ New("testnet")

\* Mutant of initAppForTestnet: the node is started before its state is complete.
initAppForTestnetServing ==
    /\ process = "testnet"
    /\ work' = [work EXCEPT !.rewritten = @ \union {Head(Sections)}] /\ process' = "node"
    /\ UNCHANGED <<genesis, decided, disk, finalize, initial, oe, abci, crashes, reply>>

initAppForTestnet ==
    /\ process = "testnet"
    /\ \/ \E i \in DOMAIN Sections :
             /\ Sections[i] \notin work.rewritten
             /\ \A j \in 1 .. i - 1 : Sections[j] \in work.rewritten
             /\ work' = [work EXCEPT !.rewritten = @ \union {Sections[i]}]
             /\ process' = IF i = Len(Sections) THEN "node" ELSE "testnet"
       \/ \* of a testnet: the records are written over
          /\ ToSet(Sections) \subseteq work.rewritten
          /\ process' = "node" /\ UNCHANGED work
    /\ UNCHANGED <<genesis, decided, disk, finalize, initial, oe, abci, crashes, reply>>

\* The engine ends the process for an error, and the next one meets it again.
InitChain ==
    /\ process = "node" /\ disk = <<>> /\ initial = 0
    /\ IF GenesisInOrder /\ GivesValidators(genesis)
       THEN finalize' = <<GenesisState(genesis)>> /\ initial' = 1 /\ UNCHANGED process
       ELSE process' = "failed" /\ UNCHANGED <<finalize, initial>>
    /\ UNCHANGED <<genesis, decided, disk, work, oe, abci, crashes, reply>>

Ready == process = "node" /\ (disk = <<>> => initial = 1)

----------------------------------------------------------------------------
\* Optimistic execution, which New enables.

\* The state of InitChain is not reset: the first block is executed on it.
ResetsState == Height > initial

\* The handler aborts an execution that runs and waits for it to end.
ProcessProposal(block) ==
    /\ Ready /\ abci = Idle /\ Height <= MaxHeight /\ Len(decided) < Height
    /\ IF ResetsState
       THEN /\ oe' = [oe EXCEPT !.cancelled = TRUE]
            /\ abci' = [call |-> "process", block |-> block]
       ELSE UNCHANGED <<oe, abci>>
    /\ UNCHANGED <<process, genesis, decided, disk, work, finalize, initial, crashes, reply>>

OptimisticExecution ==
    /\ process = "node" /\ abci.call = "process" /\ ~ oe.running
    /\ finalize' = <<work>>
    /\ oe' = [block |-> abci.block, height |-> Height, left |-> abci.block,
              running |-> TRUE, cancelled |-> FALSE]
    /\ abci' = Idle
    /\ UNCHANGED <<process, genesis, decided, disk, work, initial, crashes, reply>>

\* Mutant of ExecuteOptimistically: a cancelled goroutine does not signal its end.
ExecuteOptimisticallyUnsignalled ==
    /\ process = "node" /\ oe.running /\ ~ oe.cancelled
    /\ IF oe.left = <<>>
       THEN oe' = [oe EXCEPT !.running = FALSE] /\ UNCHANGED finalize
       ELSE /\ finalize' = <<UpdateParams(finalize[1], Head(oe.left))>>
            /\ oe' = [oe EXCEPT !.left = Tail(@)]
    /\ UNCHANGED <<process, genesis, decided, disk, work, initial, abci, crashes, reply>>

\* The goroutine delivers one transaction, unless it was cancelled.
ExecuteOptimistically ==
    /\ process = "node" /\ oe.running
    /\ IF oe.cancelled \/ oe.left = <<>>
       THEN oe' = [oe EXCEPT !.running = FALSE] /\ UNCHANGED finalize
       ELSE /\ finalize' = <<UpdateParams(finalize[1], Head(oe.left))>>
            /\ oe' = [oe EXCEPT !.left = Tail(@)]
    /\ UNCHANGED <<process, genesis, decided, disk, work, initial, abci, crashes, reply>>

----------------------------------------------------------------------------
\* Consensus decides the next block, if the chain has validators.
Decide(block) ==
    /\ GivesValidators(genesis) /\ Len(decided) < MaxHeight
    /\ decided' = Append(decided, block)
    /\ UNCHANGED <<process, genesis, disk, memory, crashes, reply>>

Initialized     == oe.height # 0
Executes(block) == oe.height = Height /\ oe.block = block

\* FinalizeBlock aborts the execution of another block.  A block that was
\* decided before a crash, or while the node was behind, was never proposed to it.
FinalizeBlock ==
    /\ Ready /\ abci = Idle /\ Len(decided) >= Height
    /\ abci' = [call |-> "finalize", block |-> decided[Height]]
    /\ oe' = [oe EXCEPT !.cancelled = @ \/ (Initialized /\ ~ Executes(decided[Height]))]
    /\ UNCHANGED <<process, genesis, decided, disk, work, finalize, initial, crashes, reply>>

Answer(s) ==
    /\ work' = s /\ abci' = [abci EXCEPT !.call = "commit"]
    /\ UNCHANGED <<process, genesis, decided, disk, initial, crashes, reply>>

\* It takes the result of the execution of this block.
TakeResult ==
    /\ process = "node" /\ abci.call = "finalize" /\ Initialized /\ ~ oe.running /\ Executes(abci.block)
    /\ Answer(finalize[1]) /\ UNCHANGED <<finalize, oe>>

\* It drops the execution of another one.
DropResult ==
    /\ process = "node" /\ abci.call = "finalize" /\ Initialized /\ ~ oe.running /\ ~ Executes(abci.block)
    /\ finalize' = <<>> /\ oe' = NoOE
    /\ UNCHANGED <<process, genesis, decided, disk, work, initial, abci, crashes, reply>>

\* Without one it executes the block.
ExecuteBlock ==
    /\ process = "node" /\ abci.call = "finalize" /\ ~ Initialized
    /\ LET s == Execute(IF finalize = <<>> THEN work ELSE finalize[1], abci.block)
       IN  finalize' = <<s>> /\ Answer(s)
    /\ UNCHANGED oe

\* Mutant of Commit: the call is not over.
CommitAgain ==
    /\ process = "node" /\ abci.call = "commit" /\ Len(disk) < MaxHeight
    /\ disk' = Append(disk, work) /\ finalize' = <<>>
    /\ UNCHANGED <<process, genesis, decided, work, initial, oe, abci, crashes, reply>>

Commit ==
    /\ process = "node" /\ abci.call = "commit"
    /\ disk' = Append(disk, work) /\ finalize' = <<>> /\ abci' = Idle
    /\ UNCHANGED <<process, genesis, decided, work, initial, oe, crashes, reply>>

----------------------------------------------------------------------------
\* The process is stopped, by a crash, a signal or an error of the testnet command.
Crash ==
    /\ process \in {"node", "testnet"} /\ crashes < MaxCrashes
    /\ process' = "down" /\ crashes' = crashes + 1
    /\ work' = Empty /\ finalize' = <<>> /\ initial' = 0 /\ oe' = NoOE /\ abci' = Idle
    /\ UNCHANGED <<genesis, decided, disk, reply>>

\* Query/Params at a committed height: missing parameters are the default ones.
Params(h) ==
    /\ Ready /\ h \in 1 .. Len(disk)
    /\ reply' = <<[asked |-> "query", height |-> h, ok |-> TRUE, state |-> disk[h]]>>
    /\ UNCHANGED <<process, genesis, decided, disk, memory, crashes>>

\* Mutant of ExportGenesis: missing parameters are the default ones.
ExportGenesisDefault(s) == TRUE

ExportGenesis(s) == s.params = "stored"

\* appExport: a new application at the height of --height, or at the last one,
\* whose modules are exported in a process of its own.
appExport(height, modules) ==
    /\ process = "down"
    /\ height # -1 => height \in 1 .. Len(disk)
    /\ LET s == IF height = -1 THEN Latest ELSE disk[height]
       IN  reply' = <<[asked |-> IF "pulsar" \in modules THEN "pulsar" ELSE "others",
                       height |-> IF height = -1 THEN Len(disk) ELSE height,
                       ok |-> "pulsar" \in modules => ExportGenesis(s), state |-> s]>>
    /\ UNCHANGED <<process, genesis, decided, disk, memory, crashes>>

----------------------------------------------------------------------------
NodeStep ==
    \/ initAppForTestnet \/ InitChain \/ OptimisticExecution \/ ExecuteOptimistically
    \/ FinalizeBlock \/ TakeResult \/ DropResult \/ ExecuteBlock \/ Commit

Next ==
    \/ NodeStep \/ Start \/ StartTestnet \/ Crash
    \/ \E block \in Blocks : ProcessProposal(block) \/ Decide(block)
    \/ \E h \in 1 .. MaxHeight : Params(h)
    \/ \E height \in {-1} \union 1 .. MaxHeight, modules \in {{"pulsar"}, {"auth"}} :
           appExport(height, modules)

\* The calls of the consensus engine and the goroutine go on while the process runs.
Spec == Init /\ [][Next]_vars /\ WF_vars(NodeStep)

----------------------------------------------------------------------------
State == [delivered : Seq(Signers), params : {"absent", "stored"},
          rewritten : SUBSET ToSet(Sections)]

Execution == [block : Blocks \union {<<>>}, height : 0 .. MaxHeight, left : Seq(Signers),
              running : BOOLEAN, cancelled : BOOLEAN]

TypeOK ==
    /\ process \in {"down", "failed", "testnet", "node"}
    /\ genesis \in Genesis /\ decided \in Seq(Blocks) /\ Len(decided) <= MaxHeight
    /\ disk \in Seq(State) /\ Len(disk) <= Len(decided)
    /\ work \in State /\ initial \in 0 .. 1
    /\ finalize \in Seq(State) /\ Len(finalize) <= 1
    /\ oe \in Execution
    /\ abci \in [call : {"idle", "process", "finalize", "commit"}, block : Blocks \union {<<>>}]
    /\ crashes \in 0 .. MaxCrashes

\* Nothing of a proposal that was not decided, of a block that was interrupted or
\* of a testnet that did not come to its first block is ever committed, and no
\* decided block is committed twice or on another state than the one before it,
\* through optimistic execution (app.go:190), crashes and replays, and the
\* uncached writes of initAppForTestnet (testnet.go:82).
Committed == INSTANCE CommittedChain WITH chain <- disk
CommitsDecided == Committed!Spec

\* The stores, keepers, modules and orders that are listed by hand fit each other
\* (app.go:149-223, ibc.go:36-167, app_config.go:97-176): New and InitChain fail for
\* one thing only, a genesis file of which no module gets validators.
StartsWithValidators == process = "failed" => ~ GivesValidators(genesis)

\* Queries and exports show the state of the height they were asked for, whatever
\* was proposed or executed since, and an export fails exactly if neither the
\* genesis file nor the authority had stored the parameters by then
\* (query_params.go:15-26, genesis.go:15-25).  That LoadHeight reads the version it
\* names is taken from the multistore.
ShowsItsHeight ==
    reply # <<>> =>
        LET r == reply[1]
            signers == UNION {Range(decided[h]) : h \in 1 .. r.height}
        IN  /\ r.state.delivered = FlattenSeq(SubSeq(decided, 1, r.height))
            /\ r.ok <=> \/ r.asked # "pulsar"
                        \/ r.height > 0 /\ ("pulsar" \in genesis.sections \/ authority \in signers)

\* A node that stays up commits every block that is decided: no call of the
\* consensus engine waits for an execution that does not end.
CatchesUp ==
    \A h \in 1 .. MaxHeight :
        process = "node" /\ Len(decided) >= h ~> process # "node" \/ Len(disk) >= h
=============================================================================
