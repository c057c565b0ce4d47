--------------------------- MODULE PulsarAppProofs ---------------------------
(* PulsarApp keeps to its types, implements CommittedChain, starts from     *)
(* every file that gives validators and shows the state of the height it is *)
(* asked for, for any blocks, genesis files, and numbers of blocks and of   *)
(* crashes.                                                                 *)
EXTENDS PulsarApp, WellFoundedInduction, TLAPS

USE AppAssumption

----------------------------------------------------------------------------
(* States.                                                                  *)

LEMMA AppendedSet ==
    ASSUME NEW S, NEW s \in Seq(S), NEW x \in S
    PROVE  ToSet(Append(s, x)) = ToSet(s) \union {x}
<1>1. DOMAIN s = 1 .. Len(s) /\ DOMAIN Append(s, x) = 1 .. Len(s) + 1 /\ Len(s) \in Nat
  OBVIOUS
<1>2. \A i \in 1 .. Len(s) : Append(s, x)[i] = s[i] OBVIOUS
<1>3. Append(s, x)[Len(s) + 1] = x OBVIOUS
<1>. QED BY <1>1, <1>2, <1>3 DEF ToSet

LEMMA HeadMoves ==
    ASSUME NEW S, NEW pre \in Seq(S), NEW l \in Seq(S), l # <<>>
    PROVE  Append(pre, Head(l)) \o Tail(l) = pre \o l
<1>. DEFINE a == Append(pre, Head(l))
            t == Tail(l)
<1>1. /\ Head(l) = l[1] /\ Head(l) \in S /\ Len(l) \in Nat \ {0}
      /\ t \in Seq(S) /\ Len(t) = Len(l) - 1 /\ \A i \in 1 .. Len(t) : t[i] = l[i + 1]
  OBVIOUS
<1>2. /\ a \in Seq(S) /\ Len(a) = Len(pre) + 1 /\ Len(pre) \in Nat
      /\ a[Len(pre) + 1] = l[1] /\ \A i \in 1 .. Len(pre) : a[i] = pre[i]
  BY <1>1
<1>. HIDE DEF a, t
<1>3. /\ a \o t \in Seq(S) /\ pre \o l \in Seq(S)
      /\ Len(a \o t) = Len(pre) + Len(l) /\ Len(pre \o l) = Len(pre) + Len(l)
  <2>1. ASSUME NEW x \in Seq(S), NEW y \in Seq(S)
        PROVE  x \o y \in Seq(S) /\ Len(x \o y) = Len(x) + Len(y)
    OBVIOUS
  <2>2. a \o t \in Seq(S) /\ Len(a \o t) = Len(a) + Len(t) BY <1>1, <1>2, <2>1
  <2>3. pre \o l \in Seq(S) /\ Len(pre \o l) = Len(pre) + Len(l) BY <2>1
  <2>4. Len(a) + Len(t) = Len(pre) + Len(l)
    <3>1. Len(a) \in Nat /\ Len(t) \in Nat /\ Len(l) \in Nat BY <1>1, <1>2
    <3>. QED BY <1>1, <1>2, <3>1
  <2>. QED BY <2>2, <2>3, <2>4
<1>4. ASSUME NEW i \in 1 .. Len(pre) + Len(l) PROVE (a \o t)[i] = (pre \o l)[i]
  <2>0. /\ (a \o t)[i] = IF i <= Len(a) THEN a[i] ELSE t[i - Len(a)]
        /\ (pre \o l)[i] = IF i <= Len(pre) THEN pre[i] ELSE l[i - Len(pre)]
    <3>1. ASSUME NEW x \in Seq(S), NEW y \in Seq(S), NEW j \in 1 .. Len(x) + Len(y)
          PROVE  (x \o y)[j] = IF j <= Len(x) THEN x[j] ELSE y[j - Len(x)]
      OBVIOUS
    <3>2. i \in 1 .. Len(a) + Len(t)
      <4>1. Len(t) \in Nat /\ Len(l) \in Nat BY <1>1
      <4>. QED BY <1>1, <1>2, <4>1
    <3>. QED BY <1>1, <1>2, <3>1, <3>2
  <2>1. CASE i <= Len(pre) BY <1>1, <1>2, <2>0, <2>1
  <2>2. CASE i = Len(pre) + 1 BY <1>1, <1>2, <2>0, <2>2
  <2>3. CASE i > Len(pre) + 1
    <3>1. i > Len(a) /\ i > Len(pre) BY <1>2, <2>3
    <3>2. /\ i - Len(a) \in 1 .. Len(t) /\ i - Len(a) + 1 = i - Len(pre)
      BY <1>1, <1>2, <2>3
    <3>3. /\ (a \o t)[i] = t[i - Len(a)] /\ (pre \o l)[i] = l[i - Len(pre)]
      BY <1>2, <2>0, <3>1
    <3>4. t[i - Len(a)] = l[i - Len(a) + 1] BY <1>1, <3>2
    <3>. QED BY <3>2, <3>3, <3>4
  <2>4. i <= Len(pre) \/ i = Len(pre) + 1 \/ i > Len(pre) + 1
    <3>1. Len(pre) \in Nat /\ Len(l) \in Nat BY <1>1, <1>2
    <3>. HIDE DEF a, t
    <3>. QED BY <3>1
  <2>. QED BY <2>1, <2>2, <2>3, <2>4
<1>5. a \o t = pre \o l BY <1>3, <1>4
<1>. QED BY <1>5 DEF a, t

LEMMA WithMessages ==
    ASSUME NEW s \in State, NEW d \in Seq(Signers), NEW p \in {"absent", "stored"}
    PROVE  [s EXCEPT !.delivered = d, !.params = p] \in State
BY DEF State

LEMMA ExecuteIsState ==
    ASSUME NEW s \in State, NEW block \in Seq(Signers)
    PROVE  Execute(s, block) \in State
<1>1. s.delivered \o block \in Seq(Signers) BY DEF State
<1>2. (IF authority \in ToSet(block) THEN "stored" ELSE s.params) \in {"absent", "stored"}
  BY DEF State
<1>. QED BY <1>1, <1>2, WithMessages DEF Execute

LEMMA UpdateParamsIsState ==
    ASSUME NEW s \in State, NEW signer \in Signers
    PROVE  UpdateParams(s, signer) \in State
<1>1. Append(s.delivered, signer) \in Seq(Signers) BY DEF State
<1>2. (IF signer = authority THEN "stored" ELSE s.params) \in {"absent", "stored"}
  BY DEF State
<1>. QED BY <1>1, <1>2, WithMessages DEF UpdateParams

LEMMA EmptyIsState == Empty \in State
<1>1. <<>> \in Seq(Signers) OBVIOUS
<1>. QED BY <1>1 DEF Empty, State

LEMMA GenesisIsState == ASSUME NEW g \in Genesis PROVE GenesisState(g) \in State
<1>1. (IF "pulsar" \in g.sections THEN "stored" ELSE "absent") \in {"absent", "stored"}
  OBVIOUS
<1>2. ASSUME NEW p \in {"absent", "stored"} PROVE [Empty EXCEPT !.params = p] \in State
  BY EmptyIsState DEF State
<1>. QED BY <1>1, <1>2 DEF GenesisState

LEMMA RewrittenIsState ==
    ASSUME NEW s \in State, NEW r \in SUBSET ToSet(Sections)
    PROVE  [s EXCEPT !.rewritten = r] \in State
BY DEF State

(* A block is delivered one message after the other.                        *)
LEMMA ExecuteNothing == ASSUME NEW s \in State PROVE Execute(s, <<>>) = s
<1>1. s.delivered \o <<>> = s.delivered BY DEF State
<1>2. authority \notin ToSet(<<>>) BY DEF ToSet
<1>. QED BY <1>1, <1>2 DEF Execute, State

LEMMA ExecuteNext ==
    ASSUME NEW s \in State, NEW pre \in Seq(Signers), NEW signer \in Signers
    PROVE  UpdateParams(Execute(s, pre), signer) = Execute(s, Append(pre, signer))
<1>. DEFINE next == Append(pre, signer)
<1>1. Append(s.delivered \o pre, signer) = s.delivered \o next
  <2>1. s.delivered \in Seq(Signers) BY DEF State
  <2>2. ASSUME NEW r \in Seq(Signers)
        PROVE  Append(r \o pre, signer) = r \o Append(pre, signer)
    OBVIOUS
  <2>. QED BY <2>1, <2>2
<1>2. ToSet(next) = ToSet(pre) \union {signer} BY AppendedSet
<1>. HIDE DEF next
<1>3. (IF signer = authority THEN "stored"
       ELSE IF authority \in ToSet(pre) THEN "stored" ELSE s.params)
      = (IF authority \in ToSet(next) THEN "stored" ELSE s.params)
  BY <1>2
<1>4. ASSUME NEW d, NEW p, NEW e, NEW q
      PROVE  [[s EXCEPT !.delivered = d, !.params = p] EXCEPT !.delivered = e, !.params = q]
             = [s EXCEPT !.delivered = e, !.params = q]
  BY DEF State
<1>5. Execute(s, pre).delivered = s.delivered \o pre
      /\ Execute(s, pre).params = IF authority \in ToSet(pre) THEN "stored" ELSE s.params
  BY DEF Execute, State
<1>6. UpdateParams(Execute(s, pre), signer)
      = [Execute(s, pre) EXCEPT !.delivered = s.delivered \o next,
             !.params = IF authority \in ToSet(next) THEN "stored" ELSE s.params]
  BY <1>1, <1>3, <1>5 DEF UpdateParams
<1>. QED BY <1>4, <1>6 DEF Execute, next

----------------------------------------------------------------------------
(* The invariant.  What a block is executed on is the state of InitChain or *)
(* the last committed one, which a testnet may have rewritten as a whole.   *)

Bases == IF disk = <<>> THEN {GenesisState(genesis)} ELSE {Latest, Rewritten(Latest)}

(* Without a process there is nothing in memory but the multistore.         *)
Fresh == finalize = <<>> /\ oe = NoOE /\ abci = Idle /\ initial = 0

Stopped == process \in {"down", "testnet"} => Fresh

Rewriting ==
    process = "testnet" =>
        /\ disk # <<>>
        /\ \E r \in SUBSET ToSet(Sections) : work = [Latest EXCEPT !.rewritten = r]

Working ==
    process = "node" /\ abci.call # "commit" /\ disk # <<>> => work \in Bases

Calling ==
    process = "node" =>
        /\ abci.call = "process" =>
               disk # <<>> /\ abci.block \in Blocks /\ Height <= MaxHeight
        /\ abci.call \in {"finalize", "commit"} =>
               Height <= Len(decided) /\ abci.block = decided[Height]

(* Before the first block there is no optimistic execution.                 *)
Beginning ==
    process = "node" /\ disk = <<>> =>
        /\ oe.height = 0 /\ ~ oe.running /\ abci.call # "process"
        /\ initial = 1 /\ abci.call # "commit" => finalize = <<GenesisState(genesis)>>
        /\ initial = 0 => abci = Idle

(* The optimistic execution is of the next height, or it is over.           *)
Executing ==
    process = "node" =>
        /\ oe.height \in 0 .. Height
        /\ oe.running => oe.height = Height /\ abci.call # "commit"
        /\ abci.call # "commit" /\ disk # <<>> /\ oe.height # Height => finalize = <<>>
        /\ abci.call # "commit" /\ disk # <<>> /\ oe.height = Height =>
               /\ \E pre \in Seq(Signers) :
                      finalize = <<Execute(work, pre)>> /\ pre \o oe.left = oe.block
               /\ ~ oe.running /\ ~ oe.cancelled => oe.left = <<>>
               /\ oe.cancelled =>
                      \/ abci.call = "process"
                      \/ abci.call = "finalize" /\ ~ Executes(abci.block)

Committing ==
    process = "node" /\ abci.call = "commit" =>
        \E s \in Bases : work = Execute(s, decided[Height])

IInv == /\ TypeOK /\ Stopped /\ Rewriting /\ Working /\ Calling /\ Beginning
        /\ Executing /\ Committing

LEMMA InitEstablishes == ASSUME Init PROVE IInv
<1>1. Empty \in State BY EmptyIsState
<1>2. decided \in Seq(Blocks) /\ disk \in Seq(State) /\ finalize \in Seq(State)
      /\ Len(disk) = 0 /\ Len(decided) = 0 /\ Len(finalize) = 0
  BY DEF Init
<1>3. oe \in Execution BY DEF Init, NoOE, Execution
<1>4. TypeOK BY <1>1, <1>2, <1>3 DEF Init, TypeOK, Idle
<1>. QED
  BY <1>4 DEF Init, IInv, Stopped, Fresh, Rewriting, Working, Calling, Beginning,
     Executing, Committing

LEMMA LatestIsState == ASSUME TypeOK, disk # <<>> PROVE Latest \in State
<1>1. disk \in Seq(State) /\ Len(disk) \in 1 .. Len(disk) BY DEF TypeOK
<1>. QED BY <1>1 DEF Latest

LEMMA BasesAreStates == ASSUME TypeOK PROVE Bases \subseteq State
<1>1. CASE disk = <<>> BY <1>1, GenesisIsState DEF Bases, TypeOK
<1>2. CASE disk # <<>>
  <2>1. ToSet(Sections) \in SUBSET ToSet(Sections) OBVIOUS
  <2>2. Rewritten(Latest) \in State
    BY <1>2, <2>1, LatestIsState, RewrittenIsState DEF Rewritten
  <2>. QED BY <1>2, <2>2, LatestIsState DEF Bases
<1>. QED BY <1>1, <1>2

LEMMA SameIsIInv ==
    ASSUME IInv, UNCHANGED <<process, genesis, decided, disk, memory, crashes>>
    PROVE  IInv'
<1>1. Latest' = Latest /\ Height' = Height /\ Bases' = Bases
  BY DEF Latest, Height, Bases
<1>2. /\ process' = process /\ genesis' = genesis /\ decided' = decided /\ disk' = disk
      /\ work' = work /\ finalize' = finalize /\ initial' = initial /\ oe' = oe
      /\ abci' = abci /\ crashes' = crashes
  BY DEF memory
<1>3. TypeOK' BY <1>2 DEF IInv, TypeOK
<1>4. Stopped' /\ Rewriting' /\ Working' /\ Calling' /\ Beginning'
  BY <1>1, <1>2 DEF IInv, Stopped, Fresh, Rewriting, Working, Calling, Beginning
<1>5. Executing' /\ Committing'
  BY <1>1, <1>2 DEF IInv, Executing, Executes, Committing
<1>. QED BY <1>3, <1>4, <1>5 DEF IInv

----------------------------------------------------------------------------
(* A process starts with nothing but the last committed version.            *)

LEMMA NewPreserves ==
    ASSUME IInv, NEW next \in {"node", "testnet"}, New(next),
           next = "testnet" => disk # <<>>
    PROVE  IInv'
<1>. USE DEF IInv
<1>1. Fresh /\ UNCHANGED <<genesis, decided, disk, finalize, initial, oe, abci, crashes>>
      /\ work' = Latest /\ process' \in {next, "failed"}
  BY DEF New, Stopped
<1>2. Latest' = Latest /\ Height' = Height /\ Bases' = Bases
  BY <1>1 DEF Latest, Height, Bases
<1>3. Latest \in State BY LatestIsState, EmptyIsState DEF Latest
<1>4. TypeOK' BY <1>1, <1>3 DEF TypeOK
<1>5. Stopped' BY <1>1 DEF Stopped, Fresh
<1>6. Rewriting'
  <2>1. CASE disk # <<>>
    <3>1. Latest = [Latest EXCEPT !.rewritten = Latest.rewritten]
          /\ Latest.rewritten \in SUBSET ToSet(Sections)
      BY <1>3 DEF State
    <3>. QED BY <1>1, <1>2, <2>1, <3>1 DEF Rewriting
  <2>2. CASE disk = <<>> BY <1>1, <2>2 DEF Rewriting
  <2>. QED BY <2>1, <2>2
<1>7. Working' /\ Calling' /\ Beginning'
  BY <1>1, <1>2 DEF Working, Calling, Beginning, Fresh, Idle, NoOE, Bases
<1>8. Height \in Nat /\ Height > 0 BY DEF Height, TypeOK
<1>9. Executing' /\ Committing'
  BY <1>1, <1>2, <1>8 DEF Executing, Committing, Fresh, Idle, NoOE
<1>. QED BY <1>4, <1>5, <1>6, <1>7, <1>9

LEMMA TestnetPreserves == ASSUME IInv, initAppForTestnet PROVE IInv'
<1>. USE DEF IInv
<1>1. Fresh /\ UNCHANGED <<genesis, decided, disk, finalize, initial, oe, abci, crashes>>
      /\ process = "testnet" /\ disk # <<>> /\ process' \in {"testnet", "node"}
  BY DEF initAppForTestnet, Stopped, Rewriting
<1>2. Latest' = Latest /\ Height' = Height /\ Bases' = Bases
  BY <1>1 DEF Latest, Height, Bases
<1>3. Latest \in State BY <1>1, LatestIsState
<1>4. PICK r \in SUBSET ToSet(Sections) : work = [Latest EXCEPT !.rewritten = r]
  BY <1>1 DEF Rewriting
<1>5. work.rewritten = r BY <1>3, <1>4 DEF State
<1>6. /\ \E q \in SUBSET ToSet(Sections) : work' = [Latest EXCEPT !.rewritten = q]
      /\ process' = "node" => work' = Rewritten(Latest)
  <2>1. ASSUME NEW i \in DOMAIN Sections,
               \A j \in 1 .. i - 1 : Sections[j] \in work.rewritten,
               work' = [work EXCEPT !.rewritten = @ \union {Sections[i]}],
               process' = IF i = Len(Sections) THEN "node" ELSE "testnet"
        PROVE  <1>6!1 /\ <1>6!2
    <3>1. r \union {Sections[i]} \in SUBSET ToSet(Sections) BY DEF ToSet
    <3>2. work' = [Latest EXCEPT !.rewritten = r \union {Sections[i]}]
      BY <1>3, <1>4, <1>5, <2>1 DEF State
    <3>3. process' = "node" => r \union {Sections[i]} = ToSet(Sections)
      <4>1. DOMAIN Sections = 1 .. Len(Sections) /\ Len(Sections) = 4 BY DEF Sections
      <4>2. i = Len(Sections) =>
                \A j \in DOMAIN Sections : Sections[j] \in r \union {Sections[i]}
        BY <1>5, <2>1, <4>1
      <4>. QED BY <2>1, <3>1, <4>2 DEF ToSet
    <3>. QED BY <3>1, <3>2, <3>3 DEF Rewritten
  <2>2. ASSUME ToSet(Sections) \subseteq work.rewritten, UNCHANGED work
        PROVE  <1>6!1 /\ <1>6!2
    <3>1. r = ToSet(Sections) BY <1>5, <2>2
    <3>. QED BY <1>4, <2>2, <3>1 DEF Rewritten
  <2>. QED BY <2>1, <2>2 DEF initAppForTestnet
<1>7. work' \in State BY <1>3, <1>6, RewrittenIsState
<1>8. TypeOK' BY <1>1, <1>7 DEF TypeOK
<1>9. Stopped' /\ Rewriting'
  BY <1>1, <1>2, <1>6 DEF Stopped, Fresh, Rewriting
<1>10. Working' /\ Calling' /\ Beginning'
  BY <1>1, <1>2, <1>6 DEF Working, Calling, Beginning, Fresh, Idle, NoOE, Bases
<1>11. Height \in Nat /\ Height > 0 BY DEF Height, TypeOK
<1>12. Executing' /\ Committing'
  BY <1>1, <1>2, <1>11 DEF Executing, Committing, Fresh, Idle, NoOE
<1>. QED BY <1>8, <1>9, <1>10, <1>12

LEMMA CrashPreserves == ASSUME IInv, Crash PROVE IInv'
<1>. USE DEF IInv
<1>1. /\ UNCHANGED <<genesis, decided, disk>> /\ process' = "down"
      /\ crashes' \in 0 .. MaxCrashes
      /\ work' = Empty /\ finalize' = <<>> /\ initial' = 0 /\ oe' = NoOE /\ abci' = Idle
  BY DEF Crash, TypeOK
<1>2. <<>> \in Seq(State) /\ Len(<<>>) = 0 OBVIOUS
<1>3. NoOE \in Execution BY DEF NoOE, Execution
<1>4. TypeOK' BY <1>1, <1>2, <1>3, EmptyIsState DEF TypeOK, Idle
<1>5. Stopped' BY <1>1 DEF Stopped, Fresh
<1>6. Rewriting' /\ Working' /\ Calling' /\ Beginning' /\ Executing' /\ Committing'
  BY <1>1 DEF Rewriting, Working, Calling, Beginning, Executing, Committing
<1>. QED BY <1>4, <1>5, <1>6
----------------------------------------------------------------------------
(* The calls of the consensus engine.                                       *)

LEMMA InitChainPreserves == ASSUME IInv, InitChain PROVE IInv'
<1>. USE DEF IInv
<1>1. /\ UNCHANGED <<genesis, decided, disk, work, oe, abci, crashes>>
      /\ process = "node" /\ disk = <<>> /\ abci = Idle
      /\ \/ process' = "node" /\ finalize' = <<GenesisState(genesis)>> /\ initial' = 1
         \/ process' = "failed" /\ finalize' = finalize /\ initial' = initial
  BY DEF InitChain, Beginning
<1>2. Latest' = Latest /\ Height' = Height /\ Bases' = Bases
  BY <1>1 DEF Latest, Height, Bases
<1>3. finalize' \in Seq(State) /\ Len(finalize') <= 1
  <2>1. GenesisState(genesis) \in State BY GenesisIsState DEF TypeOK
  <2>2. ASSUME NEW g \in State PROVE <<g>> \in Seq(State) /\ Len(<<g>>) <= 1 OBVIOUS
  <2>3. CASE finalize' = <<GenesisState(genesis)>> BY <2>1, <2>2, <2>3
  <2>4. CASE finalize' = finalize BY <2>4 DEF TypeOK
  <2>. QED BY <1>1, <2>3, <2>4
<1>4. TypeOK' BY <1>1, <1>3 DEF TypeOK
<1>5. Stopped' /\ Rewriting' /\ Working' /\ Calling' /\ Beginning' /\ Executing'
      /\ Committing'
  BY <1>1, <1>2 DEF Stopped, Rewriting, Working, Calling, Beginning, Executing, Committing,
     Executes, Idle
<1>. QED BY <1>4, <1>5

LEMMA ProcessProposalPreserves ==
    ASSUME IInv, NEW block \in Blocks, ProcessProposal(block) PROVE IInv'
<1>. USE DEF IInv
<1>1. /\ UNCHANGED <<process, genesis, decided, disk, work, finalize, initial, crashes>>
      /\ process = "node" /\ abci = Idle /\ Height <= MaxHeight
  BY DEF ProcessProposal, Ready
<1>2. Latest' = Latest /\ Height' = Height /\ Bases' = Bases
  BY <1>1 DEF Latest, Height, Bases
<1>3. CASE UNCHANGED <<oe, abci>>
  BY <1>1, <1>3, SameIsIInv DEF memory
<1>4. CASE ~ UNCHANGED <<oe, abci>>
  <2>1. /\ ResetsState /\ oe' = [oe EXCEPT !.cancelled = TRUE]
        /\ abci' = [call |-> "process", block |-> block]
    BY <1>4 DEF ProcessProposal
  <2>2. disk # <<>> BY <1>1, <2>1 DEF ResetsState, Height, TypeOK, Beginning, ProcessProposal, Ready
  <2>3. oe' \in Execution BY <2>1 DEF Execution, TypeOK
  <2>4. TypeOK' BY <1>1, <2>1, <2>3 DEF TypeOK
  <2>5. Stopped' /\ Rewriting' /\ Working' /\ Calling' /\ Beginning' /\ Committing'
    BY <1>1, <1>2, <2>1, <2>2 DEF Stopped, Rewriting, Working, Calling, Beginning, Committing,
       Idle
  <2>6. oe'.height = oe.height /\ oe'.running = oe.running /\ oe'.left = oe.left
        /\ oe'.block = oe.block /\ oe'.cancelled
    BY <2>1 DEF Execution, TypeOK
  <2>7. Executing' BY <1>1, <1>2, <2>1, <2>2, <2>6 DEF Executing, Idle
  <2>. QED BY <2>4, <2>5, <2>7
<1>. QED BY <1>3, <1>4

LEMMA OptimisticExecutionPreserves == ASSUME IInv, OptimisticExecution PROVE IInv'
<1>. USE DEF IInv
<1>1. /\ UNCHANGED <<process, genesis, decided, disk, work, initial, crashes>>
      /\ process = "node" /\ abci.call = "process" /\ abci' = Idle
      /\ disk # <<>> /\ abci.block \in Blocks /\ Height <= MaxHeight
      /\ finalize' = <<work>>
  BY DEF OptimisticExecution, Calling
<1>2. Latest' = Latest /\ Height' = Height /\ Bases' = Bases
  BY <1>1 DEF Latest, Height, Bases
<1>. DEFINE b == abci.block
<1>3. oe' = [block |-> b, height |-> Height, left |-> b, running |-> TRUE, cancelled |-> FALSE]
  BY DEF OptimisticExecution
<1>. HIDE DEF b
<1>4. b \in Seq(Signers) /\ b \in Blocks BY <1>1 DEF b
<1>5. Height \in 0 .. MaxHeight /\ Height > 0 BY <1>1 DEF Height, TypeOK
<1>6. oe' \in Execution BY <1>3, <1>4, <1>5 DEF Execution
<1>7. <<work>> \in Seq(State) /\ Len(<<work>>) = 1 BY DEF TypeOK
<1>8. TypeOK' BY <1>1, <1>6, <1>7 DEF TypeOK, Idle
<1>9. Stopped' /\ Rewriting' /\ Working' /\ Calling' /\ Beginning' /\ Committing'
  BY <1>1, <1>2 DEF Stopped, Rewriting, Working, Calling, Beginning, Committing, Idle
<1>10. /\ oe'.height = Height /\ oe'.running /\ ~ oe'.cancelled
       /\ oe'.left = b /\ oe'.block = b
  BY <1>3
<1>11. <<>> \in Seq(Signers) /\ <<>> \o b = b /\ finalize' = <<Execute(work, <<>>)>>
  BY <1>1, <1>4, ExecuteNothing DEF TypeOK
<1>12. Executing'
  <2>1. \E pre \in Seq(Signers) : finalize' = <<Execute(work', pre)>> /\ pre \o oe'.left = oe'.block
    BY <1>1, <1>10, <1>11
  <2>. QED BY <1>1, <1>2, <1>5, <1>10, <2>1 DEF Executing, Idle
<1>. QED BY <1>8, <1>9, <1>12

LEMMA DecidePreserves ==
    ASSUME IInv, NEW block \in Blocks, Decide(block) PROVE IInv'
<1>. USE DEF IInv
<1>1. /\ UNCHANGED <<process, genesis, disk, work, finalize, initial, oe, abci, crashes>>
      /\ Len(decided) < MaxHeight /\ decided' = Append(decided, block)
  BY DEF Decide, memory
<1>2. Latest' = Latest /\ Height' = Height /\ Bases' = Bases
  BY <1>1 DEF Latest, Height, Bases
<1>3. /\ decided' \in Seq(Blocks) /\ Len(decided') = Len(decided) + 1
      /\ Len(decided) \in Nat /\ Height \in Nat /\ Height > 0
      /\ Height <= Len(decided) => decided'[Height] = decided[Height]
  BY <1>1 DEF TypeOK, Height
<1>4. TypeOK' BY <1>1, <1>3 DEF TypeOK
<1>5. Stopped' /\ Rewriting' /\ Working' /\ Beginning'
  BY <1>1, <1>2 DEF Stopped, Fresh, Rewriting, Working, Beginning
<1>6. Calling' BY <1>1, <1>2, <1>3 DEF Calling
<1>7. Executing' BY <1>1, <1>2 DEF Executing, Executes
<1>8. Committing' BY <1>1, <1>2, <1>3 DEF Committing, Calling
<1>. QED BY <1>4, <1>5, <1>6, <1>7, <1>8

LEMMA ExecuteOptimisticallyPreserves == ASSUME IInv, ExecuteOptimistically PROVE IInv'
<1>. USE DEF IInv
<1>1. /\ UNCHANGED <<process, genesis, decided, disk, work, initial, abci, crashes>>
      /\ process = "node" /\ oe.running
  BY DEF ExecuteOptimistically
<1>2. Latest' = Latest /\ Height' = Height /\ Bases' = Bases
  BY <1>1 DEF Latest, Height, Bases
<1>3. disk # <<>> /\ abci.call # "commit" /\ oe.height = Height
  BY <1>1 DEF Beginning, Executing
<1>4. PICK pre \in Seq(Signers) :
          finalize = <<Execute(work, pre)>> /\ pre \o oe.left = oe.block
  BY <1>1, <1>3 DEF Executing
<1>5. work \in State /\ oe \in Execution BY DEF TypeOK
<1>6. CASE oe' = [oe EXCEPT !.running = FALSE] /\ UNCHANGED finalize
                 /\ (oe.cancelled \/ oe.left = <<>>)
  <2>1. oe' \in Execution BY <1>5, <1>6 DEF Execution
  <2>2. /\ oe'.height = oe.height /\ ~ oe'.running /\ oe'.left = oe.left
        /\ oe'.block = oe.block /\ oe'.cancelled = oe.cancelled
    BY <1>5, <1>6 DEF Execution
  <2>3. TypeOK' BY <1>1, <1>6, <2>1 DEF TypeOK
  <2>4. Stopped' /\ Rewriting' /\ Working' /\ Calling' /\ Beginning' /\ Committing'
    BY <1>1, <1>2, <1>3 DEF Stopped, Rewriting, Working, Calling, Beginning, Committing
  <2>5. Executing' BY <1>1, <1>2, <1>3, <1>6, <2>2 DEF Executing, Executes
  <2>. QED BY <2>3, <2>4, <2>5
<1>7. CASE /\ finalize' = <<UpdateParams(finalize[1], Head(oe.left))>>
           /\ oe' = [oe EXCEPT !.left = Tail(@)]
           /\ oe.left # <<>> /\ ~ oe.cancelled
  <2>. DEFINE signer == Head(oe.left)
              rest   == Tail(oe.left)
              next   == Append(pre, signer)
  <2>1. signer \in Signers /\ rest \in Seq(Signers) /\ oe.left \in Seq(Signers)
    BY <1>5, <1>7 DEF Execution
  <2>2. next \in Seq(Signers) BY <2>1
  <2>3. next \o rest = oe.block
    BY <1>4, <1>7, <2>1, HeadMoves
  <2>. HIDE DEF next, rest, signer
  <2>4. oe' \in Execution
    <3>1. \A l \in Seq(Signers) : [oe EXCEPT !.left = l] \in Execution BY <1>5 DEF Execution
    <3>. QED BY <1>7, <2>1, <3>1 DEF rest
  <2>5. /\ oe'.height = oe.height /\ oe'.running /\ oe'.left = rest
        /\ oe'.block = oe.block /\ ~ oe'.cancelled
    BY <1>1, <1>5, <1>7 DEF Execution, rest
  <2>6. finalize' = <<Execute(work, next)>>
    <3>1. finalize[1] = Execute(work, pre) BY <1>4
    <3>. QED BY <1>5, <1>7, <2>1, <3>1, ExecuteNext DEF signer, next
  <2>7. finalize' \in Seq(State) /\ Len(finalize') = 1
    <3>1. Execute(work, next) \in State BY <1>5, <2>2, ExecuteIsState
    <3>. QED BY <2>6, <3>1
  <2>8. TypeOK' BY <1>1, <2>4, <2>7 DEF TypeOK
  <2>9. Stopped' /\ Rewriting' /\ Working' /\ Calling' /\ Beginning' /\ Committing'
    BY <1>1, <1>2, <1>3 DEF Stopped, Rewriting, Working, Calling, Beginning, Committing
  <2>10. Executing'
    <3>1. \E q \in Seq(Signers) : finalize' = <<Execute(work', q)>> /\ q \o oe'.left = oe'.block
      BY <1>1, <2>2, <2>3, <2>5, <2>6
    <3>. QED BY <1>1, <1>2, <1>3, <2>5, <3>1 DEF Executing, Executes
  <2>. QED BY <2>8, <2>9, <2>10
<1>. QED BY <1>6, <1>7 DEF ExecuteOptimistically

LEMMA FinalizeBlockPreserves == ASSUME IInv, FinalizeBlock PROVE IInv'
<1>. USE DEF IInv
<1>1. /\ UNCHANGED <<process, genesis, decided, disk, work, finalize, initial, crashes>>
      /\ process = "node" /\ abci = Idle /\ Height <= Len(decided)
      /\ disk = <<>> => initial = 1
      /\ abci' = [call |-> "finalize", block |-> decided[Height]]
  BY DEF FinalizeBlock, Ready
<1>2. Latest' = Latest /\ Height' = Height /\ Bases' = Bases
  BY <1>1 DEF Latest, Height, Bases
<1>3. decided[Height] \in Blocks BY <1>1 DEF Height, TypeOK
<1>. DEFINE cancelled == oe.cancelled \/ (Initialized /\ ~ Executes(decided[Height]))
<1>4. oe' = [oe EXCEPT !.cancelled = cancelled] /\ cancelled \in BOOLEAN
  BY DEF FinalizeBlock
<1>5. /\ oe \in Execution
      /\ disk # <<>> /\ oe.height = Height /\ cancelled => ~ Executes(decided[Height])
  BY <1>1 DEF TypeOK, Executing, Idle
<1>. HIDE DEF cancelled
<1>6. \A c \in BOOLEAN : /\ [oe EXCEPT !.cancelled = c] \in Execution
                        /\ [oe EXCEPT !.cancelled = c].cancelled = c
                        /\ [oe EXCEPT !.cancelled = c].height = oe.height
                        /\ [oe EXCEPT !.cancelled = c].running = oe.running
                        /\ [oe EXCEPT !.cancelled = c].left = oe.left
                        /\ [oe EXCEPT !.cancelled = c].block = oe.block
  BY <1>5 DEF Execution
<1>7. /\ oe' \in Execution /\ oe'.cancelled = cancelled /\ oe'.height = oe.height
      /\ oe'.running = oe.running /\ oe'.left = oe.left /\ oe'.block = oe.block
  BY <1>4, <1>6
<1>8. TypeOK' BY <1>1, <1>3, <1>7 DEF TypeOK
<1>9. Stopped' /\ Rewriting' /\ Working' /\ Calling' /\ Beginning' /\ Committing'
  BY <1>1, <1>2, <1>7 DEF Stopped, Rewriting, Working, Calling, Beginning, Committing, Idle
<1>10. Executing'
  <2>1. CASE disk = <<>> BY <1>1, <1>2, <1>7, <2>1 DEF Executing, Idle
  <2>2. CASE oe.height # Height BY <1>1, <1>2, <1>7, <2>2 DEF Executing, Idle
  <2>3. CASE disk # <<>> /\ oe.height = Height
    <3>1. Executes(decided[Height])' <=> Executes(decided[Height])
      BY <1>1, <1>2, <1>7 DEF Executes
    <3>2. oe.cancelled => cancelled BY DEF cancelled
    <3>. QED BY <1>1, <1>2, <1>5, <1>7, <2>3, <3>1, <3>2 DEF Executing, Executes, Idle
  <2>. QED BY <2>1, <2>2, <2>3
<1>. QED BY <1>8, <1>9, <1>10

(* The block is answered with the state it leaves on a base, whoever        *)
(* executed it.                                                             *)
LEMMA AnswerPreserves ==
    ASSUME IInv, NEW s \in Bases, process = "node", abci.call = "finalize",
           Answer(Execute(s, decided[Height])), ~ oe.running,
           finalize' \in Seq(State), Len(finalize') <= 1, UNCHANGED oe
    PROVE  IInv'
<1>. USE DEF IInv
<1>1. /\ UNCHANGED <<process, genesis, decided, disk, initial, crashes>>
      /\ abci' = [abci EXCEPT !.call = "commit"]
      /\ work' = Execute(s, decided[Height]) /\ Height <= Len(decided)
      /\ abci.block = decided[Height]
  BY DEF Answer, Calling
<1>2. Latest' = Latest /\ Height' = Height /\ Bases' = Bases
  BY <1>1 DEF Latest, Height, Bases
<1>3. decided[Height] \in Seq(Signers) BY <1>1 DEF Height, TypeOK
<1>4. work' \in State BY <1>1, <1>3, BasesAreStates, ExecuteIsState
<1>5. /\ abci'.call = "commit" /\ abci'.block = abci.block
      /\ abci' \in [call : {"idle", "process", "finalize", "commit"}, block : Blocks \union {<<>>}]
  BY <1>1 DEF TypeOK
<1>6. TypeOK' BY <1>1, <1>4, <1>5 DEF TypeOK
<1>7. Stopped' /\ Rewriting' /\ Working' /\ Calling'
  BY <1>1, <1>2, <1>5 DEF Stopped, Rewriting, Working, Calling
<1>8. Beginning'
  <2>1. disk = <<>> => initial = 1 BY <1>1 DEF Beginning, Idle, TypeOK
  <2>. QED BY <1>1, <1>5, <2>1 DEF Beginning
<1>9. Executing' BY <1>1, <1>2, <1>5 DEF Executing
<1>10. Committing' BY <1>1, <1>2 DEF Committing
<1>. QED BY <1>6, <1>7, <1>8, <1>9, <1>10

LEMMA TakeResultPreserves == ASSUME IInv, TakeResult PROVE IInv'
<1>. USE DEF IInv
<1>1. /\ process = "node" /\ abci.call = "finalize" /\ ~ oe.running
      /\ oe.height = Height /\ oe.block = abci.block /\ oe.height # 0
      /\ Answer(finalize[1]) /\ UNCHANGED <<finalize, oe>>
  BY DEF TakeResult, Executes, Initialized
<1>2. disk # <<>> BY <1>1 DEF Beginning
<1>3. PICK pre \in Seq(Signers) :
          finalize = <<Execute(work, pre)>> /\ pre \o oe.left = oe.block
  BY <1>1, <1>2 DEF Executing
<1>4. oe.left = <<>> BY <1>1, <1>2 DEF Executing, Executes
<1>5. pre = decided[Height] /\ work \in Bases
  BY <1>1, <1>2, <1>3, <1>4 DEF Calling, Working
<1>6. finalize[1] = Execute(work, decided[Height]) BY <1>3, <1>5
<1>7. finalize' \in Seq(State) /\ Len(finalize') <= 1 BY <1>1 DEF TypeOK
<1>. QED BY <1>1, <1>5, <1>6, <1>7, AnswerPreserves

LEMMA ExecuteBlockPreserves == ASSUME IInv, ExecuteBlock PROVE IInv'
<1>. USE DEF IInv
<1>. DEFINE base == IF finalize = <<>> THEN work ELSE finalize[1]
<1>1. /\ process = "node" /\ abci.call = "finalize" /\ oe.height = 0 /\ UNCHANGED oe
      /\ abci.block = decided[Height] /\ Height <= Len(decided)
      /\ finalize' = <<Execute(base, decided[Height])>>
      /\ Answer(Execute(base, decided[Height]))
  BY DEF ExecuteBlock, Initialized, Calling
<1>2. Height > 0 BY DEF Height, TypeOK
<1>3. base \in Bases
  <2>1. CASE disk = <<>>
    <3>1. initial = 1 BY <1>1, <2>1 DEF Beginning, Idle, TypeOK
    <3>2. finalize = <<GenesisState(genesis)>> BY <1>1, <2>1, <3>1 DEF Beginning
    <3>3. finalize # <<>> /\ finalize[1] = GenesisState(genesis) BY <3>2
    <3>. QED BY <2>1, <3>3 DEF Bases
  <2>2. CASE disk # <<>>
    <3>1. finalize = <<>> BY <1>1, <1>2, <2>2 DEF Executing
    <3>. QED BY <1>1, <2>2, <3>1 DEF Working
  <2>. QED BY <2>1, <2>2
<1>4. ~ oe.running BY <1>1, <1>2 DEF Executing
<1>. HIDE DEF base
<1>5. decided[Height] \in Seq(Signers) BY <1>1, <1>2 DEF Height, TypeOK
<1>6. Execute(base, decided[Height]) \in State
  BY <1>3, <1>5, BasesAreStates, ExecuteIsState
<1>7. finalize' \in Seq(State) /\ Len(finalize') <= 1 BY <1>1, <1>6
<1>. QED BY <1>1, <1>3, <1>4, <1>7, AnswerPreserves

LEMMA DropResultPreserves == ASSUME IInv, DropResult PROVE IInv'
<1>. USE DEF IInv
<1>1. /\ process = "node" /\ abci.call = "finalize" /\ oe.height # 0
      /\ finalize' = <<>> /\ oe' = NoOE
      /\ UNCHANGED <<process, genesis, decided, disk, work, initial, abci, crashes>>
  BY DEF DropResult, Initialized
<1>2. Latest' = Latest /\ Height' = Height /\ Bases' = Bases
  BY <1>1 DEF Latest, Height, Bases
<1>3. disk # <<>> BY <1>1 DEF Beginning
<1>4. NoOE \in Execution BY DEF NoOE, Execution
<1>5. <<>> \in Seq(State) /\ Len(<<>>) = 0 OBVIOUS
<1>6. TypeOK' BY <1>1, <1>4, <1>5 DEF TypeOK
<1>7. Stopped' /\ Rewriting' /\ Working' /\ Calling' /\ Beginning' /\ Committing'
  BY <1>1, <1>2, <1>3 DEF Stopped, Rewriting, Working, Calling, Beginning, Committing
<1>8. Height \in Nat /\ Height > 0 BY DEF Height, TypeOK
<1>9. Executing' BY <1>1, <1>2, <1>8 DEF Executing, NoOE
<1>. QED BY <1>6, <1>7, <1>9

LEMMA CommitPreserves == ASSUME IInv, Commit PROVE IInv'
<1>. USE DEF IInv
<1>1. /\ process = "node" /\ abci.call = "commit"
      /\ disk' = Append(disk, work) /\ finalize' = <<>> /\ abci' = Idle
      /\ UNCHANGED <<process, genesis, decided, work, initial, oe, crashes>>
  BY DEF Commit
<1>2. /\ disk' \in Seq(State) /\ Len(disk') = Len(disk) + 1 /\ disk' # <<>>
      /\ disk'[Len(disk')] = work /\ Len(disk) \in Nat
  BY <1>1 DEF TypeOK
<1>3. Latest' = work /\ Height' = Height + 1 /\ Height \in Nat
  BY <1>1, <1>2 DEF Latest, Height
<1>4. Height <= Len(decided) BY <1>1 DEF Calling
<1>5. <<>> \in Seq(State) /\ Len(<<>>) = 0 OBVIOUS
<1>6. TypeOK' BY <1>1, <1>2, <1>4, <1>5 DEF TypeOK, Height, Idle
<1>7. Stopped' /\ Rewriting' BY <1>1 DEF Stopped, Rewriting
<1>8. Working' BY <1>1, <1>2, <1>3 DEF Working, Bases
<1>9. Calling' /\ Beginning' /\ Committing'
  BY <1>1, <1>2 DEF Calling, Beginning, Committing, Idle
<1>10. Executing' BY <1>1, <1>2, <1>3 DEF Executing, Idle
<1>. QED BY <1>6, <1>7, <1>8, <1>9, <1>10

LEMMA NextPreserves == IInv /\ [Next]_vars => IInv'
<1>. SUFFICES ASSUME IInv, [Next]_vars PROVE IInv'
  OBVIOUS
<1>1. CASE UNCHANGED vars BY <1>1, SameIsIInv DEF vars
<1>2. CASE NodeStep
  BY <1>2, TestnetPreserves, InitChainPreserves, OptimisticExecutionPreserves,
     ExecuteOptimisticallyPreserves, FinalizeBlockPreserves, TakeResultPreserves,
     DropResultPreserves, ExecuteBlockPreserves, CommitPreserves DEF NodeStep
<1>3. CASE Start BY <1>3, NewPreserves DEF Start
<1>4. CASE StartTestnet BY <1>4, NewPreserves DEF StartTestnet
<1>5. CASE Crash BY <1>5, CrashPreserves
<1>6. CASE \E block \in Blocks : ProcessProposal(block) \/ Decide(block)
  BY <1>6, ProcessProposalPreserves, DecidePreserves
<1>7. CASE \E h \in 1 .. MaxHeight : Params(h)
  BY <1>7, SameIsIInv DEF Params
<1>8. CASE \E height \in {-1} \union 1 .. MaxHeight, modules \in {{"pulsar"}, {"auth"}} :
               appExport(height, modules)
  BY <1>8, SameIsIInv DEF appExport
<1>. QED BY <1>1, <1>2, <1>3, <1>4, <1>5, <1>6, <1>7, <1>8 DEF Next

(* The types of TypeOK, which no call, crash or restart leaves.             *)
THEOREM TypeCorrect == Spec => []TypeOK
<1>1. Init => IInv BY InitEstablishes
<1>2. IInv /\ [Next]_vars => IInv' BY NextPreserves
<1>3. IInv => TypeOK BY DEF IInv
<1>. QED BY <1>1, <1>2, <1>3, PTL DEF Spec

----------------------------------------------------------------------------
(* Every step commits what CommittedChain would, or nothing.                *)

LEMMA StepCommits ==
    ASSUME IInv, [Next]_vars
    PROVE  [Committed!Decide \/ Committed!Apply]_<<genesis, decided, disk>>
<1>1. CASE UNCHANGED <<genesis, decided, disk>> BY <1>1
<1>2. CASE \E block \in Blocks : Decide(block)
  BY <1>2 DEF Decide, Committed!Decide
<1>3. CASE Commit
  <2>1. /\ disk' = Append(disk, work) /\ UNCHANGED <<genesis, decided>>
        /\ Height <= Len(decided)
    BY <1>3 DEF Commit, IInv, Calling
  <2>2. PICK s \in Bases : work = Execute(s, decided[Height])
    BY <1>3 DEF Commit, IInv, Committing
  <2>3. Height \in DOMAIN decided BY <2>1 DEF Height, IInv, TypeOK
  <2>4. s \in {Committed!Before(Height)}
             \union (IF Height = 1 THEN {} ELSE {Rewritten(Committed!Before(Height))})
    <3>0. disk \in Seq(State) BY DEF IInv, TypeOK
    <3>1. CASE disk = <<>>
      <4>1. Height = 1 BY <3>1 DEF Height
      <4>. QED BY <2>2, <3>1, <4>1 DEF Bases, Committed!Before
    <3>2. CASE disk # <<>>
      <4>1. Height # 1 /\ Height - 1 = Len(disk) BY <3>0, <3>2 DEF Height
      <4>2. Committed!Before(Height) = Latest BY <3>2, <4>1 DEF Committed!Before, Latest
      <4>. QED BY <2>2, <3>2, <4>1, <4>2 DEF Bases
    <3>. QED BY <3>1, <3>2
  <2>. QED BY <2>1, <2>2, <2>3, <2>4 DEF Committed!Apply, Height
<1>4. Next => \/ Commit \/ UNCHANGED <<genesis, decided, disk>>
              \/ \E block \in Blocks : Decide(block)
  BY DEF Next, NodeStep, Start, StartTestnet, New, Crash, ProcessProposal, Params, appExport,
     initAppForTestnet, InitChain, OptimisticExecution, ExecuteOptimistically,
     FinalizeBlock, TakeResult, DropResult, ExecuteBlock, Answer
<1>. QED BY <1>1, <1>2, <1>3, <1>4 DEF vars

(* Through proposals that are not decided, interrupted blocks, crashes and  *)
(* testnets that come to nothing, the application commits the decided       *)
(* blocks, each once and on the state of the one before (CommitsDecided).   *)
THEOREM ImplementsCommittedChain == Spec => CommitsDecided
<1>1. Init => IInv BY InitEstablishes
<1>2. IInv /\ [Next]_vars => IInv' BY NextPreserves
<1>3. Init => Committed!Init BY DEF Init, Committed!Init
<1>4. IInv /\ [Next]_vars =>
          [Committed!Decide \/ Committed!Apply]_<<genesis, decided, disk>>
  BY StepCommits
<1>. QED BY <1>1, <1>2, <1>3, <1>4, PTL DEF Spec, CommitsDecided, Committed!Spec

----------------------------------------------------------------------------
(* The configuration: nothing of it is forgotten.                           *)

LEMMA InitGenesisHas ==
    ToSet(InitGenesis) = {"consensus", "auth", "bank", "distribution", "staking", "slashing",
        "gov", "mint", "genutil", "evidence", "authz", "feegrant", "vesting", "nft", "group",
        "upgrade", "circuit", "epochs", "ibc", "transfer", "interchainaccounts", "pulsar"}
BY DEF ToSet, InitGenesis

LEMMA EveryGenesisIsCalled == HasGenesis \subseteq ToSet(InitGenesis)
BY InitGenesisHas DEF HasGenesis, Modules, ConfigModules, IBCModules

LEMMA EveryGenesisHasItsTurn == GenesisInOrder
<1>1. Len(InitGenesis) = 22 BY DEF InitGenesis
<1>2. ASSUME NEW i \in 1 .. 22 PROVE InitGenesis[i] \in Modules
  BY <1>2 DEF InitGenesis, Modules, ConfigModules, IBCModules
<1>3. ASSUME NEW i \in 1 .. 22
      PROVE  NeedsGenesisOf(InitGenesis[i]) \subseteq {InitGenesis[j] : j \in 1 .. i - 1}
  <2>. DEFINE Before == {InitGenesis[j] : j \in 1 .. i - 1}
  <2>1. \A j \in 1 .. i - 1 : InitGenesis[j] \in Before OBVIOUS
  <2>. HIDE DEF Before
  <2>2. CASE i = 9
    <3>1. NeedsGenesisOf(InitGenesis[i]) = {"staking", "bank", "auth", "distribution"}
      <4>1. InitGenesis[9] = "genutil" BY DEF InitGenesis
      <4>. QED BY <2>2, <4>1 DEF NeedsGenesisOf
    <3>2. /\ InitGenesis[5] = "staking" /\ InitGenesis[3] = "bank"
          /\ InitGenesis[2] = "auth" /\ InitGenesis[4] = "distribution"
      BY DEF InitGenesis
    <3>. QED BY <2>1, <2>2, <3>1, <3>2 DEF Before
  <2>3. CASE i = 5
    <3>1. NeedsGenesisOf(InitGenesis[i]) = {"auth", "bank"}
      <4>1. InitGenesis[5] = "staking" BY DEF InitGenesis
      <4>. QED BY <2>3, <4>1 DEF NeedsGenesisOf
    <3>2. InitGenesis[2] = "auth" /\ InitGenesis[3] = "bank" BY DEF InitGenesis
    <3>. QED BY <2>1, <2>3, <3>1, <3>2 DEF Before
  <2>4. CASE i \in {20, 21}
    <3>1. NeedsGenesisOf(InitGenesis[i]) = {"ibc"}
      <4>1. InitGenesis[20] = "transfer" /\ InitGenesis[21] = "interchainaccounts"
        BY DEF InitGenesis
      <4>2. InitGenesis[i] \in {"transfer", "interchainaccounts"} BY <2>4, <4>1
      <4>. QED BY <4>2 DEF NeedsGenesisOf
    <3>2. InitGenesis[19] = "ibc" BY DEF InitGenesis
    <3>. QED BY <2>1, <2>4, <3>1, <3>2 DEF Before
  <2>5. CASE i \notin {5, 9, 20, 21}
    <3>1. InitGenesis[i] \notin {"genutil", "staking", "interchainaccounts", "transfer"}
      BY <1>3, <2>5 DEF InitGenesis
    <3>2. NeedsGenesisOf(InitGenesis[i]) = {} BY <3>1 DEF NeedsGenesisOf
    <3>. QED BY <3>2
  <2>. QED BY <2>2, <2>3, <2>4, <2>5 DEF Before
<1>. QED BY <1>1, <1>2, <1>3 DEF GenesisInOrder

LEMMA ConfigurationLoads == Load
<1>1. HasPreBlocker \subseteq ToSet(PreBlockers) BY DEF HasPreBlocker, PreBlockers, ToSet
<1>2. HasBeginBlock \subseteq ToSet(BeginBlockers) BY DEF HasBeginBlock, BeginBlockers, ToSet
<1>3. HasEndBlock \subseteq ToSet(EndBlockers) BY DEF HasEndBlock, EndBlockers, ToSet
<1>4. IBCKeeperStores \subseteq IBCStores BY DEF IBCKeeperStores, IBCStores
<1>. QED BY <1>1, <1>2, <1>3, <1>4, EveryGenesisIsCalled DEF Load

(* The configuration and the orders of the modules are complete, so that    *)
(* New fails for no configuration and InitChain only for a genesis file     *)
(* that gives no validators (StartsWithValidators).                         *)
THEOREM StartsUnlessNoValidators == Spec => []StartsWithValidators
<1>1. Init => StartsWithValidators BY DEF Init, StartsWithValidators
<1>2. StartsWithValidators /\ [Next]_vars => StartsWithValidators'
  <2>. SUFFICES ASSUME StartsWithValidators, [Next]_vars PROVE StartsWithValidators'
    OBVIOUS
  <2>1. /\ UNCHANGED genesis
        /\ process' = "failed" => process = "failed" \/ ~ GivesValidators(genesis)
    BY ConfigurationLoads, EveryGenesisHasItsTurn
    DEF vars, Next, NodeStep, Start, StartTestnet, New, Crash, ProcessProposal,
        Params, appExport, initAppForTestnet, InitChain, OptimisticExecution, Decide,
        ExecuteOptimistically, FinalizeBlock, TakeResult, DropResult, ExecuteBlock, Answer,
        Commit
  <2>2. GivesValidators(genesis)' <=> GivesValidators(genesis) BY <2>1
  <2>. QED BY <2>1, <2>2 DEF StartsWithValidators
<1>. QED BY <1>1, <1>2, PTL DEF Spec

----------------------------------------------------------------------------
(* Queries and exports.  FlattenSeq is a recursive function, for which the  *)
(* prover knows an equation only where there is a function that meets it.   *)

LEMMA LeastNat ==
    ASSUME NEW T, T \subseteq Nat, T # {}
    PROVE  \E n \in T : \A m \in T : n <= m
<1>. DEFINE R == OpToRel(<, Nat)
<1>1. \A m, n \in Nat : <<m, n>> \in R <=> m < n
  <2>1. R = {ss \in Nat \X Nat : ss[1] < ss[2]} BY DEF OpToRel
  <2>. HIDE DEF R
  <2>. QED BY <2>1
<1>2. IsWellFoundedOn(R, Nat) BY NatLessThanWellFounded
<1>. HIDE DEF R
<1>3. PICK n \in T : \A m \in T : ~ (<<m, n>> \in R) BY <1>2, WFMin
<1>4. ASSUME NEW m \in T PROVE n <= m
  <2>1. m \in Nat /\ n \in Nat /\ ~ (m < n) BY <1>1, <1>3
  <2>. QED BY <2>1
<1>. QED BY <1>4

LEMMA NatSteps ==
    ASSUME NEW A, 0 \in A, \A n \in Nat : n \in A => n + 1 \in A
    PROVE  \A n \in Nat : n \in A
<1>. DEFINE T == Nat \ A
<1>1. SUFFICES ASSUME T # {} PROVE FALSE OBVIOUS
<1>2. PICK n \in T : \A m \in T : n <= m
  <2>1. T \subseteq Nat OBVIOUS
  <2>. QED BY <1>1, <2>1, LeastNat
<1>3. n \in Nat \ {0} /\ n \notin A OBVIOUS
<1>4. n - 1 \in Nat /\ n - 1 \in A BY <1>2, <1>3
<1>. QED BY <1>3, <1>4

\* The function that FlattenSeq computes the flattened sequence with.
Flattens(s, f) == f = [i \in 1 .. Len(s) |-> IF i = 1 THEN s[i] ELSE f[i - 1] \o s[i]]

LEMMA FlattenUnfolds ==
    ASSUME NEW s
    PROVE  FlattenSeq(s) = IF Len(s) = 0 THEN s ELSE (CHOOSE f : Flattens(s, f))[Len(s)]
BY DEF FlattenSeq, Flattens

LEMMA FlattensExists ==
    ASSUME NEW S, NEW s \in Seq(Seq(S))
    PROVE  \E f : Flattens(s, f)
<1>. DEFINE Step(f, i) == IF i = 1 THEN s[i] ELSE f[i - 1] \o s[i]
            Made(n, f) == f = [i \in 1 .. n |-> Step(f, i)]
            A == {n \in Nat : \E f : Made(n, f)}
<1>1. 0 \in A
  <2>. DEFINE none == [i \in 1 .. 0 |-> 0]
  <2>1. Made(0, none) OBVIOUS
  <2>. HIDE DEF Made
  <2>. QED BY <2>1
<1>2. ASSUME NEW n \in Nat, n \in A PROVE n + 1 \in A
  <2>1. PICK f : f = [i \in 1 .. n |-> Step(f, i)] BY <1>2
  <2>. DEFINE g == [i \in 1 .. n + 1 |-> IF i <= n THEN f[i] ELSE Step(f, i)]
  <2>2. ASSUME NEW i \in 1 .. n + 1 PROVE g[i] = Step(g, i)
    <3>1. i # 1 => i - 1 \in 1 .. n /\ i - 1 \in 1 .. n + 1 /\ i - 1 <= n OBVIOUS
    <3>2. i # 1 => g[i - 1] = f[i - 1] BY <3>1
    <3>3. \A j \in 1 .. n : f[j] = Step(f, j) BY <2>1, Zenon
    <3>4. i <= n => i \in 1 .. n OBVIOUS
    <3>. QED BY <3>2, <3>3, <3>4
  <2>3. Made(n + 1, g) BY <2>2
  <2>. HIDE DEF Made, g
  <2>. QED BY <2>3
<1>. HIDE DEF A
<1>3. Len(s) \in A BY <1>1, <1>2, NatSteps
<1>. QED BY <1>3 DEF A, Flattens

LEMMA FlattensAt ==
    ASSUME NEW s, NEW f, Flattens(s, f), NEW i \in 1 .. Len(s)
    PROVE  f[i] = IF i = 1 THEN s[i] ELSE f[i - 1] \o s[i]
BY Zenon DEF Flattens

Begins(s, t) ==
    /\ Len(s) \in Nat /\ Len(t) \in Nat /\ Len(s) <= Len(t)
    /\ \A i \in 1 .. Len(s) : s[i] = t[i]

LEMMA FlattensAgree ==
    ASSUME NEW s, NEW t, Begins(s, t), NEW f, NEW g, Flattens(s, f), Flattens(t, g),
           NEW k \in 1 .. Len(s)
    PROVE  f[k] = g[k]
<1>. USE DEF Begins
<1>. DEFINE A == {n \in Nat : n \in 1 .. Len(s) => f[n] = g[n]}
<1>1. 0 \in A OBVIOUS
<1>2. ASSUME NEW n \in Nat, n \in A PROVE n + 1 \in A
  <2>. SUFFICES ASSUME n + 1 \in 1 .. Len(s) PROVE f[n + 1] = g[n + 1] OBVIOUS
  <2>1. n + 1 \in 1 .. Len(t) /\ s[n + 1] = t[n + 1] OBVIOUS
  <2>2. /\ f[n + 1] = IF n + 1 = 1 THEN s[n + 1] ELSE f[n + 1 - 1] \o s[n + 1]
        /\ g[n + 1] = IF n + 1 = 1 THEN t[n + 1] ELSE g[n + 1 - 1] \o t[n + 1]
    BY <2>1, FlattensAt
  <2>3. n + 1 # 1 => n + 1 - 1 = n /\ n \in 1 .. Len(s) OBVIOUS
  <2>4. n + 1 # 1 => f[n] = g[n] BY <1>2, <2>3
  <2>. QED BY <2>1, <2>2, <2>3, <2>4
<1>. HIDE DEF A
<1>3. \A n \in Nat : n \in A BY <1>1, <1>2, NatSteps
<1>4. k \in Nat /\ k \in A BY <1>3
<1>. QED BY <1>4 DEF A

LEMMA FlattenNext ==
    ASSUME NEW S, NEW s \in Seq(Seq(S)), NEW t \in Seq(Seq(S)), Len(t) = Len(s) + 1,
           \A i \in 1 .. Len(s) : s[i] = t[i]
    PROVE  FlattenSeq(t) = FlattenSeq(s) \o t[Len(t)]
<1>0. Begins(s, t) BY DEF Begins
<1>. DEFINE f == CHOOSE f : Flattens(s, f)
            g == CHOOSE g : Flattens(t, g)
<1>1. Flattens(s, f) /\ Flattens(t, g) BY FlattensExists
<1>. HIDE DEF f, g
<1>2. Len(s) \in Nat /\ Len(t) \in Nat /\ t[Len(t)] \in Seq(S) OBVIOUS
<1>3. FlattenSeq(t) = g[Len(t)] BY <1>2, FlattenUnfolds DEF g
<1>4. g[Len(t)] = IF Len(t) = 1 THEN t[Len(t)] ELSE g[Len(t) - 1] \o t[Len(t)]
  <2>1. Len(t) \in 1 .. Len(t) BY <1>2
  <2>. QED BY <1>1, <2>1, FlattensAt
<1>5. CASE Len(s) = 0
  <2>1. s = <<>> /\ FlattenSeq(s) = s BY <1>5, FlattenUnfolds
  <2>2. <<>> \o t[Len(t)] = t[Len(t)] BY <1>2
  <2>. QED BY <1>3, <1>4, <1>5, <2>1, <2>2
<1>6. CASE Len(s) # 0
  <2>1. FlattenSeq(s) = f[Len(s)] BY <1>6, FlattenUnfolds DEF f
  <2>2. f[Len(s)] = g[Len(s)]
    <3>1. Len(s) \in 1 .. Len(s) BY <1>2, <1>6
    <3>. QED BY <1>0, <1>1, <3>1, FlattensAgree
  <2>3. Len(t) - 1 = Len(s) /\ Len(t) # 1 BY <1>2, <1>6
  <2>. QED BY <1>3, <1>4, <2>1, <2>2, <2>3
<1>. QED BY <1>5, <1>6

(* What a state shows of the blocks up to a height.                         *)
Signed(h) == authority \in UNION {Range(decided[i]) : i \in 1 .. h}

Shows(s, h) ==
    /\ s.delivered = FlattenSeq(SubSeq(decided, 1, h))
    /\ s.params = "stored" <=> "pulsar" \in genesis.sections \/ Signed(h)

(* Every version shows the blocks up to its height, and a reply is of the   *)
(* version of its height.                                                   *)
Shown == \A h \in 1 .. Len(disk) : Shows(disk[h], h)

Replied ==
    reply # <<>> =>
        LET r == reply[1]
        IN  /\ r.height \in 0 .. Len(disk)
            /\ r.state = IF r.height = 0 THEN Empty ELSE disk[r.height]
            /\ r.ok <=> (r.asked = "pulsar" => r.state.params = "stored")

LEMMA BlocksUpTo ==
    ASSUME NEW d \in Seq(Blocks), NEW h \in 0 .. Len(d)
    PROVE  /\ SubSeq(d, 1, h) \in Seq(Seq(Signers)) /\ Len(SubSeq(d, 1, h)) = h
           /\ \A i \in 1 .. h : SubSeq(d, 1, h)[i] = d[i]
<1>1. /\ Len(SubSeq(d, 1, h)) = h /\ SubSeq(d, 1, h) \in Seq(Blocks)
      /\ \A i \in 1 .. h : SubSeq(d, 1, h)[i] = d[i]
  OBVIOUS
<1>2. ASSUME NEW S, NEW q, NEW B, q \in Seq(B), B \subseteq S PROVE q \in Seq(S)
  <2>1. Len(q) \in Nat /\ q = [i \in 1 .. Len(q) |-> q[i]] BY <1>2
  <2>2. \A i \in 1 .. Len(q) : q[i] \in S BY <1>2
  <2>3. [i \in 1 .. Len(q) |-> q[i]] \in Seq(S) BY <2>1, <2>2
  <2>. QED BY <2>1, <2>3
<1>. QED BY <1>1, <1>2

LEMMA NothingBefore == FlattenSeq(SubSeq(decided, 1, 0)) = <<>>
<1>1. SubSeq(decided, 1, 0) = <<>> OBVIOUS
<1>. QED BY <1>1, FlattenUnfolds

LEMMA ShowsNext ==
    ASSUME TypeOK, NEW s \in State, NEW h \in 1 .. Len(decided), Shows(s, h - 1)
    PROVE  Shows(Execute(s, decided[h]), h)
<1>. DEFINE b == decided[h]
<1>1. decided \in Seq(Blocks) /\ b \in Seq(Signers) BY DEF TypeOK
<1>2. FlattenSeq(SubSeq(decided, 1, h)) = FlattenSeq(SubSeq(decided, 1, h - 1)) \o b
  <2>. DEFINE old == SubSeq(decided, 1, h - 1)
              new == SubSeq(decided, 1, h)
  <2>1. h - 1 \in 0 .. Len(decided) /\ h \in 0 .. Len(decided) BY <1>1
  <2>2. old \in Seq(Seq(Signers)) /\ Len(old) = h - 1 /\ \A i \in 1 .. h - 1 : old[i] = decided[i]
    BY <1>1, <2>1, BlocksUpTo
  <2>3. new \in Seq(Seq(Signers)) /\ Len(new) = h /\ \A i \in 1 .. h : new[i] = decided[i]
    BY <1>1, <2>1, BlocksUpTo
  <2>. HIDE DEF old, new
  <2>4. Len(new) = Len(old) + 1 /\ \A i \in 1 .. Len(old) : old[i] = new[i]
    <3>1. h = (h - 1) + 1 /\ \A i \in 1 .. h - 1 : i \in 1 .. h BY <1>1
    <3>. QED BY <2>2, <2>3, <3>1
  <2>5. FlattenSeq(new) = FlattenSeq(old) \o new[Len(new)]
    BY <2>2, <2>3, <2>4, FlattenNext
  <2>6. new[Len(new)] = b BY <1>1, <2>3
  <2>. QED BY <2>5, <2>6 DEF old, new
<1>3. Signed(h) <=> Signed(h - 1) \/ authority \in Range(b)
  <2>1. 1 .. h = (1 .. h - 1) \union {h} OBVIOUS
  <2>. QED BY <2>1 DEF Signed
<1>4. Range(b) = ToSet(b) BY DEF Range, ToSet
<1>. HIDE DEF b
<1>5. Execute(s, b).delivered = s.delivered \o b
      /\ Execute(s, b).params = IF authority \in ToSet(b) THEN "stored" ELSE s.params
  BY DEF Execute, State
<1>. QED BY <1>2, <1>3, <1>4, <1>5 DEF Shows, b

LEMMA GenesisShows == Shows(GenesisState(genesis), 0)
<1>1. GenesisState(genesis).delivered = <<>>
      /\ GenesisState(genesis).params = IF "pulsar" \in genesis.sections THEN "stored" ELSE "absent"
  BY DEF GenesisState, Empty
<1>2. ~ Signed(0) BY DEF Signed
<1>. QED BY <1>1, <1>2, NothingBefore DEF Shows

LEMMA CommitShows ==
    ASSUME IInv, Shown, Commit
    PROVE  Shown'
<1>1. /\ disk' = Append(disk, work) /\ UNCHANGED <<genesis, decided>>
      /\ Height \in 1 .. Len(decided) /\ Height = Len(disk) + 1
      /\ disk \in Seq(State) /\ Len(disk) \in Nat
  BY DEF Commit, IInv, TypeOK, Height, Calling
<1>2. PICK s \in Bases : work = Execute(s, decided[Height])
  BY DEF Commit, IInv, Committing
<1>3. s \in State BY <1>2, BasesAreStates DEF IInv
<1>4. Shows(s, Height - 1)
  <2>1. CASE disk = <<>>
    <3>1. Height - 1 = 0 BY <1>1, <2>1
    <3>. QED BY <1>2, <2>1, <3>1, GenesisShows DEF Bases
  <2>2. CASE disk # <<>>
    <3>1. Height - 1 = Len(disk) /\ Len(disk) \in 1 .. Len(disk) BY <1>1, <2>2
    <3>2. Latest \in State /\ Shows(Latest, Height - 1)
      BY <2>2, <3>1, LatestIsState DEF IInv, Latest, Shown
    <3>3. Shows(Rewritten(Latest), Height - 1) BY <3>2 DEF Shows, Rewritten, State
    <3>. QED BY <1>2, <2>2, <3>2, <3>3 DEF Bases
  <2>. QED BY <2>1, <2>2
<1>5. Shows(work, Height) BY <1>1, <1>2, <1>3, <1>4, ShowsNext DEF IInv
<1>6. /\ Len(disk') = Len(disk) + 1 /\ disk'[Height] = work
      /\ \A h \in 1 .. Len(disk) : disk'[h] = disk[h]
  BY <1>1
<1>7. ASSUME NEW h \in 1 .. Len(disk') PROVE Shows(disk[h], h)'
  <2>1. CASE h = Height BY <1>1, <1>5, <1>6, <2>1 DEF Shows, Signed
  <2>2. CASE h # Height
    <3>1. h \in 1 .. Len(disk) BY <1>1, <1>6, <2>2
    <3>2. Shows(disk[h], h) /\ disk'[h] = disk[h] BY <1>6, <3>1 DEF Shown
    <3>. QED BY <1>1, <3>2 DEF Shows, Signed
  <2>. QED BY <2>1, <2>2
<1>. QED BY <1>7 DEF Shown

LEMMA DecideShows ==
    ASSUME IInv, Shown, NEW block \in Blocks, Decide(block)
    PROVE  Shown'
<1>1. decided' = Append(decided, block) /\ UNCHANGED <<genesis, disk>>
  BY DEF Decide
<1>2. decided \in Seq(Blocks) /\ Len(disk) <= Len(decided) /\ Len(disk) \in Nat
  BY DEF IInv, TypeOK
<1>3. ASSUME NEW h \in 1 .. Len(disk) PROVE Shows(disk[h], h)'
  <2>1. \A i \in 1 .. h : decided'[i] = decided[i] BY <1>1, <1>2
  <2>2. SubSeq(decided', 1, h) = SubSeq(decided, 1, h) BY <1>1, <1>2
  <2>3. Signed(h)' <=> Signed(h) BY <2>1 DEF Signed
  <2>. QED BY <1>1, <2>2, <2>3 DEF Shown, Shows
<1>. QED BY <1>1, <1>3 DEF Shown

LEMMA ReplyShows ==
    ASSUME IInv, UNCHANGED disk,
           \/ \E h \in 1 .. MaxHeight : Params(h)
           \/ \E height \in {-1} \union 1 .. MaxHeight, modules \in {{"pulsar"}, {"auth"}} :
                  appExport(height, modules)
    PROVE  Replied'
<1>0. Len(disk) \in Nat BY DEF IInv, TypeOK
<1>1. CASE \E h \in 1 .. MaxHeight : Params(h)
  <2>1. PICK h \in 1 .. Len(disk) :
            reply' = <<[asked |-> "query", height |-> h, ok |-> TRUE, state |-> disk[h]]>>
    BY <1>1 DEF Params
  <2>. QED BY <1>0, <2>1 DEF Replied
<1>2. ASSUME NEW height \in {-1} \union 1 .. MaxHeight, NEW modules \in {{"pulsar"}, {"auth"}},
             appExport(height, modules)
      PROVE  Replied'
  <2>. DEFINE s == IF height = -1 THEN Latest ELSE disk[height]
              n == IF height = -1 THEN Len(disk) ELSE height
              ok == "pulsar" \in modules => s.params = "stored"
              asked == IF "pulsar" \in modules THEN "pulsar" ELSE "others"
  <2>1. reply' = <<[asked |-> asked, height |-> n, ok |-> ok, state |-> s]>>
    BY <1>2 DEF appExport, ExportGenesis
  <2>2. n \in 0 .. Len(disk) BY <1>0, <1>2 DEF appExport
  <2>3. s = IF n = 0 THEN Empty ELSE disk[n]
    BY <1>0, <1>2 DEF appExport, Latest, IInv, TypeOK
  <2>4. ok <=> (asked = "pulsar" => s.params = "stored") OBVIOUS
  <2>. HIDE DEF s, n, ok, asked
  <2>. QED BY <2>1, <2>2, <2>3, <2>4 DEF Replied
<1>. QED BY <1>1, <1>2

LEMMA StepShows ==
    ASSUME IInv, Shown, Replied, [Next]_vars
    PROVE  Shown' /\ Replied'
<1>1. CASE UNCHANGED <<genesis, decided, disk, reply>>
  BY <1>1 DEF Shown, Shows, Signed, Replied
<1>2. CASE Commit
  <2>1. disk' = Append(disk, work) /\ UNCHANGED reply /\ disk \in Seq(State)
    BY <1>2 DEF Commit, IInv, TypeOK
  <2>2. Len(disk') = Len(disk) + 1 /\ \A h \in 1 .. Len(disk) : disk'[h] = disk[h]
        /\ Len(disk) \in Nat
    BY <2>1
  <2>3. Replied' BY <2>1, <2>2 DEF Replied
  <2>. QED BY <1>2, <2>3, CommitShows
<1>3. CASE \E block \in Blocks : Decide(block)
  <2>1. UNCHANGED <<disk, reply>> BY <1>3 DEF Decide
  <2>2. Replied' BY <2>1 DEF Replied
  <2>. QED BY <1>3, <2>2, DecideShows
<1>4. CASE \/ \E h \in 1 .. MaxHeight : Params(h)
           \/ \E height \in {-1} \union 1 .. MaxHeight, modules \in {{"pulsar"}, {"auth"}} :
                  appExport(height, modules)
  <2>1. UNCHANGED <<genesis, decided, disk>> BY <1>4 DEF Params, appExport
  <2>2. Shown' BY <2>1 DEF Shown, Shows, Signed
  <2>. QED BY <1>4, <2>1, <2>2, ReplyShows
<1>5. NodeStep => Commit \/ UNCHANGED <<genesis, decided, disk, reply>>
  BY DEF NodeStep, initAppForTestnet, InitChain, OptimisticExecution, ExecuteOptimistically,
     FinalizeBlock, TakeResult, DropResult, ExecuteBlock, Answer
<1>6. Start \/ StartTestnet \/ Crash => UNCHANGED <<genesis, decided, disk, reply>>
  BY DEF Start, StartTestnet, New, Crash
<1>7. ASSUME NEW block, ProcessProposal(block) PROVE UNCHANGED <<genesis, decided, disk, reply>>
  BY <1>7 DEF ProcessProposal
<1>8. UNCHANGED vars => UNCHANGED <<genesis, decided, disk, reply>> BY DEF vars
<1>. QED BY <1>1, <1>2, <1>3, <1>4, <1>5, <1>6, <1>7, <1>8 DEF Next

(* A query or an export shows the blocks up to the height it was asked for, *)
(* whatever was proposed, executed or committed since, and an export of     *)
(* x/pulsar fails exactly without stored parameters (ShowsItsHeight).       *)
THEOREM RepliesShowTheirHeight == Spec => []ShowsItsHeight
<1>1. Init => IInv /\ Shown /\ Replied
  <2>1. Init => Shown /\ Replied BY DEF Init, Shown, Replied
  <2>. QED BY <2>1, InitEstablishes
<1>2. IInv /\ Shown /\ Replied /\ [Next]_vars => IInv' /\ Shown' /\ Replied'
  BY NextPreserves, StepShows
<1>3. IInv /\ Shown /\ Replied => ShowsItsHeight
  <2>. SUFFICES ASSUME Shown, Replied, Len(disk) \in Nat, reply # <<>> PROVE ShowsItsHeight
    BY DEF ShowsItsHeight, IInv, TypeOK
  <2>. DEFINE r == reply[1]
  <2>1. /\ r.height \in 0 .. Len(disk)
        /\ r.state = IF r.height = 0 THEN Empty ELSE disk[r.height]
        /\ r.ok <=> (r.asked = "pulsar" => r.state.params = "stored")
    BY DEF Replied
  <2>2. CASE r.height = 0
    <3>1. Empty.delivered = <<>> /\ Empty.params # "stored" BY DEF Empty
    <3>. QED BY <2>1, <2>2, <3>1, NothingBefore DEF ShowsItsHeight
  <2>3. CASE r.height # 0
    <3>1. Shows(r.state, r.height) /\ r.height > 0 BY <2>1, <2>3 DEF Shown
    <3>. QED BY <2>1, <3>1 DEF ShowsItsHeight, Shows, Signed
  <2>. QED BY <2>2, <2>3
<1>. QED BY <1>1, <1>2, <1>3, PTL DEF Spec
=============================================================================
