-------------------------- MODULE WireCodecProofs --------------------------
(* Type correctness of WireCodec, the absence of panics and the round trip  *)
(* of messages, for every word size, every input and every authority.       *)
EXTENDS WireCodec, FiniteSetTheorems, SequenceTheorems, WellFoundedInduction, TLAPS

USE WireAssumption, SliceAssumption

----------------------------------------------------------------------------
(* Machine integers: a sum of two lengths either is itself or is negative.  *)

LEMMA AsIntIsInt == ASSUME NEW n \in Int PROVE AsInt(n) \in Int
<1>1. n % WordSize \in 0 .. WordSize - 1 OBVIOUS
<1>. QED BY <1>1 DEF AsInt

LEMMA AsIntIsItself ==
    ASSUME NEW n \in 0 .. WordSize - 1, AsInt(n) >= 0
    PROVE  AsInt(n) = n /\ n < WordSize \div 2
<1>1. n % WordSize = n OBVIOUS
<1>. QED BY <1>1 DEF AsInt

(* After the two checks of a length its end is not before its beginning.    *)
LEMMA LengthEndsAfter ==
    ASSUME start \in Nat, index \in Nat, index >= start,
           index - start < WordSize \div 2, value \in 0 .. WordSize - 1,
           ~ InvalidLength
    PROVE  postIndex \in Nat /\ postIndex >= index
<1>. DEFINE n == index - start + AsInt(value)
<1>1. AsInt(value) = value /\ value < WordSize \div 2
  <2>1. AsInt(value) \in Int /\ ~ AsInt(value) < 0 BY AsIntIsInt DEF InvalidLength
  <2>. QED BY <2>1, AsIntIsItself
<1>2. n \in 0 .. WordSize - 1 BY <1>1
<1>3. AsInt(n) \in Int BY <1>2, AsIntIsInt
<1>4. AsInt(n) + start >= start BY <1>3 DEF InvalidLength, postIndex
<1>5. AsInt(n) = n
  <2>1. AsInt(n) >= 0 BY <1>3, <1>4
  <2>. QED BY <2>1, <1>2, AsIntIsItself
<1>. QED BY <1>1, <1>5 DEF postIndex

----------------------------------------------------------------------------
(* Varints.  Weight is a recursive function, for which the prover knows an  *)
(* equation only where there is a function that meets it.                   *)

LEMMA LeastNat ==
    ASSUME NEW T, T \subseteq Nat, T # {}
    PROVE  \E n \in T : \A m \in T : n <= m
<1>. DEFINE R == OpToRel(<, Nat)
<1>1. \A m, n \in Nat : <<m, n>> \in R <=> m < n
  <2>1. R = {ss \in Nat \X Nat : ss[1] < ss[2]} BY DEF OpToRel
  <2>. HIDE DEF R
  <2>. QED BY <2>1
<1>2. IsWellFoundedOn(R, Nat) BY NatLessThanWellFounded
<1>. HIDE DEF R
<1>3. PICK n \in T : \A m \in T : ~ (<<m, n>> \in R) BY <1>2, WFMin
<1>4. ASSUME NEW m \in T PROVE n <= m
  <2>1. m \in Nat /\ n \in Nat OBVIOUS
  <2>2. ~ (m < n) BY <1>1, <1>3, <2>1
  <2>. QED BY <2>1, <2>2
<1>. QED BY <1>4

LEMMA NatSteps ==
    ASSUME NEW A, 0 \in A, \A n \in Nat : n \in A => n + 1 \in A
    PROVE  \A n \in Nat : n \in A
<1>. DEFINE T == Nat \ A
<1>1. SUFFICES ASSUME T # {} PROVE FALSE OBVIOUS
<1>2. PICK n \in T : \A m \in T : n <= m
  <2>1. T \subseteq Nat OBVIOUS
  <2>. HIDE DEF T
  <2>. QED BY <1>1, <2>1, LeastNat
<1>3. n \in Nat \ {0} /\ n \notin A OBVIOUS
<1>4. n - 1 \in Nat /\ n - 1 \in A BY <1>2, <1>3
<1>5. (n - 1) + 1 \in A BY <1>4
<1>. QED BY <1>3, <1>5

WeightStep(f, k) == IF k = 0 THEN 1 ELSE GroupSize * f[k - 1]

WeighsTo(f, n) == f = [k \in 0 .. n |-> WeightStep(f, k)]

LEMMA WeighsToAt ==
    ASSUME NEW f, NEW n, WeighsTo(f, n), NEW k \in 0 .. n
    PROVE  f[k] = WeightStep(f, k)
BY Zenon DEF WeighsTo

LEMMA WeighsToExists == \A n \in Nat : \E f : WeighsTo(f, n)
<1>. DEFINE A == {n \in Nat : \E f : WeighsTo(f, n)}
<1>1. 0 \in A
  <2>. DEFINE f == [k \in 0 .. 0 |-> 1]
  <2>1. f = [k \in 0 .. 0 |-> WeightStep(f, k)] BY DEF WeightStep
  <2>. HIDE DEF f
  <2>. QED BY <2>1 DEF WeighsTo
<1>2. ASSUME NEW n \in Nat, n \in A PROVE n + 1 \in A
  <2>1. PICK f : WeighsTo(f, n) BY <1>2
  <2>. DEFINE g == [k \in 0 .. n + 1 |-> IF k <= n THEN f[k] ELSE WeightStep(f, k)]
  <2>2. ASSUME NEW k \in 0 .. n + 1 PROVE g[k] = WeightStep(g, k)
    <3>1. k # 0 => k - 1 \in 0 .. n + 1 /\ k - 1 <= n OBVIOUS
    <3>2. k # 0 => g[k - 1] = f[k - 1] BY <3>1
    <3>3. WeightStep(g, k) = WeightStep(f, k) BY <3>2 DEF WeightStep
    <3>4. k <= n => k \in 0 .. n OBVIOUS
    <3>5. k <= n => f[k] = WeightStep(f, k) BY <2>1, <3>4, WeighsToAt
    <3>. QED BY <3>3, <3>5
  <2>3. WeighsTo(g, n + 1) BY <2>2 DEF WeighsTo
  <2>. HIDE DEF g
  <2>. QED BY <2>3
<1>. HIDE DEF A
<1>3. \A n \in Nat : n \in A BY <1>1, <1>2, NatSteps
<1>. QED BY <1>3 DEF A

LEMMA WeighsToAgree ==
    ASSUME NEW f, NEW g, NEW m \in Nat, NEW n \in Nat, WeighsTo(f, m), WeighsTo(g, n)
    PROVE  \A k \in Nat : k <= m /\ k <= n => f[k] = g[k]
<1>. DEFINE A == {k \in Nat : k <= m /\ k <= n => f[k] = g[k]}
<1>1. \A k \in 0 .. m : f[k] = WeightStep(f, k) BY WeighsToAt
<1>2. \A k \in 0 .. n : g[k] = WeightStep(g, k) BY WeighsToAt
<1>3. 0 \in A
  <2>1. f[0] = 1 BY <1>1 DEF WeightStep
  <2>2. g[0] = 1 BY <1>2 DEF WeightStep
  <2>. QED BY <2>1, <2>2
<1>4. ASSUME NEW k \in Nat, k \in A PROVE k + 1 \in A
  <2>. SUFFICES ASSUME k + 1 <= m, k + 1 <= n PROVE f[k + 1] = g[k + 1] OBVIOUS
  <2>1. f[k] = g[k] BY <1>4
  <2>2. k + 1 \in 0 .. m /\ k + 1 \in 0 .. n /\ k + 1 # 0 /\ (k + 1) - 1 = k OBVIOUS
  <2>3. f[k + 1] = GroupSize * f[k] BY <1>1, <2>2 DEF WeightStep
  <2>4. g[k + 1] = GroupSize * g[k] BY <1>2, <2>2 DEF WeightStep
  <2>. QED BY <2>1, <2>3, <2>4
<1>. HIDE DEF A
<1>5. \A k \in Nat : k \in A BY <1>3, <1>4, NatSteps
<1>. QED BY <1>5 DEF A

LEMMA WeightUnfolds ==
    \A k \in Nat : Weight[k] = IF k = 0 THEN 1 ELSE GroupSize * Weight[k - 1]
<1>. DEFINE up(n) == CHOOSE f : WeighsTo(f, n)
            W == [k \in Nat |-> up(k)[k]]
<1>1. \A n \in Nat : WeighsTo(up(n), n) BY WeighsToExists
<1>2. ASSUME NEW k \in Nat PROVE W[k] = WeightStep(W, k)
  <2>. HIDE DEF up
  <2>1. W[k] = up(k)[k] OBVIOUS
  <2>2. up(k)[k] = WeightStep(up(k), k)
    <3>1. k \in 0 .. k OBVIOUS
    <3>. QED BY <1>1, <3>1, WeighsToAt
  <2>3. k # 0 => up(k)[k - 1] = W[k - 1]
    <3>. SUFFICES ASSUME k # 0 PROVE up(k)[k - 1] = W[k - 1] OBVIOUS
    <3>1. k - 1 \in Nat /\ k - 1 <= k - 1 /\ k - 1 <= k OBVIOUS
    <3>2. WeighsTo(up(k - 1), k - 1) /\ WeighsTo(up(k), k) BY <1>1, <3>1
    <3>3. up(k - 1)[k - 1] = up(k)[k - 1] BY <3>1, <3>2, WeighsToAgree
    <3>. QED BY <3>1, <3>3
  <2>. QED BY <2>1, <2>2, <2>3 DEF WeightStep
<1>. HIDE DEF W
<1>3. W = [k \in Nat |-> IF k = 0 THEN 1 ELSE GroupSize * W[k - 1]]
  <2>1. W = [k \in Nat |-> W[k]] BY DEF W
  <2>. QED BY <1>2, <2>1 DEF WeightStep
<1>4. Weight = [k \in Nat |-> IF k = 0 THEN 1 ELSE GroupSize * Weight[k - 1]]
  BY <1>3, Zenon DEF Weight
<1>. QED BY <1>4, Zenon

LEMMA WeightGrows ==
    /\ Weight[0] = 1
    /\ \A k \in Nat : Weight[k] \in Nat \ {0} /\ Weight[k + 1] = Weight[k] * GroupSize
<1>1. Weight[0] = 1 BY WeightUnfolds
<1>2. \A k \in Nat : Weight[k + 1] = GroupSize * Weight[k]
  <2>. SUFFICES ASSUME NEW k \in Nat PROVE Weight[k + 1] = GroupSize * Weight[k] OBVIOUS
  <2>1. k + 1 \in Nat /\ k + 1 # 0 /\ (k + 1) - 1 = k OBVIOUS
  <2>. QED BY <2>1, WeightUnfolds
<1>. DEFINE A == {k \in Nat : Weight[k] \in Nat \ {0}}
<1>3. 0 \in A BY <1>1
<1>4. ASSUME NEW k \in Nat, k \in A PROVE k + 1 \in A
  <2>1. \A w \in Nat \ {0} : GroupSize * w \in Nat \ {0} OBVIOUS
  <2>2. Weight[k] \in Nat \ {0} BY <1>4
  <2>3. GroupSize * Weight[k] \in Nat \ {0} BY <2>1, <2>2, Zenon
  <2>4. Weight[k + 1] = GroupSize * Weight[k] BY <1>2
  <2>5. Weight[k + 1] \in Nat \ {0} BY <2>3, <2>4
  <2>. QED BY <2>5
<1>. HIDE DEF A
<1>5. \A k \in Nat : k \in A BY <1>3, <1>4, NatSteps
<1>6. \A w \in Nat : GroupSize * w = w * GroupSize OBVIOUS
<1>. QED BY <1>1, <1>2, <1>5, <1>6 DEF A

LEMMA WeightIsMonotone ==
    ASSUME NEW j \in Nat, NEW d \in Nat
    PROVE  Weight[j] <= Weight[j + d]
<1>. DEFINE A == {k \in Nat : Weight[j] <= Weight[j + k]}
<1>1. 0 \in A
  <2>1. Weight[j] \in Nat BY WeightGrows, Zenon
  <2>2. Weight[j] <= Weight[j] BY <2>1
  <2>3. j + 0 = j OBVIOUS
  <2>. QED BY <2>2, <2>3
<1>2. ASSUME NEW k \in Nat, k \in A PROVE k + 1 \in A
  <2>1. /\ Weight[j + k] \in Nat /\ Weight[(j + k) + 1] = Weight[j + k] * GroupSize
        /\ Weight[j] \in Nat
    <3>1. j + k \in Nat OBVIOUS
    <3>. QED BY <3>1, WeightGrows, Zenon
  <2>2. \A w \in Nat : w <= w * GroupSize OBVIOUS
  <2>3. Weight[j] <= Weight[j + k] BY <1>2
  <2>4. Weight[j + k] <= Weight[(j + k) + 1] BY <2>1, <2>2
  <2>5. Weight[(j + k) + 1] \in Nat
    <3>1. (j + k) + 1 \in Nat OBVIOUS
    <3>. QED BY <3>1, WeightGrows, Zenon
  <2>6. Weight[j] <= Weight[(j + k) + 1] BY <2>1, <2>3, <2>4, <2>5
  <2>7. (j + k) + 1 = j + (k + 1) OBVIOUS
  <2>. QED BY <2>6, <2>7
<1>. HIDE DEF A
<1>3. d \in A BY <1>1, <1>2, NatSteps
<1>. QED BY <1>3 DEF A

LEMMA WeightOrder ==
    ASSUME NEW j \in Nat, NEW k \in Nat, j <= k
    PROVE  Weight[j] <= Weight[k]
<1>1. k - j \in Nat /\ j + (k - j) = k OBVIOUS
<1>. QED BY <1>1, WeightIsMonotone

(* The bytes of a varint are as many as its value needs.                    *)
LEMMA SovIsLeast ==
    ASSUME NEW n \in 0 .. WordSize - 1
    PROVE  /\ sov(n) \in 1 .. MaxGroups /\ n < Weight[sov(n)]
           /\ \A j \in 1 .. sov(n) - 1 : n >= Weight[j]
<1>. DEFINE T == {k \in 1 .. MaxGroups : n < Weight[k]}
            D == {k \in 1 .. MaxGroups : k = 1 \/ n >= Weight[k - 1]}
<1>1. \A k \in Nat : Weight[k] \in Nat BY WeightGrows
<1>2. T \subseteq Nat /\ T # {}
  <2>1. MaxGroups \in 1 .. MaxGroups OBVIOUS
  <2>2. n < Weight[MaxGroups] BY <1>1, WordAssumption
  <2>. QED BY <2>1, <2>2
<1>3. PICK m \in T : \A k \in T : m <= k
  <2>. HIDE DEF T
  <2>. QED BY <1>2, LeastNat
<1>4. m \in 1 .. MaxGroups /\ n < Weight[m] BY <1>3
<1>5. \A j \in 1 .. m - 1 : n >= Weight[j]
  <2>. SUFFICES ASSUME NEW j \in 1 .. m - 1 PROVE n >= Weight[j] OBVIOUS
  <2>1. j \in 1 .. MaxGroups /\ j \in Nat /\ ~ (m <= j) BY <1>4
  <2>2. ~ (n < Weight[j]) BY <1>3, <2>1
  <2>. QED BY <1>1, <2>1, <2>2
<1>6. D = 1 .. m
  <2>1. ASSUME NEW k \in 1 .. m PROVE k \in D
    <3>1. k \in 1 .. MaxGroups BY <1>4
    <3>2. k # 1 => k - 1 \in 1 .. m - 1 OBVIOUS
    <3>. QED BY <1>5, <3>1, <3>2
  <2>2. ASSUME NEW k \in D PROVE k \in 1 .. m
    <3>1. CASE k = 1 BY <1>4, <3>1
    <3>2. CASE k # 1
      <4>1. k \in 1 .. MaxGroups /\ n >= Weight[k - 1] /\ k - 1 \in Nat BY <3>2
      <4>2. ASSUME m <= k - 1 PROVE FALSE
        <5>1. Weight[m] <= Weight[k - 1] BY <1>4, <4>1, <4>2, WeightOrder
        <5>. QED BY <1>1, <1>4, <4>1, <5>1
      <4>. QED BY <1>4, <4>1, <4>2
    <3>. QED BY <3>1, <3>2
  <2>. HIDE DEF D
  <2>. QED BY <2>1, <2>2
<1>7. sov(n) = Cardinality(D) BY DEF sov
<1>. HIDE DEF D, T
<1>8. Cardinality(1 .. m) = m
  <2>1. m \in Int /\ 1 \in Int /\ m >= 1 BY <1>4
  <2>2. Cardinality(1 .. m) = IF 1 > m THEN 0 ELSE m - 1 + 1 BY <2>1, FS_Interval
  <2>. QED BY <2>1, <2>2
<1>9. sov(n) = m BY <1>6, <1>7, <1>8
<1>. QED BY <1>4, <1>5, <1>9

(* One byte more of a varint is one digit more of its value.                *)
LEMMA Digits ==
    ASSUME NEW n \in Nat, NEW p \in Nat \ {0}
    PROVE  (n % p) + ((n \div p) % GroupSize) * p = n % (p * GroupSize)
<1>1. \A g \in Nat \ {0} : (n % p) + ((n \div p) % g) * p = n % (p * g)
  BY ONLY n \in Nat, p \in Nat \ {0}, SMTT(60)
<1>2. GroupSize \in Nat \ {0} OBVIOUS
<1>. QED BY <1>1, <1>2, Zenon

----------------------------------------------------------------------------
(* Marshalling: a field has the size computed for it.                       *)

LEMMA SovIsNat == ASSUME NEW n \in Nat PROVE sov(n) \in Nat
<1>. DEFINE S == {k \in 1 .. MaxGroups : k = 1 \/ n >= Weight[k - 1]}
<1>1. IsFiniteSet(1 .. MaxGroups) BY FS_Interval
<1>2. IsFiniteSet(S) BY <1>1, FS_Subset
<1>3. Cardinality(S) \in Nat BY <1>2, FS_CardinalityType
<1>. QED BY <1>3 DEF sov

LEMMA VarintBytes ==
    ASSUME NEW n \in Nat
    PROVE  encodeVarint(n) \in Seq(Byte) /\ Len(encodeVarint(n)) = sov(n)
<1>1. sov(n) \in Nat BY SovIsNat
<1>2. ASSUME NEW k \in 1 .. sov(n)
      PROVE  ((n \div Weight[k - 1]) % GroupSize)
             + (IF k < sov(n) THEN GroupSize ELSE 0) \in Byte
  <2>1. Weight[k - 1] \in Nat \ {0}
    <3>1. k - 1 \in Nat BY <1>1
    <3>. QED BY <3>1, WeightGrows, Zenon
  <2>2. n \div Weight[k - 1] \in Nat BY <2>1
  <2>3. (n \div Weight[k - 1]) % GroupSize \in 0 .. GroupSize - 1 BY <2>2
  <2>. QED BY <2>3 DEF Byte
<1>. QED BY <1>1, <1>2, SMTT(30) DEF encodeVarint

LEMMA FieldHasItsSize ==
    ASSUME NEW f \in 1 .. 2, NEW kind, NEW auth \in Seq(Byte)
    PROVE  /\ FieldBytes(f, kind, auth) \in Seq(Byte)
           /\ FieldSize(kind, auth) \in Nat
           /\ Len(FieldBytes(f, kind, auth)) = FieldSize(kind, auth)
<1>. DEFINE c == Content(kind, auth)
<1>1. c \in Seq(Byte) /\ Len(c) \in Nat BY DEF Content
<1>2. /\ encodeVarint(Len(c)) \in Seq(Byte) /\ Len(encodeVarint(Len(c))) = sov(Len(c))
      /\ sov(Len(c)) \in Nat
  BY <1>1, VarintBytes, SovIsNat
<1>3. <<8 * f + 2>> \in Seq(Byte) /\ Len(<<8 * f + 2>>) = 1 BY DEF Byte
<1>. HIDE DEF c
<1>4. /\ <<8 * f + 2>> \o encodeVarint(Len(c)) \o c \in Seq(Byte)
      /\ Len(<<8 * f + 2>> \o encodeVarint(Len(c)) \o c) = 1 + Len(c) + sov(Len(c))
  BY <1>1, <1>2, <1>3
<1>5. CASE Present(kind, auth) BY <1>1, <1>2, <1>4, <1>5 DEF FieldBytes, FieldSize, c
<1>6. CASE ~ Present(kind, auth) BY <1>6 DEF FieldBytes, FieldSize
<1>. QED BY <1>5, <1>6

----------------------------------------------------------------------------
(* The invariant: the room left in the buffer is the size of the fields     *)
(* that are still to be written; the positions are in order; a function     *)
(* that skips begins at preIndex with an index of its own that is not       *)
(* negative until the last step of an iteration.                            *)

Remaining(t, f, auth) ==
    (IF f >= 1 /\ Len(Fields(t)) >= 1 THEN FieldSize(Fields(t)[1], auth) ELSE 0)
    + (IF f >= 2 /\ Len(Fields(t)) >= 2 THEN FieldSize(Fields(t)[2], auth) ELSE 0)

Marshalling ==
    stage = "marshal" =>
        /\ sent = <<authority>> /\ authority \in Authorities /\ message = type /\ start = 0
        /\ field \in 0 .. Len(Fields(type))
        /\ index = Remaining(type, field, authority) /\ index <= Len(input)

Positions ==
    stage # "marshal" =>
        /\ start <= index /\ index <= limit /\ limit <= Len(input)
        /\ stage \in {"tag", "kind"} \union Skipping => start <= preIndex /\ preIndex <= index

InRange == Len(input) < WordSize \div 2

SkipPosition ==
    stage \in Skipping =>
        index = preIndex /\ (stage # "skipped" => skipped >= 0)

IInv == TypeOK /\ Marshalling /\ Positions /\ InRange /\ SkipPosition
        /\ NeverPanics

LEMMA FieldsOf ==
    ASSUME NEW t \in Types
    PROVE  Len(Fields(t)) \in 0 .. 2
BY DEF Types, Fields, Params, GenesisState, QueryParamsRequest, QueryParamsResponse,
       MsgUpdateParams, MsgUpdateParamsResponse, Module

LEMMA RemainingIsNat ==
    ASSUME NEW t \in Types, NEW f \in 0 .. Len(Fields(t)), NEW auth \in Seq(Byte)
    PROVE  /\ Remaining(t, f, auth) \in Nat
           /\ f > 0 => Remaining(t, f, auth)
                       = Remaining(t, f - 1, auth) + FieldSize(Fields(t)[f], auth)
           /\ f = 0 => Remaining(t, f, auth) = 0
           /\ Size(t, auth) = Remaining(t, Len(Fields(t)), auth)
<1>1. Len(Fields(t)) \in 0 .. 2 BY FieldsOf
<1>2. \A kind : FieldSize(kind, auth) \in Nat
  <2>. SUFFICES ASSUME NEW kind PROVE FieldSize(kind, auth) \in Nat OBVIOUS
  <2>. QED BY FieldHasItsSize, 1 \in 1 .. 2
<1>. QED BY <1>1, <1>2 DEF Remaining, Size

LEMMA InitEstablishes == ASSUME Init PROVE IInv
<1>1. type \in Types /\ message = type BY DEF Init
<1>2. CASE \E bytes \in Inputs :
             /\ stage = "field" /\ sent = <<>> /\ authority = <<>>
             /\ input = bytes /\ limit = Len(bytes) /\ index = 0 /\ field = 0
  BY <1>1, <1>2 DEF Init, IInv, TypeOK, Marshalling, Positions, InRange,
     SkipPosition, NeverPanics, Stages, Skipping
<1>3. ASSUME NEW auth \in Authorities,
             stage = "marshal", sent = <<auth>>, authority = auth,
             input = [k \in 1 .. Size(type, auth) |-> 0],
             limit = Len(input), index = Len(input), field = Len(Fields(type))
      PROVE  IInv
  <2>1. auth \in Seq(Byte) OBVIOUS
  <2>2. Len(Fields(type)) \in 0 .. 2 BY <1>1, FieldsOf
  <2>3. /\ Size(type, auth) \in Nat
        /\ Size(type, auth) = Remaining(type, Len(Fields(type)), auth)
    BY <1>1, <2>1, <2>2, RemainingIsNat
  <2>4. 0 \in Byte BY DEF Byte
  <2>5. input \in Seq(Byte) /\ Len(input) = Size(type, auth) BY <1>3, <2>3, <2>4
  <2>6. Len(input) < WordSize \div 2 BY <1>1, <2>5
  <2>7. TypeOK BY <1>1, <1>3, <2>1, <2>2, <2>3, <2>5 DEF Init, TypeOK, Stages
  <2>. QED
    BY <1>1, <1>3, <2>2, <2>3, <2>5, <2>6, <2>7
    DEF Init, IInv, Marshalling, Positions, InRange, SkipPosition,
        NeverPanics, Skipping
<1>. QED BY <1>2, <1>3 DEF Init

----------------------------------------------------------------------------
LEMMA ReturnPreserves ==
    ASSUME IInv, NEW how \in Ended \ {"panic"}, Return(how), stage # "marshal"
    PROVE  IInv'
BY DEF IInv, Return, TypeOK, Marshalling, Positions, InRange, SkipPosition, NeverPanics,
       Remaining, Ended, Errors, Stages, Skipping, call, slice, varint, skip

LEMMA MarshalPreserves == ASSUME IInv, MarshalToSizedBuffer PROVE IInv'
<1>. DEFINE bytes == FieldBytes(field, Fields(type)[field], authority)
            i     == index - Len(bytes)
<1>1. /\ stage = "marshal" /\ type \in Types /\ authority \in Seq(Byte)
      /\ input \in Seq(Byte) /\ index \in Nat /\ Len(input) \in Nat /\ index <= Len(input)
  BY DEF MarshalToSizedBuffer, IInv, TypeOK, Marshalling
<1>2. field \in 1 .. Len(Fields(type)) /\ Len(Fields(type)) \in 0 .. 2 /\ field \in 1 .. 2
  <2>1. Len(Fields(type)) \in 0 .. 2 BY <1>1, FieldsOf
  <2>. QED BY <2>1, <1>1 DEF MarshalToSizedBuffer, IInv, Marshalling
<1>3. bytes \in Seq(Byte) /\ Len(bytes) = FieldSize(Fields(type)[field], authority)
  BY <1>1, <1>2, FieldHasItsSize
<1>4. i = Remaining(type, field - 1, authority) /\ i \in Nat
  <2>1. index = Remaining(type, field, authority) BY <1>1 DEF IInv, Marshalling
  <2>2. /\ Remaining(type, field, authority)
             = Remaining(type, field - 1, authority) + FieldSize(Fields(type)[field], authority)
        /\ Remaining(type, field - 1, authority) \in Nat
    BY <1>1, <1>2, RemainingIsNat
  <2>3. FieldSize(Fields(type)[field], authority) \in Nat BY <1>1, <1>2, FieldHasItsSize
  <2>. QED BY <1>3, <2>1, <2>2, <2>3
<1>. HIDE DEF bytes
<1>5. /\ input' = [k \in 1 .. Len(input) |->
                     IF k \in i + 1 .. index THEN bytes[k - i] ELSE input[k]]
      /\ index' = i /\ field' = field - 1 /\ stage' = stage
      /\ UNCHANGED <<call, authority, slice, preIndex, varint, skip>>
  BY <1>4 DEF MarshalToSizedBuffer, bytes
<1>6. input' \in Seq(Byte) /\ Len(input') = Len(input)
  <2>1. ASSUME NEW k \in 1 .. Len(input)
        PROVE  (IF k \in i + 1 .. index THEN bytes[k - i] ELSE input[k]) \in Byte
    <3>1. CASE k \in i + 1 .. index
      <4>1. k - i \in 1 .. Len(bytes) BY <1>1, <1>3, <1>4, <3>1
      <4>. QED BY <4>1, <3>1, <1>3
    <3>2. CASE k \notin i + 1 .. index BY <3>2, <1>1
    <3>. QED BY <3>1, <3>2
  <2>. HIDE DEF i
  <2>. QED BY <1>1, <1>5, <2>1
<1>7. i <= Len(input) BY <1>1, <1>3, <1>4
<1>. QED
  BY <1>1, <1>2, <1>4, <1>5, <1>6, <1>7
  DEF IInv, TypeOK, Marshalling, Positions, InRange, SkipPosition, NeverPanics,
      call, slice, varint, skip, Skipping, Stages

LEMMA SendPreserves == ASSUME IInv, Send PROVE IInv'
<1>1. index = 0
  <2>1. type \in Types /\ authority \in Seq(Byte) /\ Len(Fields(type)) \in 0 .. 2
    BY FieldsOf DEF IInv, TypeOK
  <2>2. Remaining(type, 0, authority) = 0 BY <2>1, RemainingIsNat
  <2>. QED BY <2>2 DEF IInv, Marshalling, Send
<1>2. input' = input /\ limit' = Len(input)
  BY <1>1 DEF Send, IInv, TypeOK
<1>3. input \in Seq(Byte) /\ Len(input) \in Nat BY DEF IInv, TypeOK
<1>. QED
  BY <1>1, <1>2, <1>3
  DEF Send, IInv, TypeOK, Marshalling, Positions, InRange, SkipPosition, NeverPanics,
      call, slice, varint, skip, Skipping, Stages

----------------------------------------------------------------------------
LEMMA FieldLoopPreserves ==
    ASSUME IInv, NextField \/ EndEmbedded \/ EndMessage
    PROVE  IInv'
<1>1. CASE NextField
  BY <1>1 DEF NextField, StartVarint, IInv, TypeOK, Marshalling, Positions, InRange,
     SkipPosition, NeverPanics, Stages, Reading, Skipping, call, slice, skip
<1>2. CASE EndEmbedded
  BY <1>2 DEF EndEmbedded, IInv, TypeOK, Marshalling, Positions, InRange,
     SkipPosition, NeverPanics, Stages, Skipping, call, varint, skip
<1>3. CASE EndMessage
  <2>1. (IF index > limit THEN "eof" ELSE "ok") \in Ended \ {"panic"}
    BY DEF Ended, Errors
  <2>. QED BY <1>3, <2>1, ReturnPreserves DEF EndMessage
<1>. QED BY <1>1, <1>2, <1>3

LEMMA ReadBytePreserves == ASSUME IInv, ReadByte PROVE IInv'
<1>1. /\ stage \in Reading /\ stage # "marshal" /\ Cursor < limit
      /\ input \in Seq(Byte) /\ value \in 0 .. WordSize - 1 /\ scale \in Nat
      /\ start \in Nat /\ limit \in Nat /\ index \in Nat /\ preIndex \in Nat /\ skipped \in Int
  BY DEF ReadByte, IInv, TypeOK, Reading
<1>2. Cursor \in 0 .. limit - 1 /\ ~ Outside
  <2>1. CASE stage \in Skipping
    <3>1. skipped >= 0 BY <1>1, <2>1 DEF IInv, SkipPosition, Reading
    <3>. QED BY <1>1, <2>1, <3>1 DEF Cursor, Outside
  <2>2. CASE stage \notin Skipping
    BY <1>1, <2>2 DEF IInv, Positions, Cursor, Outside
  <2>. QED BY <2>1, <2>2
<1>3. Cursor + 1 \in 1 .. Len(input) BY <1>1, <1>2 DEF IInv, Positions
<1>. DEFINE b == input[Cursor + 1]
<1>4. b \in Byte /\ b \in Nat BY <1>1, <1>3 DEF Byte
<1>. HIDE DEF b
<1>5. value' \in 0 .. WordSize - 1 /\ scale' \in Nat
  <2>1. value' = Gather(value, b, scale) /\ scale' = scale * GroupSize
    BY <1>2 DEF ReadByte, b
  <2>2. b % GroupSize \in Nat BY <1>4
  <2>3. (b % GroupSize) * scale \in Nat BY <1>1, <2>2
  <2>4. value + (b % GroupSize) * scale \in Nat BY <1>1, <2>3
  <2>5. Gather(value, b, scale) \in 0 .. WordSize - 1
    <3>. DEFINE n == value + (b % GroupSize) * scale
    <3>1. n \in Nat BY <2>4
    <3>. HIDE DEF n
    <3>2. n % WordSize \in 0 .. WordSize - 1 BY <3>1
    <3>. QED BY <3>2 DEF Gather, n
  <2>6. scale * GroupSize \in Nat BY <1>1
  <2>. QED BY <2>1, <2>5, <2>6
<1>6. stage' = IF b < GroupSize THEN AfterVarint(stage) ELSE stage
  BY <1>2 DEF ReadByte, b
<1>7. /\ stage' \in Stages /\ stage' # "marshal" /\ stage' # "panic"
      /\ stage' \in Skipping <=> stage \in Skipping
  BY <1>1, <1>6, Zenon DEF AfterVarint, Stages, Reading, Skipping
<1>8. /\ UNCHANGED <<call, input, authority, slice, preIndex, field, depth>>
      /\ IF stage \in Skipping THEN skipped' = skipped + 1 /\ UNCHANGED index
         ELSE index' = index + 1 /\ UNCHANGED skipped
  BY <1>2 DEF ReadByte
<1>9. TypeOK' BY <1>1, <1>5, <1>7, <1>8 DEF IInv, TypeOK, call, slice
<1>10. Positions' /\ SkipPosition'
  <2>1. CASE stage \in Skipping
    BY <1>1, <1>7, <1>8, <2>1 DEF IInv, Positions, SkipPosition, Reading, slice
  <2>2. CASE stage \notin Skipping
    <3>1. stage' \in {"tag", "kind"} => stage = "tag"
      BY <1>1, <1>6, <2>2, Zenon DEF AfterVarint, Reading, Skipping
    <3>. QED
      BY <1>1, <1>2, <1>7, <1>8, <2>2, <3>1 DEF IInv, Positions, SkipPosition, slice, Cursor
  <2>. QED BY <2>1, <2>2
<1>. QED
  BY <1>7, <1>8, <1>9, <1>10 DEF IInv, Marshalling, InRange, NeverPanics

LEMMA VarintPreserves ==
    ASSUME IInv, VarintTooLong \/ VarintCut \/ ReadByte
    PROVE  IInv'
<1>1. CASE VarintTooLong
  BY <1>1, ReturnPreserves DEF VarintTooLong, Reading, Ended, Errors
<1>2. CASE VarintCut
  BY <1>2, ReturnPreserves DEF VarintCut, Reading, Ended, Errors
<1>. QED BY <1>1, <1>2, ReadBytePreserves

LEMMA SwitchPreserves ==
    ASSUME IInv, NEW t, NEW fields, Len(fields) \in Nat, Switch(t, fields)
    PROVE  IInv'
<1>1. CASE Return("illegal")
  BY <1>1, ReturnPreserves DEF Switch, Ended, Errors
<1>2. CASE /\ fieldNum \in 1 .. Len(fields)
           /\ stage' = "length" /\ field' = fieldNum /\ StartVarint
           /\ UNCHANGED <<call, input, authority, slice, index, preIndex, skip>>
  BY <1>2 DEF Switch, StartVarint, IInv, TypeOK, Marshalling, Positions, InRange,
     SkipPosition, NeverPanics, Stages, Reading, Skipping, call, slice, skip
<1>3. CASE /\ stage' = "skip" /\ index' = preIndex /\ skipped' = 0 /\ depth' = 0
           /\ UNCHANGED <<call, input, authority, slice, preIndex, field, varint>>
  BY <1>3 DEF Switch, IInv, TypeOK, Marshalling, Positions, InRange,
     SkipPosition, NeverPanics, Stages, Reading, Skipping, call, slice, varint
<1>. QED BY <1>1, <1>2, <1>3 DEF Switch

LEMMA UnmarshalPreserves ==
    ASSUME IInv,
           \/ UnmarshalParams \/ UnmarshalGenesisState \/ UnmarshalModule
           \/ UnmarshalQueryParamsRequest \/ UnmarshalQueryParamsResponse
           \/ UnmarshalMsgUpdateParams \/ UnmarshalMsgUpdateParamsResponse
    PROVE  IInv'
<1>1. /\ Len(Params) \in Nat /\ Len(GenesisState) \in Nat /\ Len(Module) \in Nat
      /\ Len(QueryParamsRequest) \in Nat /\ Len(QueryParamsResponse) \in Nat
      /\ Len(MsgUpdateParams) \in Nat /\ Len(MsgUpdateParamsResponse) \in Nat
  BY DEF Params, GenesisState, QueryParamsRequest, QueryParamsResponse,
     MsgUpdateParams, MsgUpdateParamsResponse, Module
<1>. QED
  BY <1>1, SwitchPreserves
  DEF UnmarshalParams, UnmarshalGenesisState, UnmarshalModule,
      UnmarshalQueryParamsRequest, UnmarshalQueryParamsResponse,
      UnmarshalMsgUpdateParams, UnmarshalMsgUpdateParamsResponse

LEMMA LengthPreserves ==
    ASSUME IInv, CheckLength \/ TakeString \/ TakeMessage
    PROVE  IInv'
<1>1. /\ stage = "bytes" /\ start \in Nat /\ index \in Nat /\ index >= start
      /\ limit \in Nat /\ index <= limit /\ limit <= Len(input) /\ input \in Seq(Byte)
      /\ index - start < WordSize \div 2 /\ value \in 0 .. WordSize - 1
  <2>1. stage = "bytes"
    BY DEF CheckLength, TakeString, TakeMessage, Sliced
  <2>2. /\ start \in Nat /\ index \in Nat /\ limit \in Nat
        /\ input \in Seq(Byte) /\ value \in 0 .. WordSize - 1
    BY DEF IInv, TypeOK
  <2>3. index >= start /\ index <= limit /\ limit <= Len(input)
    <3>1. stage # "marshal"
      BY <2>1
    <3>. QED
      BY <2>2, <3>1 DEF IInv, Positions
  <2>4. Len(input) < WordSize \div 2
    BY DEF IInv, InRange
  <2>5. WordSize \div 2 \in Int /\ Len(input) \in Nat
    BY <2>2, WireAssumption
  <2>. QED
    BY <2>1, <2>2, <2>3, <2>4, <2>5
<1>2. CASE CheckLength
  <2>. DEFINE how == IF InvalidLength THEN "negative"
                     ELSE IF postIndex > limit THEN "eof" ELSE "panic"
  <2>1. ~ InvalidLength => postIndex \in Nat /\ postIndex >= index
    BY <1>1, LengthEndsAfter
  <2>2. how \in Ended \ {"panic"}
    BY <1>1, <1>2, <2>1 DEF CheckLength, Sliced, Ended, Errors
  <2>3. Return(how) BY <1>2 DEF CheckLength
  <2>. HIDE DEF how
  <2>. QED BY <1>1, <2>2, <2>3, ReturnPreserves
<1>3. CASE TakeString
  <2>1. postIndex \in index .. limit BY <1>3 DEF TakeString, Sliced
  <2>2. SubSeq(input, index + 1, postIndex) \in Seq(Byte)
    <3>1. \A k \in index + 1 .. postIndex : input[k] \in Byte BY <1>1, <2>1
    <3>. QED BY <1>1, <2>1, <3>1
  <2>. QED
    BY <1>1, <1>3, <2>1, <2>2
    DEF TakeString, IInv, TypeOK, Marshalling, Positions, InRange, SkipPosition,
        NeverPanics, Stages, Skipping, call, slice, varint, skip
<1>4. CASE TakeMessage
  <2>1. postIndex \in index .. limit BY <1>4 DEF TakeMessage, Sliced
  <2>. QED
    BY <1>1, <1>4, <2>1
    DEF TakeMessage, IInv, TypeOK, Marshalling, Positions, InRange, SkipPosition,
        NeverPanics, Stages, Skipping, call, varint, skip
<1>. QED BY <1>2, <1>3, <1>4

----------------------------------------------------------------------------
LEMMA SkipToPreserves ==
    ASSUME IInv, NEW s \in Skipping, NEW i \in Int, NEW d \in Nat, SkipTo(s, i, d),
           stage \in Skipping, s # "skipped" => i >= 0,
           UNCHANGED varint \/ StartVarint
    PROVE  IInv'
BY DEF SkipTo, StartVarint, IInv, TypeOK, Marshalling, Positions, InRange, SkipPosition,
       NeverPanics, Stages, Skipping, call, slice, varint

LEMMA SkipPreserves ==
    ASSUME IInv, NextSkipped \/ SkipKind \/ SkipBytes \/ SkipMore \/ Skipped
    PROVE  IInv'
<1>1. /\ stage \in Skipping /\ stage # "marshal"
      /\ skipped \in Int /\ depth \in Nat /\ value \in 0 .. WordSize - 1
  BY DEF NextSkipped, SkipKind, SkipBytes, SkipMore, Skipped, Skipping, IInv, TypeOK
<1>2. stage # "skipped" => skipped >= 0 BY <1>1 DEF IInv, SkipPosition
<1>3. \A how \in Ended \ {"panic"} : Return(how) => IInv' BY <1>1, ReturnPreserves
<1>4. {"eof", "endGroup", "illegal", "negative"} \subseteq Ended \ {"panic"}
  BY DEF Ended, Errors
<1>5. CASE NextSkipped
  <2>1. SkipTo("skipTag", skipped, depth) /\ StartVarint => IInv'
    BY <1>1, <1>2, <1>5, SkipToPreserves DEF NextSkipped, Skipping
  <2>. QED BY <1>3, <1>4, <1>5, <2>1 DEF NextSkipped
<1>6. CASE SkipKind
  <2>1. stage = "skipKind" /\ skipped >= 0 BY <1>2, <1>6 DEF SkipKind
  <2>2. CASE SkipVarint \/ SkipLength
    BY <1>1, <2>1, <2>2, SkipToPreserves DEF SkipVarint, SkipLength, Skipping
  <2>3. ASSUME NEW t, NEW n \in Int, SkipFixed(t, n) PROVE IInv'
    <3>1. AsInt(skipped + n) \in Int BY <1>1, AsIntIsInt
    <3>. QED BY <1>1, <2>3, <3>1, SkipToPreserves DEF SkipFixed, Skipping
  <2>4. CASE SkipStartGroup
    BY <1>1, <2>1, <2>4, SkipToPreserves DEF SkipStartGroup, Skipping
  <2>5. CASE SkipEndGroup
    <3>1. CASE depth = 0 BY <1>3, <1>4, <2>5, <3>1 DEF SkipEndGroup
    <3>2. CASE depth # 0
      <4>1. depth - 1 \in Nat BY <1>1, <3>2
      <4>. QED BY <1>1, <2>5, <3>2, <4>1, SkipToPreserves DEF SkipEndGroup, Skipping
    <3>. QED BY <3>1, <3>2
  <2>. QED BY <1>3, <1>4, <1>6, <2>2, <2>3, <2>4, <2>5 DEF SkipKind
<1>7. CASE SkipBytes
  <2>1. AsInt(value) \in Int BY <1>1, AsIntIsInt
  <2>2. AsInt(skipped + AsInt(value)) \in Int BY <1>1, <2>1, AsIntIsInt
  <2>3. UNCHANGED varint /\ SkipTo("skipped", AsInt(skipped + AsInt(value)), depth) => IInv'
    BY <1>1, <2>2, SkipToPreserves DEF Skipping
  <2>. QED BY <1>3, <1>4, <1>7, <2>3 DEF SkipBytes
<1>8. CASE SkipMore
  <2>1. skipped >= 0 BY <1>1, <1>8 DEF SkipMore, NegativeSkip
  <2>. QED BY <1>1, <1>8, <2>1, SkipToPreserves DEF SkipMore, Skipping
<1>9. CASE Skipped
  <2>. DEFINE next == AsInt(index - start + skipped) + start
  <2>1. CASE /\ next \in start .. limit /\ stage' = "field" /\ index' = next
             /\ UNCHANGED <<call, input, authority, slice, preIndex, field, varint, skip>>
    <3>. HIDE DEF next
    <3>. QED
      BY <1>1, <2>1
      DEF IInv, TypeOK, Marshalling, Positions, InRange, SkipPosition, NeverPanics,
          Stages, Skipping, call, slice, varint, skip
  <2>. QED BY <1>3, <1>4, <1>9, <2>1 DEF Skipped
<1>. QED BY <1>5, <1>6, <1>7, <1>8, <1>9

----------------------------------------------------------------------------
LEMMA IInvNext == IInv /\ [Step]_vars => IInv'
<1>. SUFFICES ASSUME IInv, [Step]_vars PROVE IInv' OBVIOUS
<1>1. CASE UNCHANGED vars
  BY <1>1 DEF vars, call, slice, varint, skip, IInv, TypeOK, Marshalling, Positions,
     InRange, SkipPosition, NeverPanics
<1>2. CASE MarshalToSizedBuffer \/ Send BY <1>2, MarshalPreserves, SendPreserves
<1>3. CASE NextField \/ EndEmbedded \/ EndMessage BY <1>3, FieldLoopPreserves
<1>4. CASE VarintTooLong \/ VarintCut \/ ReadByte BY <1>4, VarintPreserves
<1>5. CASE \/ UnmarshalParams \/ UnmarshalGenesisState \/ UnmarshalModule
           \/ UnmarshalQueryParamsRequest \/ UnmarshalQueryParamsResponse
           \/ UnmarshalMsgUpdateParams \/ UnmarshalMsgUpdateParamsResponse
  BY <1>5, UnmarshalPreserves
<1>6. CASE CheckLength \/ TakeString \/ TakeMessage BY <1>6, LengthPreserves
<1>7. CASE NextSkipped \/ SkipKind \/ SkipBytes \/ SkipMore \/ Skipped
  BY <1>7, SkipPreserves
<1>. QED BY <1>1, <1>2, <1>3, <1>4, <1>5, <1>6, <1>7 DEF Step

\* Every call, on every input, keeps to the types and never reads or writes
\* outside of its slice, nor slices backwards (tx.pb.go:262-593).
THEOREM WireSafety == Spec => [](TypeOK /\ NeverPanics)
<1>1. Init => IInv BY InitEstablishes
<1>2. IInv /\ [Step]_vars => IInv' BY IInvNext
<1>3. IInv => TypeOK /\ NeverPanics BY DEF IInv
<1>. QED BY <1>1, <1>2, <1>3, PTL DEF Spec

\* Whatever bytes it reads, the decoder keeps its registers in their types: a
\* decoded varint fits in its word, a tag in the number of its field, a position
\* never leaves the natural numbers and each stage is one the code has
\* (tx.pb.go:327-593).
THEOREM WireTypesHold == Spec => []TypeOK
BY WireSafety, PTL

----------------------------------------------------------------------------
(* The round trip.  While it is marshalled the buffer holds the fields that *)
(* have been written; Unmarshal then goes from one field that is present to *)
(* the next, with the authority once it has passed it.                      *)

Auth      == sent[1]
Last      == Len(Fields(type))
Kind(f)   == Fields(type)[f]
After(f)  == Remaining(type, f, Auth)
Length(f) == Len(Content(Kind(f), Auth))
Text(f)   == IF \E g \in 1 .. f : Kind(g) = "string" THEN Auth ELSE <<>>

Holds(f) ==
    \A k \in 1 .. Len(FieldBytes(f, Kind(f), Auth)) :
        input[After(f - 1) + k] = FieldBytes(f, Kind(f), Auth)[k]

Sound == /\ sent = <<Auth>> /\ Auth \in Authorities
         /\ "string" \notin {Kind(f) : f \in 1 .. Last} => Auth = <<>>

Buffer ==
    sent # <<>> =>
        /\ Sound /\ Len(input) = After(Last)
        /\ \A f \in 1 .. Last : (stage = "marshal" => f > field) => Holds(f)

\* Between the fields, or before the end.
AtField(g) ==
    /\ stage = "field" /\ g \in 0 .. Last /\ message = type /\ start = 0
    /\ limit = Len(input) /\ authority = Text(g) /\ index = After(g)
    /\ g < Last => Present(Kind(g + 1), Auth)

\* In field f.
Inside(f) ==
    /\ f \in 1 .. Last /\ Present(Kind(f), Auth) /\ message = type /\ start = 0
    /\ limit = Len(input) /\ authority = Text(f - 1)

AtTag(f)  == stage = "tag" /\ Inside(f) /\ index = After(f - 1) /\ value = 0 /\ scale = 1
AtKind(f) == stage = "kind" /\ Inside(f) /\ index = After(f - 1) + 1 /\ value = 8 * f + 2

AtLength(f, j) ==
    /\ stage = "length" /\ Inside(f) /\ field = f
    /\ j \in 0 .. sov(Length(f)) - 1 /\ index = After(f - 1) + 1 + j
    /\ value = Length(f) % Weight[j] /\ scale = Weight[j]

AtBytes(f) ==
    /\ stage = "bytes" /\ Inside(f) /\ field = f
    /\ index = After(f - 1) + 1 + sov(Length(f)) /\ value = Length(f)

AtEmbedded(f) ==
    /\ stage = "field" /\ f \in 1 .. Last /\ message = "Params" /\ type # "Params"
    /\ authority = Text(f) /\ limit = After(f) /\ index = limit

Answered == stage = "ok" /\ authority = Auth

OnTheWay ==
    sent # <<>> /\ stage # "marshal" =>
        \/ \E g \in 0 .. Last : AtField(g)
        \/ \E f \in 1 .. Last : \/ AtTag(f) \/ AtKind(f) \/ AtBytes(f) \/ AtEmbedded(f)
                                \/ \E j \in 0 .. sov(Length(f)) - 1 : AtLength(f, j)
        \/ Answered

RInv == IInv /\ Buffer /\ OnTheWay

LEMMA SameCall ==
    ASSUME UNCHANGED call
    PROVE  /\ sent' = sent /\ type' = type /\ Auth' = Auth /\ Last' = Last /\ Sound' = Sound
           /\ \A f : Kind(f)' = Kind(f) /\ After(f)' = After(f)
           /\ \A f : Text(f)' = Text(f) /\ Length(f)' = Length(f)
<1>1. sent' = sent /\ type' = type BY DEF call
<1>. QED BY <1>1 DEF Auth, Last, Kind, After, Text, Length, Sound

LEMMA EveryStepKeepsTheCall == ASSUME [Step]_vars PROVE UNCHANGED call
BY DEF Step, vars, MarshalToSizedBuffer, Send, NextField, EndEmbedded, EndMessage, VarintTooLong,
   VarintCut, ReadByte, UnmarshalParams, UnmarshalGenesisState, UnmarshalModule,
   UnmarshalQueryParamsRequest, UnmarshalQueryParamsResponse, UnmarshalMsgUpdateParams,
   UnmarshalMsgUpdateParamsResponse, Switch, CheckLength, TakeString, TakeMessage, NextSkipped,
   SkipKind, SkipVarint, SkipLength, SkipStartGroup, SkipEndGroup, SkipFixed, SkipBytes, SkipMore,
   Skipped, SkipTo, Return

\* Which steps there are where a sent message can be.
LEMMA StepsOfReader ==
    ASSUME Step
    PROVE  /\ stage = "marshal" => MarshalToSizedBuffer \/ Send
           /\ stage = "field" => NextField \/ EndEmbedded \/ EndMessage
           /\ stage \in {"tag", "length"} => VarintTooLong \/ VarintCut \/ ReadByte
           /\ stage = "bytes" => CheckLength \/ TakeString \/ TakeMessage
           /\ stage = "kind" => /\ message \in Types
                                /\ Switch(message, Fields(message))
           /\ stage # "ok"
<1>1. ASSUME stage = "kind"
      PROVE  message \in Types /\ Switch(message, Fields(message))
  <2>1. \/ UnmarshalParams \/ UnmarshalGenesisState \/ UnmarshalModule
        \/ UnmarshalQueryParamsRequest \/ UnmarshalQueryParamsResponse
        \/ UnmarshalMsgUpdateParams \/ UnmarshalMsgUpdateParamsResponse
    BY <1>1 DEF Step, MarshalToSizedBuffer, Send, NextField, EndEmbedded, EndMessage,
       VarintTooLong, VarintCut, ReadByte, Reading, CheckLength, TakeString, TakeMessage, Sliced,
       NextSkipped, SkipKind, SkipBytes, SkipMore, Skipped
  <2>2. ASSUME NEW t \in Types, Switch(t, Fields(t))
        PROVE  message \in Types /\ Switch(message, Fields(message))
    <3>1. message = t BY <2>2 DEF Switch
    <3>. QED BY <2>2, <3>1
  <2>3. /\ "Params" \in Types /\ "GenesisState" \in Types /\ "Module" \in Types
        /\ "QueryParamsRequest" \in Types /\ "QueryParamsResponse" \in Types
        /\ "MsgUpdateParams" \in Types /\ "MsgUpdateParamsResponse" \in Types
    BY DEF Types
  <2>4. /\ Fields("Params") = Params /\ Fields("GenesisState") = GenesisState
        /\ Fields("QueryParamsRequest") = QueryParamsRequest
        /\ Fields("QueryParamsResponse") = QueryParamsResponse
        /\ Fields("MsgUpdateParams") = MsgUpdateParams
        /\ Fields("MsgUpdateParamsResponse") = MsgUpdateParamsResponse
        /\ Fields("Module") = Module
    BY DEF Fields
  <2>. QED
    BY <2>1, <2>2, <2>3, <2>4
    DEF UnmarshalParams, UnmarshalGenesisState, UnmarshalModule, UnmarshalQueryParamsRequest,
        UnmarshalQueryParamsResponse, UnmarshalMsgUpdateParams, UnmarshalMsgUpdateParamsResponse
<1>2. /\ stage = "marshal" => MarshalToSizedBuffer \/ Send
      /\ stage = "field" => NextField \/ EndEmbedded \/ EndMessage
      /\ stage \in {"tag", "length"} => VarintTooLong \/ VarintCut \/ ReadByte
      /\ stage = "bytes" => CheckLength \/ TakeString \/ TakeMessage
      /\ stage # "ok"
  BY DEF Step, MarshalToSizedBuffer, Send, NextField, EndEmbedded, EndMessage, VarintTooLong,
     VarintCut, ReadByte, Reading, UnmarshalParams, UnmarshalGenesisState, UnmarshalModule,
     UnmarshalQueryParamsRequest, UnmarshalQueryParamsResponse, UnmarshalMsgUpdateParams,
     UnmarshalMsgUpdateParamsResponse, Switch, CheckLength, TakeString, TakeMessage, Sliced,
     NextSkipped, SkipKind, SkipBytes, SkipMore, Skipped
<1>. QED BY <1>1, <1>2

----------------------------------------------------------------------------
(* The bytes of a field and where they are.                                 *)

LEMMA Concatenated ==
    ASSUME NEW S, NEW a \in Seq(S), NEW b \in Seq(S)
    PROVE  /\ a \o b \in Seq(S) /\ Len(a \o b) = Len(a) + Len(b)
           /\ \A i \in 1 .. Len(a) : (a \o b)[i] = a[i]
           /\ \A i \in 1 .. Len(b) : (a \o b)[Len(a) + i] = b[i]
OBVIOUS

Joined(all, t, e, c, m, n) ==
    /\ Len(all) = 1 + m + n /\ all[1] = t[1]
    /\ \A j \in 1 .. m : all[1 + j] = e[j]
    /\ \A k \in 1 .. n : all[1 + m + k] = c[k]

LEMMA ThreeParts ==
    ASSUME NEW S, NEW t \in Seq(S), NEW e \in Seq(S), NEW c \in Seq(S), Len(t) = 1,
           NEW m \in Nat, Len(e) = m, NEW n \in Nat, Len(c) = n,
           NEW all, all = t \o e \o c
    PROVE  all \in Seq(S) /\ Joined(all, t, e, c, m, n)
<1>. DEFINE te == t \o e
<1>1. /\ te \in Seq(S) /\ Len(te) = 1 + m
      /\ \A i \in 1 .. 1 : te[i] = t[i]
      /\ \A i \in 1 .. m : te[1 + i] = e[i]
  <2>1. /\ te \in Seq(S) /\ Len(te) = Len(t) + Len(e)
        /\ \A i \in 1 .. Len(t) : te[i] = t[i]
        /\ \A i \in 1 .. Len(e) : te[Len(t) + i] = e[i]
    BY ONLY t \in Seq(S), e \in Seq(S), Concatenated
  <2>. HIDE DEF te
  <2>. QED BY <2>1
<1>2. all = te \o c OBVIOUS
<1>. HIDE DEF te
<1>3. /\ all \in Seq(S) /\ Len(all) = 1 + m + n
      /\ \A i \in 1 .. 1 + m : all[i] = te[i]
      /\ \A i \in 1 .. n : all[1 + m + i] = c[i]
  <2>1. /\ te \o c \in Seq(S) /\ Len(te \o c) = Len(te) + Len(c)
        /\ \A i \in 1 .. Len(te) : (te \o c)[i] = te[i]
        /\ \A i \in 1 .. Len(c) : (te \o c)[Len(te) + i] = c[i]
    <3>1. te \in Seq(S) BY <1>1
    <3>. QED BY ONLY <3>1, c \in Seq(S), Concatenated
  <2>2. /\ all \in Seq(S) /\ Len(all) = Len(te) + Len(c)
        /\ \A i \in 1 .. Len(te) : all[i] = te[i]
        /\ \A i \in 1 .. Len(c) : all[Len(te) + i] = c[i]
    BY <1>2, <2>1, Zenon
  <2>. QED BY ONLY <1>1, <2>2, m \in Nat, n \in Nat, Len(c) = n
<1>4. all[1] = t[1]
  <2>1. 1 \in 1 .. 1 + m /\ 1 \in 1 .. 1 OBVIOUS
  <2>. QED BY <1>1, <1>3, <2>1, Zenon
<1>5. \A j \in 1 .. m : all[1 + j] = e[j]
  <2>. SUFFICES ASSUME NEW j \in 1 .. m PROVE all[1 + j] = e[j] OBVIOUS
  <2>1. 1 + j \in 1 .. 1 + m OBVIOUS
  <2>. QED BY <1>1, <1>3, <2>1, Zenon
<1>. QED BY <1>3, <1>4, <1>5, Zenon DEF Joined

\* Bytes that are the tag of field f, the length n in m bytes, and the content c.
Framed(bytes, f, m, n, c) ==
    /\ n \in Nat /\ m \in Nat /\ Len(bytes) = 1 + m + n
    /\ bytes[1] = 8 * f + 2
    /\ \A j \in 1 .. m : bytes[1 + j] = encodeVarint(n)[j]
    /\ \A k \in 1 .. n : bytes[1 + m + k] = c[k]

LEMMA BytesOfField ==
    ASSUME NEW f \in 1 .. 2, NEW kind, NEW auth \in Seq(Byte), Present(kind, auth),
           NEW n, n = Len(Content(kind, auth)), NEW m, m = sov(n),
           NEW all, all = FieldBytes(f, kind, auth)
    PROVE  /\ FieldSize(kind, auth) = 1 + m + n /\ all \in Seq(Byte)
           /\ Framed(all, f, m, n, Content(kind, auth))
<1>1. Content(kind, auth) \in Seq(Byte) /\ n \in Nat BY DEF Content
<1>2. encodeVarint(n) \in Seq(Byte) /\ Len(encodeVarint(n)) = m /\ m \in Nat
  BY <1>1, VarintBytes, SovIsNat
<1>3. <<8 * f + 2>> \in Seq(Byte) /\ Len(<<8 * f + 2>>) = 1 BY DEF Byte
<1>4. all = <<8 * f + 2>> \o encodeVarint(n) \o Content(kind, auth) BY DEF FieldBytes
<1>5. FieldSize(kind, auth) = 1 + m + n
  <2>1. FieldSize(kind, auth) = 1 + n + m BY DEF FieldSize
  <2>2. n \in Nat /\ m \in Nat BY <1>1, <1>2
  <2>3. 1 + n + m = 1 + m + n BY ONLY <2>2
  <2>. QED BY <2>1, <2>3, Zenon
<1>6. all \in Seq(Byte) /\ Joined(all, <<8 * f + 2>>, encodeVarint(n), Content(kind, auth), m, n)
  <2>. DEFINE t == <<8 * f + 2>>
              e == encodeVarint(n)
              c == Content(kind, auth)
  <2>1. /\ t \in Seq(Byte) /\ Len(t) = 1 /\ e \in Seq(Byte) /\ Len(e) = m /\ m \in Nat
        /\ c \in Seq(Byte) /\ Len(c) = n /\ n \in Nat /\ all = t \o e \o c
    BY <1>1, <1>2, <1>3, <1>4
  <2>. HIDE DEF t, e, c
  <2>2. all \in Seq(Byte) /\ Joined(all, t, e, c, m, n) BY ONLY <2>1, ThreeParts, Zenon
  <2>. QED BY <2>2, Zenon DEF t, e, c
<1>7. all[1] = 8 * f + 2
  <2>1. \A x : <<x>>[1] = x OBVIOUS
  <2>. QED BY <1>6, <2>1, Zenon DEF Joined
<1>8. Framed(all, f, m, n, Content(kind, auth))
  BY <1>1, <1>2, <1>6, <1>7, Zenon DEF Framed, Joined
<1>. QED BY <1>5, <1>6, <1>8

LEMMA FieldsInOrder ==
    ASSUME type \in Types, Auth \in Seq(Byte)
    PROVE  /\ Last \in 0 .. 2 /\ After(0) = 0
           /\ \A f \in 0 .. Last : After(f) \in Nat /\ After(f) <= After(Last)
           /\ \A f \in 1 .. Last :
                  /\ f - 1 \in 0 .. Last
                  /\ FieldSize(Kind(f), Auth) \in Nat
                  /\ After(f) = After(f - 1) + FieldSize(Kind(f), Auth)
<1>1. Last \in 0 .. 2 BY FieldsOf DEF Last
<1>2. \A f \in 0 .. Last :
          /\ After(f) \in Nat
          /\ f > 0 => After(f) = After(f - 1) + FieldSize(Kind(f), Auth)
          /\ f = 0 => After(f) = 0
  BY RemainingIsNat DEF After, Last, Kind
<1>3. \A kind : FieldSize(kind, Auth) \in Nat
  <2>. SUFFICES ASSUME NEW kind PROVE FieldSize(kind, Auth) \in Nat OBVIOUS
  <2>. QED BY FieldHasItsSize, 1 \in 1 .. 2
<1>4. \A f \in 1 .. Last : /\ f - 1 \in 0 .. Last /\ f \in 0 .. Last /\ f > 0
  BY <1>1
<1>5. \A f \in 1 .. Last : After(f) = After(f - 1) + FieldSize(Kind(f), Auth)
  BY <1>2, <1>4
<1>6. \A f \in 1 .. Last : After(f - 1) <= After(f)
  BY <1>2, <1>3, <1>4, <1>5
<1>7. After(0) = 0 BY <1>1, <1>2
<1>8. \A f \in 0 .. Last : After(f) <= After(Last)
  <2>1. Last = 0 \/ Last = 1 \/ Last = 2 BY <1>1
  <2>2. CASE Last = 0 BY <1>2, <2>2
  <2>3. CASE Last = 1
    <3>1. After(0) <= After(1) BY <1>6, <2>3
    <3>2. \A f \in 0 .. Last : f = 0 \/ f = 1 BY <2>3
    <3>3. After(1) \in Nat BY <1>2, <2>3
    <3>. QED BY <2>3, <3>1, <3>2, <3>3
  <2>4. CASE Last = 2
    <3>1. After(0) <= After(1) /\ After(1) <= After(2) BY <1>6, <2>4
    <3>2. \A f \in 0 .. Last : f = 0 \/ f = 1 \/ f = 2 BY <2>4
    <3>3. After(0) \in Nat /\ After(1) \in Nat /\ After(2) \in Nat BY <1>2, <2>4
    <3>. QED BY <2>4, <3>1, <3>2, <3>3
  <2>. QED BY <2>1, <2>2, <2>3, <2>4
<1>. QED BY <1>1, <1>2, <1>3, <1>4, <1>5, <1>7, <1>8

LEMMA SoundAuth == ASSUME Sound PROVE Auth \in Seq(Byte)
BY DEF Sound

LEMMA KindIsOne ==
    ASSUME type \in Types, NEW f \in 1 .. Last
    PROVE  /\ Kind(f) \in {"string", "message"} /\ f \in 1 .. 2
           /\ Kind(f) = "message" => type # "Params"
BY DEF Types, Last, Kind, Fields, Params, GenesisState, QueryParamsRequest, QueryParamsResponse,
   MsgUpdateParams, MsgUpdateParamsResponse, Module

\* What Unmarshal finds at p of field f, whose length n takes s bytes.
Found(f, p, n, s) ==
    /\ f \in 1 .. 2 /\ p \in Nat /\ Len(input) \in Nat
    /\ n \in 0 .. WordSize - 1 /\ n < WordSize \div 2
    /\ s \in 1 .. MaxGroups /\ s \in Nat /\ n < Weight[s]
    /\ \A j \in 1 .. s - 1 : n >= Weight[j]
    /\ After(f) = p + 1 + s + n /\ After(f) <= Len(input)
    /\ Len(input) < WordSize \div 2
    /\ input[p + 1] = 8 * f + 2
    /\ \A j \in 1 .. s : input[p + 1 + j] = encodeVarint(n)[j]
    /\ \A k \in 1 .. n : input[p + 1 + s + k] = Content(Kind(f), Auth)[k]

LEMMA FieldInBuffer ==
    ASSUME IInv, Buffer, sent # <<>>, stage # "marshal",
           NEW f \in 1 .. Last, Present(Kind(f), Auth),
           NEW p, p = After(f - 1), NEW n, n = Length(f), NEW s, s = sov(n)
    PROVE  Found(f, p, n, s)
<1>1. Sound /\ Auth \in Seq(Byte) /\ type \in Types /\ Len(input) = After(Last) /\ Holds(f)
  BY SoundAuth DEF Buffer, IInv, TypeOK
<1>2. f \in 1 .. 2 BY <1>1, KindIsOne
<1>3. /\ p \in Nat /\ After(f) <= After(Last)
      /\ After(f) = p + FieldSize(Kind(f), Auth) /\ After(f) \in Nat /\ After(Last) \in Nat
  <2>1. f - 1 \in 0 .. Last /\ f \in 0 .. Last /\ Last \in 0 .. Last /\ Last \in 0 .. 2
    BY <1>1, <1>2, FieldsInOrder
  <2>. QED BY <1>1, <2>1, FieldsInOrder
<1>13. PICK bytes : bytes = FieldBytes(f, Kind(f), Auth) OBVIOUS
<1>4. n = Len(Content(Kind(f), Auth)) BY DEF Length
<1>15. /\ FieldSize(Kind(f), Auth) = 1 + s + n
       /\ Framed(bytes, f, s, n, Content(Kind(f), Auth))
  <2>1. Auth \in Seq(Byte) BY <1>1
  <2>. QED BY <1>2, <1>4, <1>13, <2>1, BytesOfField
<1>5. /\ n \in Nat /\ s \in Nat /\ Len(bytes) = 1 + s + n
      /\ FieldSize(Kind(f), Auth) = 1 + s + n
      /\ bytes[1] = 8 * f + 2
      /\ \A j \in 1 .. s : bytes[1 + j] = encodeVarint(n)[j]
      /\ \A k \in 1 .. n : bytes[1 + s + k] = Content(Kind(f), Auth)[k]
  BY <1>15, Zenon DEF Framed
<1>14. \A k \in 1 .. Len(bytes) : input[p + k] = bytes[k] BY <1>1, <1>13 DEF Holds
<1>6. Len(input) < WordSize \div 2 /\ Len(input) \in Nat /\ WordSize \div 2 \in Nat
      /\ WordSize \div 2 <= WordSize
  BY <1>1, <1>3 DEF IInv, InRange
<1>7. After(f) = p + 1 + s + n BY <1>3, <1>5
<1>8. n \in 0 .. WordSize - 1 /\ n < WordSize \div 2
  <2>1. n <= After(f) BY ONLY <1>3, <1>5, <1>7
  <2>3. After(f) <= Len(input) BY <1>1, <1>3, Zenon
  <2>2. After(f) \in Nat BY <1>3
  <2>4. n \in Nat BY <1>5
  <2>5. WordSize \in Nat OBVIOUS
  <2>. HIDE DEF After
  <2>. QED BY ONLY <1>6, <2>1, <2>2, <2>3, <2>4, <2>5
<1>9. s \in 1 .. MaxGroups /\ n < Weight[s] /\ \A j \in 1 .. s - 1 : n >= Weight[j]
  BY <1>8, SovIsLeast
<1>10. input[p + 1] = 8 * f + 2
  <2>1. 1 \in 1 .. Len(bytes) BY <1>5
  <2>. QED BY <1>5, <1>14, <2>1
<1>11. \A j \in 1 .. s : input[p + 1 + j] = encodeVarint(n)[j]
  <2>. SUFFICES ASSUME NEW j \in 1 .. s PROVE input[p + 1 + j] = encodeVarint(n)[j] OBVIOUS
  <2>1. 1 + j \in 1 .. Len(bytes) /\ p + (1 + j) = p + 1 + j
    BY ONLY j \in 1 .. s, <1>3, <1>5
  <2>2. input[p + (1 + j)] = bytes[1 + j] BY <1>14, <2>1
  <2>. QED BY <1>5, <2>1, <2>2
<1>12. \A k \in 1 .. n : input[p + 1 + s + k] = Content(Kind(f), Auth)[k]
  <2>. SUFFICES ASSUME NEW k \in 1 .. n
                PROVE  input[p + 1 + s + k] = Content(Kind(f), Auth)[k]
    OBVIOUS
  <2>1. 1 + s + k \in 1 .. Len(bytes) /\ p + (1 + s + k) = p + 1 + s + k
    BY ONLY k \in 1 .. n, <1>3, <1>5
  <2>2. input[p + (1 + s + k)] = bytes[1 + s + k] BY <1>14, <2>1
  <2>. QED BY <1>5, <2>1, <2>2
<1>16. s \in Nat /\ After(f) <= Len(input) BY <1>1, <1>3, <1>5
<1>. QED
  BY <1>2, <1>3, <1>6, <1>7, <1>8, <1>9, <1>10, <1>11, <1>12, <1>16, Zenon DEF Found

----------------------------------------------------------------------------
(* From field to field.                                                     *)

LEMMA NextPresent ==
    ASSUME type \in Types, Sound, NEW g \in 0 .. Last
    PROVE  \E h \in 0 .. Last : /\ After(h) = After(g) /\ Text(h) = Text(g)
                                /\ h < Last => Present(Kind(h + 1), Auth)
<1>1. Auth \in Seq(Byte) BY SoundAuth
<1>2. Last \in 0 .. 2 BY <1>1, FieldsInOrder
<1>3. ASSUME NEW f \in 1 .. Last, ~ Present(Kind(f), Auth)
      PROVE  Auth = <<>> /\ After(f) = After(f - 1)
  <2>1. Auth = <<>> /\ FieldSize(Kind(f), Auth) = 0 BY <1>3 DEF Present, FieldSize
  <2>2. f - 1 \in 0 .. Last /\ After(f) = After(f - 1) + FieldSize(Kind(f), Auth)
    BY <1>1, FieldsInOrder
  <2>3. After(f - 1) \in Nat BY <1>1, <2>2, FieldsInOrder
  <2>. QED BY <2>1, <2>2, <2>3
<1>4. Auth = <<>> => \A f : Text(f) = <<>> BY DEF Text
<1>5. CASE g = Last BY <1>5, <1>2
<1>6. CASE g < Last /\ Present(Kind(g + 1), Auth) BY <1>6
<1>7. CASE g < Last /\ ~ Present(Kind(g + 1), Auth)
  <2>1. g + 1 \in 1 .. Last /\ g + 1 \in 0 .. Last /\ (g + 1) - 1 = g BY <1>2, <1>7
  <2>2. Auth = <<>> /\ After(g + 1) = After(g) BY <1>3, <1>7, <2>1
  <2>3. CASE g + 1 = Last \/ Present(Kind((g + 1) + 1), Auth)
    <3>1. g + 1 < Last => Present(Kind((g + 1) + 1), Auth) BY <1>2, <2>1, <2>3
    <3>. QED BY <1>4, <2>1, <2>2, <3>1
  <2>4. CASE g + 1 # Last /\ ~ Present(Kind((g + 1) + 1), Auth)
    <3>1. (g + 1) + 1 = Last /\ Last \in 1 .. Last /\ Last \in 0 .. Last /\ Last - 1 = g + 1
      BY <1>2, <2>1, <2>4
    <3>2. After(Last) = After(g) BY <1>3, <2>2, <2>4, <3>1
    <3>3. ~ (Last < Last) BY <1>2
    <3>. QED BY <1>4, <2>2, <3>1, <3>2, <3>3
  <2>. QED BY <2>3, <2>4
<1>. QED BY <1>2, <1>5, <1>6, <1>7

LEMMA InsideKept ==
    ASSUME NEW f, Inside(f), UNCHANGED <<call, message, start, limit, input, authority>>
    PROVE  Inside(f)'
<1>1. /\ Last' = Last /\ Kind(f)' = Kind(f) /\ Auth' = Auth /\ Text(f - 1)' = Text(f - 1)
      /\ type' = type
  BY SameCall
<1>. QED BY <1>1 DEF Inside

\* The message goes on between two fields, where the next one is present.
LEMMA FieldReached ==
    ASSUME type \in Types, Sound, NEW g \in 0 .. Last, UNCHANGED call,
           stage' = "field", message' = type, start' = 0, limit' = Len(input'),
           authority' = Text(g), index' = After(g)
    PROVE  \E h \in 0 .. Last : AtField(h)'
<1>1. PICK h \in 0 .. Last : /\ After(h) = After(g) /\ Text(h) = Text(g)
                             /\ h < Last => Present(Kind(h + 1), Auth)
  BY NextPresent
<1>2. /\ Last' = Last /\ Kind(h + 1)' = Kind(h + 1) /\ Auth' = Auth
      /\ Text(h)' = Text(h) /\ After(h)' = After(h) /\ type' = type
  BY SameCall
<1>3. AtField(h)' BY <1>1, <1>2 DEF AtField
<1>. QED BY <1>3

LEMMA FromField ==
    ASSUME IInv, Buffer, sent # <<>>, NEW g \in 0 .. Last, AtField(g), Step
    PROVE  Answered' \/ \E f \in 1 .. Last : AtTag(f)'
<1>1. /\ stage = "field" /\ message = type /\ start = 0 /\ limit = Len(input)
      /\ authority = Text(g) /\ index = After(g)
      /\ (g < Last => Present(Kind(g + 1), Auth))
  BY DEF AtField
<1>2. NextField \/ EndEmbedded \/ EndMessage BY <1>1, StepsOfReader
<1>3. /\ Sound /\ type \in Types /\ Len(input) = After(Last) /\ Auth \in Seq(Byte)
      /\ UNCHANGED call
  BY SoundAuth, EveryStepKeepsTheCall DEF Buffer, IInv, TypeOK
<1>4. Last \in 0 .. 2 BY <1>3, FieldsInOrder
<1>5. After(g) \in Nat /\ After(Last) \in Nat BY <1>3, <1>4, FieldsInOrder
<1>6. ASSUME g < Last PROVE g + 1 \in 1 .. Last /\ (g + 1) - 1 = g /\ index < limit
  <2>1. g + 1 \in 1 .. Last /\ (g + 1) - 1 = g BY <1>4, <1>6
  <2>3. index = After((g + 1) - 1) BY <1>1, <2>1
  <2>2. /\ After(g + 1) = index + 1 + sov(Length(g + 1)) + Length(g + 1)
        /\ sov(Length(g + 1)) \in Nat /\ Length(g + 1) \in 0 .. WordSize - 1
        /\ After(g + 1) <= Len(input)
    <3>1. stage # "marshal" /\ Present(Kind(g + 1), Auth) BY <1>1, <1>6
    <3>2. Found(g + 1, index, Length(g + 1), sov(Length(g + 1)))
      BY <2>1, <2>3, <3>1, FieldInBuffer, Zenon
    <3>. QED BY <3>2 DEF Found
  <2>. QED BY <1>1, <1>3, <1>5, <2>1, <2>2
<1>7. CASE NextField
  <2>1. /\ index < limit /\ stage' = "tag" /\ value' = 0 /\ scale' = 1
        /\ UNCHANGED <<input, authority, message, start, limit, index>>
    BY <1>7 DEF NextField, StartVarint, slice
  <2>2. g # Last BY <1>1, <1>3, <1>5, <2>1
  <2>3. g < Last BY <1>4, <2>2
  <2>4. g + 1 \in 1 .. Last /\ (g + 1) - 1 = g BY <1>6, <2>3
  <2>5. Inside(g + 1) BY <1>1, <2>3, <2>4 DEF Inside
  <2>6. Inside(g + 1)' BY <1>3, <2>1, <2>5, InsideKept
  <2>7. After(g)' = After(g) BY <1>3, SameCall
  <2>8. AtTag(g + 1)' BY <1>1, <2>1, <2>4, <2>6, <2>7 DEF AtTag
  <2>. QED BY <2>4, <2>8
<1>8. CASE EndMessage
  <2>1. ~ (index < limit) /\ stage' = (IF index > limit THEN "eof" ELSE "ok")
        /\ authority' = authority
    BY <1>1, <1>3, <1>5, <1>8 DEF EndMessage, Return
  <2>2. g = Last BY <1>4, <1>6, <2>1
  <2>3. stage' = "ok" BY <1>1, <1>3, <1>5, <2>1, <2>2
  <2>4. Text(Last) = Auth
    <3>1. CASE \E f \in 1 .. Last : Kind(f) = "string" BY <3>1 DEF Text
    <3>2. CASE ~ \E f \in 1 .. Last : Kind(f) = "string" BY <1>3, <3>2 DEF Text, Sound
    <3>. QED BY <3>1, <3>2
  <2>5. Auth' = Auth BY <1>3, SameCall
  <2>. QED BY <1>1, <2>1, <2>2, <2>3, <2>4, <2>5 DEF Answered
<1>9. ~ EndEmbedded BY <1>1 DEF EndEmbedded
<1>. QED BY <1>2, <1>7, <1>8, <1>9

\* Reading goes on where the varint at hand is neither too long nor cut.
LEMMA NextByte ==
    ASSUME IInv, Buffer, sent # <<>>, stage \in {"tag", "length"}, Step,
           start = 0, index < limit, scale < WordSize, NEW b, b = input[index + 1]
    PROVE  /\ value' = Gather(value, b, scale) /\ scale' = scale * GroupSize
           /\ stage' = IF b < GroupSize THEN AfterVarint(stage) ELSE stage
           /\ index' = index + 1
           /\ UNCHANGED <<call, input, authority, message, start, limit, field>>
<1>2. stage \notin Skipping BY DEF Skipping
<1>3. Cursor = index /\ Outside = (index < start) BY <1>2 DEF Cursor, Outside
<1>4. start \in Nat /\ index \in Nat /\ limit \in Nat /\ scale \in Nat BY DEF IInv, TypeOK
<1>5. ~ (index < start) /\ ~ (index >= limit) /\ ~ (scale >= WordSize) BY <1>4
<1>6. VarintTooLong \/ VarintCut \/ ReadByte BY StepsOfReader
<1>7. ReadByte BY <1>3, <1>5, <1>6 DEF VarintTooLong, VarintCut
<1>. QED BY <1>2, <1>3, <1>5, <1>7 DEF ReadByte, slice

LEMMA FromTag ==
    ASSUME IInv, Buffer, sent # <<>>, NEW f \in 1 .. Last, AtTag(f), Step
    PROVE  AtKind(f)'
<1>1. /\ stage = "tag" /\ Inside(f) /\ index = After(f - 1) /\ value = 0 /\ scale = 1
      /\ Present(Kind(f), Auth) /\ start = 0 /\ limit = Len(input)
  BY DEF AtTag, Inside
<1>2. /\ f \in 1 .. 2 /\ index \in Nat /\ index < limit /\ input[index + 1] = 8 * f + 2
  <2>1. /\ f \in 1 .. 2 /\ index \in Nat /\ Len(input) \in Nat
        /\ sov(Length(f)) \in Nat /\ Length(f) \in 0 .. WordSize - 1
        /\ After(f) = index + 1 + sov(Length(f)) + Length(f) /\ After(f) <= Len(input)
        /\ input[index + 1] = 8 * f + 2
    <3>1. Found(f, index, Length(f), sov(Length(f)))
      <4>1. stage # "marshal" BY <1>1
      <4>. QED BY <1>1, <4>1, FieldInBuffer, Zenon
    <3>. QED BY <3>1, Zenon DEF Found
  <2>. QED BY <1>1, <2>1
<1>3. scale < WordSize BY <1>1, WordAssumption
<1>4. /\ value' = Gather(value, 8 * f + 2, scale)
      /\ stage' = IF 8 * f + 2 < GroupSize THEN AfterVarint(stage) ELSE stage
      /\ index' = index + 1
      /\ UNCHANGED <<call, input, authority, message, start, limit, field>>
  BY <1>1, <1>2, <1>3, NextByte
<1>5. 8 * f + 2 < GroupSize /\ 8 * f + 2 < WordSize /\ 8 * f + 2 \in Nat
  BY <1>2, WordAssumption
<1>6. value' = 8 * f + 2
  <2>1. (8 * f + 2) % GroupSize = 8 * f + 2 BY <1>5
  <2>2. (8 * f + 2) % WordSize = 8 * f + 2 BY <1>5
  <2>3. Gather(0, 8 * f + 2, 1) = 8 * f + 2 BY <1>5, <2>1, <2>2 DEF Gather
  <2>. QED BY <1>1, <1>4, <2>3
<1>7. stage' = "kind" BY <1>1, <1>4, <1>5 DEF AfterVarint
<1>8. Inside(f)' BY <1>1, <1>4, InsideKept
<1>9. After(f - 1)' = After(f - 1) BY <1>4, SameCall
<1>. QED BY <1>1, <1>4, <1>6, <1>7, <1>8, <1>9 DEF AtKind

LEMMA FromKind ==
    ASSUME IInv, Buffer, sent # <<>>, NEW f \in 1 .. Last, AtKind(f), Step
    PROVE  AtLength(f, 0)'
<1>1. /\ stage = "kind" /\ Inside(f) /\ index = After(f - 1) + 1 /\ value = 8 * f + 2
      /\ Present(Kind(f), Auth) /\ message = type
  BY DEF AtKind, Inside
<1>2. /\ f \in 1 .. 2 /\ sov(Length(f)) \in 1 .. MaxGroups /\ Length(f) \in 0 .. WordSize - 1
      /\ index \in Nat
  <2>1. Found(f, After(f - 1), Length(f), sov(Length(f)))
    <3>1. stage # "marshal" BY <1>1
    <3>. QED BY <1>1, <3>1, FieldInBuffer, Zenon
  <2>2. /\ f \in 1 .. 2 /\ sov(Length(f)) \in 1 .. MaxGroups
        /\ Length(f) \in 0 .. WordSize - 1 /\ After(f - 1) \in Nat
    BY <2>1, Zenon DEF Found
  <2>3. After(f - 1) + 1 \in Nat BY <2>2
  <2>. QED BY <1>1, <2>2, <2>3, Zenon
<1>3. Switch(type, Fields(type)) BY <1>1, StepsOfReader
<1>4. wireType = 2 BY <1>1, <1>2 DEF wireType
<1>5. fieldNum = f
  <2>1. value \div 8 = f BY <1>1, <1>2
  <2>3. Int32Size \in Nat /\ Int32Size > 5 BY WordAssumption
  <2>4. ASSUME NEW m \in Nat, m > 5, NEW x \in 1 .. 2
        PROVE  x % m = x /\ ~ (x >= m \div 2)
    <3>1. x % m = x BY <2>4
    <3>2. m \div 2 > 2 BY <2>4
    <3>. QED BY <3>1, <3>2
  <2>2. f % Int32Size = f /\ ~ (f >= Int32Size \div 2) BY <1>2, <2>3, <2>4, Zenon
  <2>. QED BY <2>1, <2>2 DEF fieldNum, AsInt32
<1>6. f > 0 /\ f \in 1 .. Len(Fields(type)) /\ ~ (f > Len(Fields(type)))
  <2>1. Last \in 0 .. 2 BY FieldsInOrder, SoundAuth DEF Buffer, IInv, TypeOK
  <2>. QED BY <2>1, <1>2 DEF Last
<1>7. /\ stage' = "length" /\ field' = f /\ value' = 0 /\ scale' = 1
      /\ UNCHANGED <<call, input, authority, slice, index>>
  BY <1>3, <1>4, <1>5, <1>6 DEF Switch, StartVarint
<1>8. Inside(f)' BY <1>1, <1>7, InsideKept DEF slice
<1>9. After(f - 1)' = After(f - 1) /\ Length(f)' = Length(f) BY <1>7, SameCall
<1>10. Length(f) % Weight[0] = 0 /\ Weight[0] = 1
  <2>1. Weight[0] = 1 BY WeightGrows, Zenon
  <2>2. Length(f) % 1 = 0 BY <1>2
  <2>. QED BY <2>1, <2>2
<1>11. 0 \in 0 .. sov(Length(f)) - 1 /\ After(f - 1) + 1 + 0 = After(f - 1) + 1
  BY <1>1, <1>2
<1>. QED BY <1>1, <1>7, <1>8, <1>9, <1>10, <1>11 DEF AtLength

(* The bytes of a length and what is read of it.                            *)

LEMMA ByteOfVarint ==
    ASSUME NEW n \in Nat, NEW j \in 0 .. sov(n) - 1, sov(n) \in Nat, NEW b, b = encodeVarint(n)[j + 1]
    PROVE  /\ b \in Nat /\ b % GroupSize = (n \div Weight[j]) % GroupSize
           /\ b < GroupSize <=> j + 1 = sov(n)
<1>. DEFINE d == (n \div Weight[j]) % GroupSize
<1>1. j + 1 \in 1 .. sov(n) /\ (j + 1) - 1 = j /\ j \in Nat OBVIOUS
<1>2. b = d + IF j + 1 < sov(n) THEN GroupSize ELSE 0 BY <1>1 DEF encodeVarint
<1>3. d \in 0 .. GroupSize - 1
  <2>1. Weight[j] \in Nat \ {0} BY <1>1, WeightGrows, Zenon
  <2>2. n \div Weight[j] \in Nat BY <2>1
  <2>. QED BY <2>2
<1>. HIDE DEF d
<1>4. d % GroupSize = d /\ (d + GroupSize) % GroupSize = d BY <1>3
<1>5. CASE j + 1 < sov(n)
  <2>1. b = d + GroupSize BY <1>2, <1>5
  <2>2. b \in Nat /\ ~ (b < GroupSize) /\ j + 1 # sov(n) BY <1>1, <1>3, <1>5, <2>1
  <2>. QED BY <1>4, <2>1, <2>2 DEF d
<1>6. CASE j + 1 = sov(n)
  <2>1. b = d /\ b \in Nat /\ b < GroupSize BY <1>1, <1>2, <1>3, <1>6
  <2>. QED BY <1>4, <1>6, <2>1 DEF d
<1>. QED BY <1>1, <1>5, <1>6

LEMMA Gathered ==
    ASSUME NEW n \in 0 .. WordSize - 1, NEW j \in Nat, NEW b \in Nat,
           b % GroupSize = (n \div Weight[j]) % GroupSize
    PROVE  /\ Gather(n % Weight[j], b, Weight[j]) = n % Weight[j + 1]
           /\ Weight[j] * GroupSize = Weight[j + 1]
<1>1. Weight[j] \in Nat \ {0} /\ Weight[j + 1] = Weight[j] * GroupSize BY WeightGrows, Zenon
<1>2. n \in Nat OBVIOUS
<1>3. (n % Weight[j]) + ((n \div Weight[j]) % GroupSize) * Weight[j]
          = n % (Weight[j] * GroupSize)
  BY <1>1, <1>2, Digits
<1>4. (n % Weight[j]) + (b % GroupSize) * Weight[j] = n % Weight[j + 1]
  BY <1>1, <1>3, Zenon
<1>5. n % Weight[j + 1] \in 0 .. WordSize - 1
  <2>1. Weight[j + 1] \in Nat \ {0} BY WeightGrows, j + 1 \in Nat, Zenon
  <2>2. \A w \in Nat \ {0} : n % w <= n /\ n % w \in Nat BY <1>2
  <2>3. n % Weight[j + 1] <= n /\ n % Weight[j + 1] \in Nat BY <2>1, <2>2, Zenon
  <2>. QED BY <2>3
<1>6. \A r \in 0 .. WordSize - 1 : r % WordSize = r OBVIOUS
<1>7. (n % Weight[j + 1]) % WordSize = n % Weight[j + 1] BY <1>5, <1>6, Zenon
<1>. QED BY <1>1, <1>4, <1>7, Zenon DEF Gather

LEMMA FromLength ==
    ASSUME IInv, Buffer, sent # <<>>, NEW f \in 1 .. Last, NEW j, AtLength(f, j), Step
    PROVE  AtBytes(f)' \/ (j + 1 \in 0 .. sov(Length(f)) - 1 /\ AtLength(f, j + 1)')
<1>. DEFINE n == Length(f)
            p == After(f - 1)
            s == sov(n)
            b == input[index + 1]
<1>1. /\ stage = "length" /\ Inside(f) /\ field = f /\ j \in 0 .. s - 1
      /\ index = p + 1 + j /\ value = n % Weight[j] /\ scale = Weight[j]
      /\ Present(Kind(f), Auth) /\ start = 0 /\ limit = Len(input)
  BY DEF AtLength, Inside
<1>2. /\ p \in Nat /\ Len(input) \in Nat /\ n \in 0 .. WordSize - 1
      /\ s \in Nat /\ n < Weight[s] /\ \A i \in 1 .. s - 1 : n >= Weight[i]
      /\ After(f) = p + 1 + s + n /\ After(f) <= Len(input)
      /\ \A i \in 1 .. s : input[p + 1 + i] = encodeVarint(n)[i]
  <2>1. Found(f, p, n, s)
    <3>1. stage # "marshal" BY <1>1
    <3>. QED BY <1>1, <3>1, FieldInBuffer, Zenon
  <2>. HIDE DEF n, p, s
  <2>. QED BY <2>1, Zenon DEF Found
<1>. HIDE DEF n, p, s
<1>3. /\ j \in Nat /\ j + 1 \in 1 .. s /\ index + 1 = p + 1 + (j + 1) /\ index < limit
      /\ n \in Nat
  <2>1. j \in 0 .. s - 1 /\ index = p + 1 + j /\ limit = Len(input) BY <1>1
  <2>2. p \in Nat /\ s \in Nat /\ n \in 0 .. WordSize - 1 BY <1>2
  <2>3. After(f) = p + 1 + s + n /\ After(f) <= Len(input) /\ Len(input) \in Nat BY <1>2
  <2>4. n \in Nat BY ONLY <2>2
  <2>. QED BY ONLY <2>1, <2>2, <2>3, <2>4
<1>4. b = encodeVarint(n)[j + 1] BY <1>2, <1>3
<1>5. Weight[j] < WordSize
  <2>1. CASE j = 0
    <3>1. Weight[0] = 1 BY WeightGrows, Zenon
    <3>. QED BY <2>1, <3>1, WordAssumption
  <2>2. CASE j # 0
    <3>1. j \in 1 .. s - 1 BY <1>1, <1>3, <2>2
    <3>2. n >= Weight[j] BY <1>2, <3>1
    <3>3. Weight[j] \in Nat BY <1>3, WeightGrows, Zenon
    <3>. QED BY <1>2, <3>2, <3>3
  <2>. QED BY <2>1, <2>2
<1>. HIDE DEF b
<1>6. /\ b \in Nat /\ b % GroupSize = (n \div Weight[j]) % GroupSize
      /\ b < GroupSize <=> j + 1 = s
  <2>1. n \in Nat /\ j \in 0 .. sov(n) - 1 /\ sov(n) \in Nat BY <1>1, <1>2, <1>3 DEF s
  <2>2. /\ b \in Nat /\ b % GroupSize = (n \div Weight[j]) % GroupSize
        /\ b < GroupSize <=> j + 1 = sov(n)
    BY ONLY <1>4, <2>1, ByteOfVarint
  <2>. QED BY <2>2, Zenon DEF s
<1>7. /\ value' = Gather(value, b, scale) /\ scale' = scale * GroupSize
      /\ stage' = IF b < GroupSize THEN AfterVarint(stage) ELSE stage
      /\ index' = index + 1
      /\ UNCHANGED <<call, input, authority, message, start, limit, field>>
  BY <1>1, <1>3, <1>5, NextByte DEF b
<1>8. value' = n % Weight[j + 1] /\ scale' = Weight[j + 1]
  BY <1>1, <1>2, <1>3, <1>6, <1>7, Gathered
<1>9. Inside(f)' BY <1>1, <1>7, InsideKept
<1>10. p' = p /\ n' = n /\ s' = s
  <2>1. p' = p /\ n' = n BY <1>7, SameCall DEF p, n
  <2>. QED BY <2>1 DEF s
<1>11. CASE j + 1 = s
  <2>1. stage' = "bytes" BY <1>1, <1>6, <1>7, <1>11 DEF AfterVarint
  <2>2. value' = n
    <3>1. Weight[s] \in Nat BY <1>2, WeightGrows, Zenon
    <3>3. \A w \in Nat : n < w => n % w = n BY ONLY <1>3
    <3>2. n % Weight[s] = n BY <1>2, <3>1, <3>3, Zenon
    <3>. QED BY <1>8, <1>11, <3>2
  <2>3. index' = p + 1 + s BY <1>1, <1>2, <1>3, <1>7, <1>11
  <2>4. field' = f /\ index' = p' + 1 + s' /\ value' = n'
    BY <1>1, <1>7, <1>10, <2>2, <2>3, Zenon
  <2>5. AtBytes(f)' BY <1>9, <2>1, <2>4 DEF AtBytes, p, n, s
  <2>. QED BY <2>5
<1>12. CASE j + 1 # s
  <2>1. stage' = "length" BY <1>1, <1>6, <1>7, <1>12
  <2>2. j + 1 \in 0 .. s - 1
    <3>1. s \in Nat /\ j \in 0 .. s - 1 BY <1>1, <1>2
    <3>. QED BY ONLY <3>1, <1>12
  <2>3. index' = p + 1 + (j + 1) BY <1>1, <1>2, <1>3, <1>7
  <2>4. AtLength(f, j + 1)'
    BY <1>1, <1>7, <1>8, <1>9, <1>10, <2>1, <2>2, <2>3 DEF AtLength, p, n, s
  <2>. QED BY <2>2, <2>4 DEF s, n
<1>. QED BY <1>11, <1>12

LEMMA SliceOf ==
    ASSUME NEW S, NEW a \in Seq(S), NEW c \in Seq(S), NEW p \in Nat, p + Len(c) <= Len(a),
           \A k \in 1 .. Len(c) : a[p + k] = c[k]
    PROVE  SubSeq(a, p + 1, p + Len(c)) = c
<1>. DEFINE sub == SubSeq(a, p + 1, p + Len(c))
<1>1. Len(c) \in Nat /\ Len(a) \in Nat OBVIOUS
<1>2. /\ sub \in Seq(S) /\ Len(sub) = Len(c)
      /\ \A k \in 1 .. Len(c) : sub[k] = a[p + k]
  <2>. DEFINE m == p + 1
              n == p + Len(c)
  <2>1. m \in Int /\ n \in Int /\ n - m + 1 = Len(c) /\ (m <= n \/ Len(c) = 0) BY <1>1
  <2>2. \A i \in m .. n : a[i] \in S
    <3>1. \A i \in m .. n : i \in 1 .. Len(a) BY <1>1
    <3>. QED BY ONLY <3>1, a \in Seq(S)
  <2>. HIDE DEF m, n
  <2>3. /\ SubSeq(a, m, n) \in Seq(S)
        /\ Len(SubSeq(a, m, n)) = IF m <= n THEN n - m + 1 ELSE 0
        /\ \A k \in 1 .. n - m + 1 : SubSeq(a, m, n)[k] = a[m + k - 1]
    BY ONLY <2>1, <2>2, SubSeqProperties
  <2>4. sub = SubSeq(a, m, n) BY DEF m, n
  <2>. HIDE DEF sub
  <2>5. Len(sub) = Len(c) BY ONLY <1>1, <2>1, <2>3, <2>4
  <2>6. \A k \in 1 .. Len(c) : m + k - 1 = p + k BY <1>1 DEF m
  <2>7. \A k \in 1 .. Len(c) : sub[k] = a[p + k] BY ONLY <2>1, <2>3, <2>4, <2>6
  <2>. QED BY <2>3, <2>4, <2>5, <2>7
<1>. HIDE DEF sub
<1>4. Len(sub) = Len(c) /\ \A k \in 1 .. Len(sub) : sub[k] = c[k] BY <1>2
<1>5. sub = c
  <2>1. sub \in Seq(S) /\ c \in Seq(S) BY <1>2
  <2>. QED BY ONLY <1>4, <2>1, SeqEqual
<1>. QED BY <1>5 DEF sub

LEMMA FromBytes ==
    ASSUME IInv, Buffer, sent # <<>>, NEW f \in 1 .. Last, AtBytes(f), Step
    PROVE  AtEmbedded(f)' \/ \E g \in 0 .. Last : AtField(g)'
<1>. DEFINE n == Length(f)
            p == index
<1>1. /\ stage = "bytes" /\ Inside(f) /\ field = f /\ value = n
      /\ index = After(f - 1) + 1 + sov(n) /\ authority = Text(f - 1)
      /\ Present(Kind(f), Auth) /\ message = type /\ start = 0 /\ limit = Len(input)
  BY DEF AtBytes, Inside
<1>2. /\ Len(input) \in Nat /\ n \in 0 .. WordSize - 1 /\ n < WordSize \div 2
      /\ After(f) = index + n /\ After(f) <= Len(input) /\ Len(input) < WordSize \div 2
      /\ \A k \in 1 .. n : input[index + k] = Content(Kind(f), Auth)[k]
      /\ index \in Nat /\ input \in Seq(Byte)
  <2>1. /\ Len(input) \in Nat /\ n \in 0 .. WordSize - 1 /\ n < WordSize \div 2
        /\ After(f) = After(f - 1) + 1 + sov(n) + n /\ After(f) <= Len(input)
        /\ Len(input) < WordSize \div 2
        /\ \A k \in 1 .. n : input[After(f - 1) + 1 + sov(n) + k] = Content(Kind(f), Auth)[k]
    <3>1. Found(f, After(f - 1), n, sov(n))
      <4>1. stage # "marshal" BY <1>1
      <4>. QED BY <1>1, <4>1, FieldInBuffer, Zenon
    <3>. QED BY <3>1, Zenon DEF Found
  <2>2. index \in Nat /\ input \in Seq(Byte) BY DEF IInv, TypeOK
  <2>. QED BY <1>1, <2>1, <2>2
<1>. HIDE DEF n
<1>3. \A x \in 0 .. WordSize - 1 : x < WordSize \div 2 => AsInt(x) = x
  <2>. SUFFICES ASSUME NEW x \in 0 .. WordSize - 1, x < WordSize \div 2
                PROVE  AsInt(x) = x
    OBVIOUS
  <2>1. x % WordSize = x OBVIOUS
  <2>2. ~ (x >= WordSize \div 2) OBVIOUS
  <2>. QED BY <2>1, <2>2 DEF AsInt
<1>4. AsInt(value) = n BY <1>1, <1>2, <1>3
<1>5. postIndex = index + n
  <2>1. index + n \in 0 .. WordSize - 1 /\ index + n < WordSize \div 2 BY <1>2
  <2>2. AsInt(index + n) = index + n BY <1>3, <2>1
  <2>3. index - start + AsInt(value) = index + n BY <1>1, <1>2, <1>4
  <2>. QED BY <1>1, <1>2, <2>2, <2>3 DEF postIndex
<1>6. Sliced
  <2>1. ~ (n < 0) /\ ~ (index + n < start) /\ index + n \in index .. limit BY <1>1, <1>2
  <2>. QED BY <1>1, <1>4, <1>5, <2>1 DEF Sliced, InvalidLength
<1>7. TakeString \/ TakeMessage BY <1>1, <1>6, StepsOfReader DEF CheckLength
<1>8. /\ Sound /\ type \in Types /\ UNCHANGED call /\ f \in 0 .. Last /\ Last \in 0 .. 2
  <2>1. Sound /\ type \in Types BY DEF Buffer, IInv, TypeOK
  <2>2. Last \in 0 .. 2 BY <2>1, SoundAuth, FieldsInOrder
  <2>. QED BY <2>1, <2>2, EveryStepKeepsTheCall
<1>9. Fields(message)[field] = Kind(f) BY <1>1 DEF Kind
<1>10. CASE TakeString
  <2>1. /\ Kind(f) = "string" /\ stage' = "field" /\ index' = postIndex
        /\ authority' = SubSeq(input, index + 1, postIndex)
        /\ UNCHANGED <<input, message, start, limit>>
    BY <1>9, <1>10 DEF TakeString, slice
  <2>2. Content(Kind(f), Auth) = Auth /\ n = Len(Auth) BY <2>1 DEF Content, n, Length
  <2>3. SubSeq(input, index + 1, index + Len(Auth)) = Auth
    <3>1. /\ Auth \in Seq(Byte) /\ index + Len(Auth) <= Len(input)
          /\ \A k \in 1 .. Len(Auth) : input[index + k] = Auth[k]
      BY <1>2, <1>8, <2>2, SoundAuth
    <3>. QED BY <1>2, <3>1, SliceOf
  <2>4. Text(f) = Auth
    <3>1. f \in 1 .. f BY <1>8
    <3>. QED BY <2>1, <3>1 DEF Text
  <2>5. authority' = Text(f) BY <1>5, <2>1, <2>2, <2>3, <2>4
  <2>6. index' = After(f) BY <1>2, <1>5, <2>1
  <2>. QED BY <1>1, <1>8, <2>1, <2>5, <2>6, FieldReached
<1>11. CASE TakeMessage
  <2>1. /\ Kind(f) = "message" /\ stage' = "field" /\ message' = "Params"
        /\ start' = index /\ limit' = postIndex /\ UNCHANGED <<input, authority, index>>
    BY <1>9, <1>11 DEF TakeMessage
  <2>2. n = 0 BY <2>1 DEF n, Length, Content
  <2>3. type # "Params" BY <1>8, <2>1, KindIsOne
  <2>4. Text(f) = Text(f - 1)
    <3>1. \A g \in 1 .. f : g \in 1 .. f - 1 \/ g = f BY <1>8
    <3>2. \A g \in 1 .. f - 1 : g \in 1 .. f BY <1>8
    <3>. QED BY <2>1, <3>1, <3>2 DEF Text
  <2>5. limit' = After(f) /\ index' = limit' BY <1>2, <1>5, <2>1, <2>2
  <2>6. /\ Text(f)' = Text(f) /\ After(f)' = After(f) /\ Last' = Last /\ type' = type
    BY <1>8, SameCall
  <2>. QED BY <1>1, <2>1, <2>3, <2>4, <2>5, <2>6 DEF AtEmbedded
<1>. QED BY <1>7, <1>10, <1>11

LEMMA FromEmbedded ==
    ASSUME IInv, Buffer, sent # <<>>, NEW f \in 1 .. Last, AtEmbedded(f), Step
    PROVE  \E g \in 0 .. Last : AtField(g)'
<1>1. /\ stage = "field" /\ message # type /\ authority = Text(f)
      /\ limit = After(f) /\ index = limit
  BY DEF AtEmbedded
<1>2. /\ Sound /\ type \in Types /\ UNCHANGED call /\ f \in 0 .. Last /\ index \in Nat
  <2>1. Sound /\ type \in Types /\ index \in Nat BY DEF Buffer, IInv, TypeOK
  <2>2. Last \in 0 .. 2 BY <2>1, SoundAuth, FieldsInOrder
  <2>. QED BY <2>1, <2>2, EveryStepKeepsTheCall
<1>3. NextField \/ EndEmbedded \/ EndMessage BY <1>1, StepsOfReader
<1>4. ~ (index < limit) BY <1>1, <1>2
<1>5. EndEmbedded BY <1>1, <1>3, <1>4 DEF NextField, EndMessage
<1>6. /\ stage' = "field" /\ message' = type /\ start' = 0 /\ limit' = Len(input)
      /\ index' = limit /\ UNCHANGED <<input, authority>>
  BY <1>1, <1>5 DEF EndEmbedded
<1>. QED BY <1>1, <1>2, <1>6, FieldReached

----------------------------------------------------------------------------
(* Every step of a call on a sent message.                                  *)

LEMMA HoldsKept ==
    ASSUME UNCHANGED <<call, input>>, NEW f, Holds(f)
    PROVE  Holds(f)'
<1>1. /\ Kind(f)' = Kind(f) /\ After(f - 1)' = After(f - 1) /\ Auth' = Auth
  BY SameCall
<1>. QED BY <1>1 DEF Holds

LEMMA BufferKept ==
    ASSUME Buffer, UNCHANGED <<call, input>>, stage # "marshal"
    PROVE  Buffer'
<1>1. /\ sent' = sent /\ Last' = Last /\ Sound' = Sound /\ After(Last)' = After(Last)
  <2>1. /\ sent' = sent /\ Last' = Last /\ Sound' = Sound /\ type' = type /\ Auth' = Auth
    BY SameCall
  <2>. QED BY <2>1 DEF After
<1>2. ASSUME sent # <<>>, NEW f \in 1 .. Last PROVE Holds(f)'
  <2>1. Holds(f) BY <1>2 DEF Buffer
  <2>. QED BY <2>1, HoldsKept
<1>. QED BY <1>1, <1>2 DEF Buffer

LEMMA InitOnTheWay == ASSUME Init PROVE Buffer /\ OnTheWay
<1>1. CASE sent = <<>> BY <1>1 DEF Buffer, OnTheWay
<1>2. ASSUME NEW auth \in Authorities,
             "string" \notin {Fields(type)[f] : f \in 1 .. Len(Fields(type))} => auth = <<>>,
             stage = "marshal", sent = <<auth>>,
             input = [k \in 1 .. Size(type, auth) |-> 0], field = Len(Fields(type))
      PROVE  Buffer /\ OnTheWay
  <2>1. Auth = auth /\ auth \in Seq(Byte) BY <1>2 DEF Auth
  <2>2. type \in Types /\ Last \in 0 .. 2 /\ field = Last BY <1>2, FieldsOf DEF Init, Last
  <2>3. Len(input) = After(Last)
    <3>1. Size(type, auth) = Remaining(type, Len(Fields(type)), auth) /\ Size(type, auth) \in Nat
      BY <2>1, <2>2, RemainingIsNat DEF Last
    <3>2. Len(input) = Size(type, auth) BY <1>2, <3>1
    <3>. QED BY <2>1, <3>1, <3>2 DEF After, Last
  <2>4. Sound BY <1>2, <2>1 DEF Sound, Last, Kind
  <2>5. \A f \in 1 .. Last : ~ (f > field) BY <2>2
  <2>. QED BY <1>2, <2>3, <2>4, <2>5 DEF Buffer, OnTheWay
<1>. QED BY <1>1, <1>2 DEF Init

\* What is known of the fields that are still to be written.
LEMMA SentAuthority ==
    ASSUME IInv, stage = "marshal"
    PROVE  /\ sent # <<>> /\ Auth = authority /\ type \in Types /\ message = type /\ start = 0
           /\ field \in 0 .. Last /\ index = After(field) /\ input \in Seq(Byte)
<1>1. /\ sent = <<authority>> /\ type \in Types /\ message = type /\ start = 0
      /\ field \in 0 .. Len(Fields(type)) /\ index = Remaining(type, field, authority)
      /\ input \in Seq(Byte)
  BY DEF IInv, TypeOK, Marshalling
<1>2. Auth = authority /\ sent # <<>> BY <1>1 DEF Auth
<1>. QED BY <1>1, <1>2, Zenon DEF After, Last

LEMMA MarshalWrites ==
    ASSUME IInv, Buffer, MarshalToSizedBuffer
    PROVE  Buffer' /\ OnTheWay'
<1>. DEFINE bytes == FieldBytes(field, Kind(field), Auth)
            i     == After(field - 1)
<1>1. /\ stage = "marshal" /\ sent # <<>> /\ Auth = authority /\ type \in Types
      /\ field \in 1 .. Last /\ index = After(field) /\ UNCHANGED call
  <2>1. stage = "marshal" /\ field > 0 /\ UNCHANGED call BY DEF MarshalToSizedBuffer
  <2>2. /\ sent # <<>> /\ Auth = authority /\ type \in Types
        /\ field \in 0 .. Last /\ index = After(field)
    BY <2>1, SentAuthority
  <2>3. Last \in 0 .. 2 BY <2>2, FieldsOf DEF Last
  <2>. QED BY <2>1, <2>2, <2>3
<1>2. /\ Sound /\ Auth \in Seq(Byte) /\ Len(input) = After(Last) BY <1>1, SoundAuth DEF Buffer
<1>3. /\ Last \in 0 .. 2 /\ i \in Nat /\ index \in Nat
      /\ \A f \in 1 .. Last :
             /\ f \in 1 .. 2 /\ f - 1 \in 0 .. Last /\ After(f - 1) \in Nat
             /\ After(f) <= Len(input) /\ After(f) \in Nat
             /\ After(f) = After(f - 1) + Len(FieldBytes(f, Kind(f), Auth))
             /\ Len(FieldBytes(f, Kind(f), Auth)) \in Nat
  <2>1. Last \in 0 .. 2 BY <1>1, <1>2, FieldsInOrder
  <2>2. ASSUME NEW f \in 1 .. Last
        PROVE  /\ f \in 1 .. 2 /\ f - 1 \in 0 .. Last /\ After(f - 1) \in Nat
               /\ After(f) <= Len(input) /\ After(f) \in Nat
               /\ After(f) = After(f - 1) + Len(FieldBytes(f, Kind(f), Auth))
               /\ Len(FieldBytes(f, Kind(f), Auth)) \in Nat
    <3>1. f \in 1 .. 2 /\ f - 1 \in 0 .. Last /\ f \in 0 .. Last BY <2>1
    <3>2. /\ After(f - 1) \in Nat /\ After(f) \in Nat /\ After(f) <= After(Last)
          /\ After(f) = After(f - 1) + FieldSize(Kind(f), Auth)
      BY <1>1, <1>2, <3>1, FieldsInOrder
    <3>3. /\ Len(FieldBytes(f, Kind(f), Auth)) = FieldSize(Kind(f), Auth)
          /\ FieldSize(Kind(f), Auth) \in Nat
      BY <1>2, <3>1, FieldHasItsSize
    <3>. QED BY <1>2, <3>1, <3>2, <3>3
  <2>. QED BY <1>1, <2>1, <2>2
<1>4. index - Len(bytes) = i /\ i >= 0 /\ index = i + Len(bytes) /\ Len(bytes) \in Nat
  BY <1>1, <1>3
<1>5. /\ input' = [k \in 1 .. Len(input) |->
                     IF k \in i + 1 .. index THEN bytes[k - i] ELSE input[k]]
      /\ field' = field - 1 /\ stage' = stage
  <2>1. bytes = FieldBytes(field, Fields(type)[field], authority) BY <1>1 DEF Kind
  <2>. HIDE DEF bytes, i
  <2>2. ~ (index - Len(bytes) < 0) BY <1>3, <1>4
  <2>. QED BY <1>4, <2>1, <2>2 DEF MarshalToSizedBuffer
<1>. HIDE DEF bytes, i
<1>6. Len(input) \in Nat /\ Len(input') = Len(input)
  <2>1. Len(input) \in Nat BY DEF IInv, TypeOK
  <2>. QED BY <1>5, <2>1
<1>7. \A k \in 1 .. Len(bytes) : input'[i + k] = bytes[k]
  <2>. SUFFICES ASSUME NEW k \in 1 .. Len(bytes) PROVE input'[i + k] = bytes[k] OBVIOUS
  <2>1. index <= Len(input) BY <1>1, <1>3
  <2>2. i + k \in 1 .. Len(input) /\ i + k \in i + 1 .. index /\ (i + k) - i = k
    BY <1>3, <1>4, <1>6, <2>1
  <2>. QED BY <1>5, <2>2
<1>8. \A k \in 1 .. Len(input) : k > index => input'[k] = input[k]
  <2>. SUFFICES ASSUME NEW k \in 1 .. Len(input), k > index PROVE input'[k] = input[k] OBVIOUS
  <2>1. k \notin i + 1 .. index BY <1>3
  <2>. QED BY <1>5, <2>1
<1>9. /\ sent' = sent /\ Last' = Last /\ Auth' = Auth /\ Sound' = Sound
      /\ \A f : Kind(f)' = Kind(f) /\ After(f)' = After(f)
  BY <1>1, SameCall
<1>10. ASSUME NEW f \in 1 .. Last, f > field - 1 PROVE Holds(f)'
  <2>1. \A k \in 1 .. Len(FieldBytes(f, Kind(f), Auth)) :
            input'[After(f - 1) + k] = FieldBytes(f, Kind(f), Auth)[k]
    <3>1. CASE f = field BY <1>7, <3>1 DEF bytes, i
    <3>2. CASE f # field
      <4>1. f > field /\ f - 1 = field BY <1>1, <1>3, <1>10, <3>2
      <4>2. Holds(f) BY <1>1, <4>1 DEF Buffer
      <4>. SUFFICES ASSUME NEW k \in 1 .. Len(FieldBytes(f, Kind(f), Auth))
                    PROVE  input'[After(f - 1) + k] = FieldBytes(f, Kind(f), Auth)[k]
        OBVIOUS
      <4>3. After(f - 1) = index BY <1>1, <4>1
      <4>4. After(f - 1) + k \in 1 .. Len(input) /\ After(f - 1) + k > index
        <5>1. /\ After(f) = After(f - 1) + Len(FieldBytes(f, Kind(f), Auth))
              /\ Len(FieldBytes(f, Kind(f), Auth)) \in Nat
              /\ After(f - 1) \in Nat /\ After(f) <= Len(input) /\ After(f) \in Nat
          BY <1>3
        <5>2. \A a, b, m, x \in Nat : b = a + m /\ b <= x /\ m \in Nat =>
                  \A y \in 1 .. m : a + y \in 1 .. x /\ a + y > a
          OBVIOUS
        <5>. QED BY <1>6, <4>3, <5>1, <5>2
      <4>. QED BY <1>8, <4>2, <4>4 DEF Holds
    <3>. QED BY <3>1, <3>2
  <2>2. /\ FieldBytes(f, Kind(f), Auth)' = FieldBytes(f, Kind(f), Auth)
        /\ After(f - 1)' = After(f - 1)
    BY <1>9
  <2>. QED BY <2>1, <2>2 DEF Holds
<1>11. Len(input') = After(Last)' BY <1>2, <1>6, <1>9
<1>12. OnTheWay' BY <1>1, <1>5 DEF OnTheWay
<1>13. ASSUME NEW f \in 1 .. Last' PROVE (stage' = "marshal" => f > field') => Holds(f)'
  BY <1>1, <1>5, <1>9, <1>10
<1>. QED BY <1>1, <1>2, <1>9, <1>11, <1>12, <1>13 DEF Buffer

LEMMA SentIsRead ==
    ASSUME IInv, Buffer, Send
    PROVE  Buffer' /\ OnTheWay'
<1>1. /\ stage = "marshal" /\ field = 0 /\ sent # <<>> /\ Auth = authority /\ type \in Types
      /\ message = type /\ start = 0 /\ index = After(0) /\ UNCHANGED call
      /\ input \in Seq(Byte)
  <2>1. stage = "marshal" /\ field = 0 /\ UNCHANGED call BY DEF Send
  <2>2. /\ sent # <<>> /\ Auth = authority /\ type \in Types /\ message = type /\ start = 0
        /\ index = After(field) /\ input \in Seq(Byte)
    BY <2>1, SentAuthority
  <2>. QED BY <2>1, <2>2
<1>2. Sound /\ Auth \in Seq(Byte) /\ Len(input) = After(Last) BY <1>1, SoundAuth DEF Buffer
<1>3. After(0) = 0 /\ Last \in 0 .. 2 BY <1>1, <1>2, FieldsInOrder
<1>4. /\ input' = input /\ limit' = Len(input') /\ stage' = "field" /\ authority' = <<>>
      /\ index' = 0 /\ message' = type /\ start' = 0
  BY <1>1, <1>3 DEF Send
<1>5. Buffer'
  <2>1. /\ sent' = sent /\ Last' = Last /\ Sound' = Sound
        /\ \A f : After(f)' = After(f)
    BY <1>1, SameCall
  <2>2. ASSUME NEW f \in 1 .. Last PROVE Holds(f)'
    <3>1. f > field BY <1>1
    <3>2. Holds(f) BY <1>1, <3>1 DEF Buffer
    <3>. QED BY <1>1, <1>4, <3>2, HoldsKept
  <2>3. After(Last)' = After(Last) BY <2>1
  <2>. QED BY <1>2, <1>4, <2>1, <2>2, <2>3 DEF Buffer
<1>6. 0 \in 0 .. Last /\ Text(0) = <<>>
  <2>1. ~ \E g \in 1 .. 0 : Kind(g) = "string" OBVIOUS
  <2>. QED BY <1>3, <2>1 DEF Text
<1>7. \E h \in 0 .. Last : AtField(h)' BY <1>1, <1>2, <1>3, <1>4, <1>6, FieldReached
<1>8. Last' = Last BY <1>1, SameCall
<1>. QED BY <1>5, <1>7, <1>8 DEF OnTheWay

\* Unmarshal does not write to its input.
LEMMA InputIsKept == ASSUME Step, stage # "marshal" PROVE UNCHANGED input
BY DEF Step, MarshalToSizedBuffer, Send, NextField, EndEmbedded, EndMessage, VarintTooLong,
   VarintCut, ReadByte, UnmarshalParams, UnmarshalGenesisState, UnmarshalModule,
   UnmarshalQueryParamsRequest, UnmarshalQueryParamsResponse, UnmarshalMsgUpdateParams,
   UnmarshalMsgUpdateParamsResponse, Switch, CheckLength, TakeString, TakeMessage, NextSkipped,
   SkipKind, SkipVarint, SkipLength, SkipStartGroup, SkipEndGroup, SkipFixed, SkipBytes, SkipMore,
   Skipped, SkipTo, Return

LEMMA ReaderGoesOn ==
    ASSUME IInv, Buffer, OnTheWay, sent # <<>>, stage # "marshal", Step
    PROVE  Buffer' /\ OnTheWay'
<1>1. UNCHANGED call /\ UNCHANGED input BY EveryStepKeepsTheCall, InputIsKept
<1>2. Buffer' BY <1>1, BufferKept
<1>3. /\ Last' = Last /\ \A f : sov(Length(f))' = sov(Length(f))
  <2>1. Last' = Last /\ \A f : Length(f)' = Length(f) BY <1>1, SameCall
  <2>. QED BY <2>1
<1>. DEFINE There == \/ \E g \in 0 .. Last : AtField(g)'
                     \/ \E f \in 1 .. Last :
                            \/ AtTag(f)' \/ AtKind(f)' \/ AtBytes(f)' \/ AtEmbedded(f)'
                            \/ \E j \in 0 .. sov(Length(f)) - 1 : AtLength(f, j)'
                     \/ Answered'
<1>4. There => OnTheWay' BY <1>3 DEF OnTheWay
<1>5. ASSUME NEW g \in 0 .. Last, AtField(g) PROVE There BY <1>5, FromField
<1>6. ASSUME NEW f \in 1 .. Last, AtTag(f) PROVE There BY <1>6, FromTag
<1>7. ASSUME NEW f \in 1 .. Last, AtKind(f) PROVE There
  <2>1. AtLength(f, 0)' BY <1>7, FromKind
  <2>2. 0 \in 0 .. sov(Length(f)) - 1
    <3>1. Present(Kind(f), Auth) BY <1>7 DEF AtKind, Inside
    <3>2. Found(f, After(f - 1), Length(f), sov(Length(f))) BY <3>1, FieldInBuffer, Zenon
    <3>3. sov(Length(f)) \in 1 .. MaxGroups BY <3>2 DEF Found
    <3>. QED BY <3>3
  <2>. QED BY <2>1, <2>2
<1>8. ASSUME NEW f \in 1 .. Last, NEW j \in 0 .. sov(Length(f)) - 1, AtLength(f, j) PROVE There
  <2>1. AtBytes(f)' \/ (j + 1 \in 0 .. sov(Length(f)) - 1 /\ AtLength(f, j + 1)')
    BY <1>8, FromLength
  <2>. QED BY <2>1
<1>9. ASSUME NEW f \in 1 .. Last, AtBytes(f) PROVE There BY <1>9, FromBytes
<1>10. ASSUME NEW f \in 1 .. Last, AtEmbedded(f) PROVE There BY <1>10, FromEmbedded
<1>11. ~ Answered BY StepsOfReader DEF Answered
<1>. HIDE DEF There
<1>12. There BY <1>5, <1>6, <1>7, <1>8, <1>9, <1>10, <1>11 DEF OnTheWay
<1>. QED BY <1>2, <1>4, <1>12

LEMMA RInvNext == RInv /\ [Step]_vars => RInv'
<1>. SUFFICES ASSUME RInv, [Step]_vars PROVE Buffer' /\ OnTheWay'
  BY IInvNext DEF RInv
<1>1. IInv /\ Buffer /\ OnTheWay BY DEF RInv
<1>2. CASE UNCHANGED vars
  <2>1. UNCHANGED <<stage, sent, type, input, authority, message, start, limit, index, field,
                    value, scale>>
    BY <1>2 DEF vars, call, slice, varint
  <2>2. Buffer' BY <1>1, <2>1
    DEF Buffer, Sound, Holds, After, Kind, Last, Auth
  <2>3. OnTheWay' BY <1>1, <2>1
    DEF OnTheWay, AtField, AtTag, AtKind, AtLength, AtBytes, AtEmbedded, Answered, Inside, Text,
        Length, After, Kind, Last, Auth
  <2>. QED BY <2>2, <2>3
<1>3. CASE Step /\ stage = "marshal"
  BY <1>1, <1>3, StepsOfReader, MarshalWrites, SentIsRead
<1>4. CASE Step /\ stage # "marshal" /\ sent # <<>> BY <1>1, <1>4, ReaderGoesOn
<1>5. CASE Step /\ stage # "marshal" /\ sent = <<>>
  <2>1. sent' = sent BY <1>5, EveryStepKeepsTheCall DEF call
  <2>. QED BY <1>5, <2>1 DEF Buffer, OnTheWay
<1>. QED BY <1>2, <1>3, <1>4, <1>5

\* Every authority of every message comes back as it was sent, whatever the
\* size of a word: the length that Size computes is the number of bytes that
\* MarshalToSizedBuffer writes backwards from it, encodeVarint writes what the
\* loops of Unmarshal gather, and the postIndex of each field is where the next
\* one that is present begins (tx.pb.go:262-345 and 349-551).
THEOREM MessagesComeBack == Spec => []RoundTrip
<1>1. Init => RInv BY InitEstablishes, InitOnTheWay DEF RInv
<1>2. RInv /\ [Step]_vars => RInv' BY RInvNext
<1>3. RInv => RoundTrip
  <2>. SUFFICES ASSUME RInv, sent # <<>>, stage \in Ended
                PROVE  stage = "ok" /\ authority = sent[1]
    BY DEF RoundTrip
  <2>1. stage \notin {"marshal", "field", "tag", "kind", "length", "bytes"}
    BY DEF Ended, Errors
  <2>2. OnTheWay BY DEF RInv
  <2>3. Answered
    BY <2>1, <2>2 DEF OnTheWay, AtField, AtTag, AtKind, AtLength, AtBytes, AtEmbedded
  <2>. QED BY <2>3 DEF Answered, Auth
<1>. QED BY <1>1, <1>2, <1>3, PTL DEF Spec
=============================================================================
