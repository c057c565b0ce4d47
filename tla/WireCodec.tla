------------------------------ MODULE WireCodec ------------------------------
(***************************************************************************)
(* The protobuf code of x/pulsar/types/*.pb.go: Size, MarshalToSizedBuffer *)
(* and Unmarshal of every message of the module, and the skipping of       *)
(* unknown fields.  Unmarshal reads one byte per step; its loops, its      *)
(* index arithmetic on machine integers, and the order of its checks are   *)
(* those of the code.  Reading or writing outside of a slice is a panic.   *)
(*                                                                         *)
(* A varint has GroupSize = 2^7 values per byte, a word WordSize = 2^64    *)
(* and an int32 Int32Size = 2^32 in the code; TLC takes smaller ones.      *)
(* Every embedded message is of type Params, which has no field.           *)
(***************************************************************************)
EXTENDS Integers, Sequences, FiniteSets

CONSTANTS
    GroupSize,   \* bytes below it end a varint
    MaxGroups,   \* bytes of the longest varint
    WordSize,    \* number of values of uint64 and of int
    Int32Size,   \* number of values of int32
    Authorities, \* authorities of the messages that are marshalled
    Inputs       \* byte strings that are unmarshalled as they are

Byte == 0 .. 2 * GroupSize - 1

ASSUME WireAssumption ==
    /\ GroupSize \in Nat /\ GroupSize > 18 /\ MaxGroups \in Nat \ {0}
    /\ WordSize \in Nat \ {0} /\ Int32Size \in Nat \ {0}
    /\ Authorities \subseteq Seq(Byte) /\ Inputs \subseteq Seq(Byte)

----------------------------------------------------------------------------
\* The messages: the kind of each field, in the order of their numbers.

Params                  == <<>>
GenesisState            == <<"message">>
QueryParamsRequest      == <<>>
QueryParamsResponse     == <<"message">>
MsgUpdateParams         == <<"string", "message">>
MsgUpdateParamsResponse == <<>>
Module                  == <<"string">>

Types == {"Params", "GenesisState", "QueryParamsRequest", "QueryParamsResponse",
          "MsgUpdateParams", "MsgUpdateParamsResponse", "Module"}

Fields(type) ==
    CASE type = "Params"                  -> Params
      [] type = "GenesisState"            -> GenesisState
      [] type = "QueryParamsRequest"      -> QueryParamsRequest
      [] type = "QueryParamsResponse"     -> QueryParamsResponse
      [] type = "MsgUpdateParams"         -> MsgUpdateParams
      [] type = "MsgUpdateParamsResponse" -> MsgUpdateParamsResponse
      [] type = "Module"                  -> Module

VARIABLES
    stage,     \* what the goroutine does next, or how the call ended
    sent,      \* what was marshalled; <<>> if the bytes came from elsewhere
    type,      \* the message that is marshalled or unmarshalled
    input,     \* dAtA
    authority, \* m.Authority
    message,   \* the message whose Unmarshal runs: the type, or an embedded Params
    start,     \* where its bytes begin
    limit,     \* l, where they end
    index,     \* iNdEx, or i when marshalling, counted from the beginning of dAtA
    preIndex,  \* where the field at hand begins
    field,     \* number of the field at hand
    value,     \* the varint being read
    scale,     \* GroupSize to the number of bytes read, for shift
    skipped,   \* iNdEx of the function that skips
    depth      \* its number of open groups

call   == <<sent, type>>
slice  == <<message, start, limit>>
varint == <<value, scale>>
skip   == <<skipped, depth>>
vars   == <<stage, call, input, authority, slice, index, preIndex, field, varint, skip>>

Reading  == {"tag", "length", "skipTag", "skipVarint", "skipLength"}
Skipping == {"skip", "skipTag", "skipKind", "skipVarint", "skipLength",
             "skipBytes", "skipped"}
Errors   == {"overflow", "eof", "negative", "endGroup", "illegal"}
Ended    == {"ok", "panic"} \union Errors
Stages   == {"marshal", "field", "kind", "bytes"} \union Reading \union Skipping \union Ended

----------------------------------------------------------------------------
\* Machine integers.

AsInt(n)   == IF n % WordSize >= WordSize \div 2
              THEN (n % WordSize) - WordSize ELSE n % WordSize

AsInt32(n) == IF n % Int32Size >= Int32Size \div 2
              THEN (n % Int32Size) - Int32Size ELSE n % Int32Size

----------------------------------------------------------------------------
\* Size and MarshalToSizedBuffer.

\* What a byte counts for after k others: 1 << shift.
Weight[k \in Nat] == IF k = 0 THEN 1 ELSE GroupSize * Weight[k - 1]

\* A word, a tag and a field number fit in their varint, their word and their int32.
ASSUME WordAssumption ==
    /\ Weight[MaxGroups] >= WordSize
    /\ WordSize > 18 /\ Int32Size > 5

sov(n) == Cardinality({k \in 1 .. MaxGroups : k = 1 \/ n >= Weight[k - 1]})

encodeVarint(n) ==
    [k \in 1 .. sov(n) |-> ((n \div Weight[k - 1]) % GroupSize)
                           + IF k < sov(n) THEN GroupSize ELSE 0]

\* The bytes after the tag: an empty string is left out, an empty message is not.
Content(kind, auth) == IF kind = "string" THEN auth ELSE <<>>
Present(kind, auth) == kind = "message" \/ auth # <<>>

FieldSize(kind, auth) ==
    IF Present(kind, auth)
    THEN 1 + Len(Content(kind, auth)) + sov(Len(Content(kind, auth)))
    ELSE 0

\* Mutant of Size: lengths take one byte.
SizeOfShort(t, auth) ==
    LET sizes == [f \in 1 .. Len(Fields(t)) |->
            IF Present(Fields(t)[f], auth) THEN 2 + Len(Content(Fields(t)[f], auth)) ELSE 0]
    IN  (IF Len(Fields(t)) >= 1 THEN sizes[1] ELSE 0)
        + (IF Len(Fields(t)) >= 2 THEN sizes[2] ELSE 0)

Size(t, auth) ==
    (IF Len(Fields(t)) >= 1 THEN FieldSize(Fields(t)[1], auth) ELSE 0)
    + (IF Len(Fields(t)) >= 2 THEN FieldSize(Fields(t)[2], auth) ELSE 0)

\* A slice has a length of type int.
ASSUME SliceAssumption ==
    /\ \A bytes \in Inputs : Len(bytes) < WordSize \div 2
    /\ \A auth \in Authorities, t \in Types : Size(t, auth) < WordSize \div 2

FieldBytes(f, kind, auth) ==
    IF Present(kind, auth)
    THEN <<8 * f + 2>> \o encodeVarint(Len(Content(kind, auth))) \o Content(kind, auth)
    ELSE <<>>

\* The buffer is filled from its end, last field first.
MarshalToSizedBuffer ==
    /\ stage = "marshal" /\ field > 0
    /\ LET bytes == FieldBytes(field, Fields(type)[field], authority)
           i     == index - Len(bytes)
       IN  IF i < 0
           THEN stage' = "panic" /\ UNCHANGED <<input, index, field>>
           ELSE /\ input' = [k \in 1 .. Len(input) |->
                        IF k \in i + 1 .. index THEN bytes[k - i] ELSE input[k]]
                /\ index' = i /\ field' = field - 1
                /\ UNCHANGED stage
    /\ UNCHANGED <<call, authority, slice, preIndex, varint, skip>>

\* Marshal returns as many bytes of the buffer as it has written, from its
\* beginning; they are unmarshalled into a new message.
Send ==
    /\ stage = "marshal" /\ field = 0
    /\ input' = SubSeq(input, 1, Len(input) - index)
    /\ stage' = "field" /\ authority' = <<>>
    /\ limit' = Len(input) - index /\ index' = 0
    /\ UNCHANGED <<call, message, start, preIndex, field, varint, skip>>

----------------------------------------------------------------------------
\* Unmarshal.

Init ==
    /\ type \in Types /\ message = type
    /\ start = 0 /\ preIndex = 0 /\ value = 0 /\ scale = 1 /\ skipped = 0 /\ depth = 0
    /\ \/ \E bytes \in Inputs :
             /\ stage = "field" /\ sent = <<>> /\ authority = <<>>
             /\ input = bytes /\ limit = Len(bytes) /\ index = 0 /\ field = 0
       \/ \E auth \in Authorities :
             /\ "string" \notin {Fields(type)[f] : f \in 1 .. Len(Fields(type))} => auth = <<>>
             /\ stage = "marshal" /\ sent = <<auth>> /\ authority = auth
             /\ input = [k \in 1 .. Size(type, auth) |-> 0]
             /\ limit = Len(input) /\ index = Len(input) /\ field = Len(Fields(type))

Return(how) ==
    /\ stage' = how
    /\ UNCHANGED <<call, input, authority, slice, index, preIndex, field, varint, skip>>

StartVarint == value' = 0 /\ scale' = 1

\* The head of the loop over the fields.
NextField ==
    /\ stage = "field" /\ index < limit
    /\ stage' = "tag" /\ preIndex' = index /\ StartVarint
    /\ UNCHANGED <<call, input, authority, slice, index, field, skip>>

\* The end of an embedded message: its caller goes on after it.
EndEmbedded ==
    /\ stage = "field" /\ index >= limit /\ message # type
    /\ message' = type /\ start' = 0 /\ limit' = Len(input) /\ index' = limit
    /\ UNCHANGED <<stage, call, input, authority, preIndex, field, varint, skip>>

EndMessage ==
    /\ stage = "field" /\ index >= limit /\ message = type
    /\ Return(IF index > limit THEN "eof" ELSE "ok")

----------------------------------------------------------------------------
\* The loops that read a varint.

\* The next byte.  The function that skips has the slice from preIndex on.
Cursor  == IF stage \in Skipping THEN preIndex + skipped ELSE index
Outside == IF stage \in Skipping THEN skipped < 0 ELSE index < start

AfterVarint(s) ==
    CASE s = "tag"        -> "kind"
      [] s = "length"     -> "bytes"
      [] s = "skipTag"    -> "skipKind"
      [] s = "skipVarint" -> "skipped"
      [] s = "skipLength" -> "skipBytes"

VarintTooLong == stage \in Reading /\ scale >= WordSize /\ Return("overflow")

VarintCut ==
    /\ stage \in Reading /\ scale < WordSize /\ Cursor >= limit
    /\ Return("eof")

\* Mutant of Gather: the sum does not stay in a word.
GatherWide(v, b, s) == v + (b % GroupSize) * s

Gather(v, b, s) == (v + (b % GroupSize) * s) % WordSize

ReadByte ==
    /\ stage \in Reading /\ scale < WordSize /\ Cursor < limit
    /\ IF Outside THEN Return("panic") ELSE
       LET b == input[Cursor + 1] IN
       /\ value' = Gather(value, b, scale) /\ scale' = scale * GroupSize
       /\ stage' = IF b < GroupSize THEN AfterVarint(stage) ELSE stage
       /\ IF stage \in Skipping
          THEN skipped' = skipped + 1 /\ UNCHANGED index
          ELSE index' = index + 1 /\ UNCHANGED skipped
       /\ UNCHANGED <<call, input, authority, slice, preIndex, field, depth>>

----------------------------------------------------------------------------
\* The switch over the field number.

\* Mutant of fieldNum: the number keeps its width.
fieldNumWide == value \div 8

fieldNum == AsInt32(value \div 8)
wireType == value % 8

\* What Unmarshal of a message with these fields does with a tag.
Switch(t, fields) ==
    /\ stage = "kind" /\ message = t
    /\ \/ /\ \/ wireType = 4 \/ fieldNum <= 0
             \/ fieldNum \in 1 .. Len(fields) /\ wireType # 2
          /\ Return("illegal")
       \/ /\ wireType = 2 /\ fieldNum \in 1 .. Len(fields)
          /\ stage' = "length" /\ field' = fieldNum /\ StartVarint
          /\ UNCHANGED <<call, input, authority, slice, index, preIndex, skip>>
       \/ /\ wireType # 4 /\ fieldNum > Len(fields)
          /\ stage' = "skip" /\ index' = preIndex /\ skipped' = 0 /\ depth' = 0
          /\ UNCHANGED <<call, input, authority, slice, preIndex, field, varint>>

UnmarshalParams                  == Switch("Params", Params)
UnmarshalGenesisState            == Switch("GenesisState", GenesisState)
UnmarshalQueryParamsRequest      == Switch("QueryParamsRequest", QueryParamsRequest)
UnmarshalQueryParamsResponse     == Switch("QueryParamsResponse", QueryParamsResponse)
UnmarshalMsgUpdateParams         == Switch("MsgUpdateParams", MsgUpdateParams)
UnmarshalMsgUpdateParamsResponse == Switch("MsgUpdateParamsResponse", MsgUpdateParamsResponse)
UnmarshalModule                  == Switch("Module", Module)

\* The checks of a length, and the slice it is the length of.
postIndex == AsInt(index - start + AsInt(value)) + start

\* Mutant of InvalidLength: no check that the sum is not negative.
InvalidLengthOnce == AsInt(value) < 0

InvalidLength == AsInt(value) < 0 \/ postIndex < start

Sliced == stage = "bytes" /\ ~ InvalidLength /\ postIndex \in index .. limit

CheckLength ==
    /\ stage = "bytes" /\ ~ Sliced
    /\ Return(IF InvalidLength THEN "negative"
              ELSE IF postIndex > limit THEN "eof" ELSE "panic")

TakeString ==
    /\ Sliced /\ Fields(message)[field] = "string"
    /\ stage' = "field" /\ index' = postIndex
    /\ authority' = SubSeq(input, index + 1, postIndex)
    /\ UNCHANGED <<call, input, slice, preIndex, field, varint, skip>>

TakeMessage ==
    /\ Sliced /\ Fields(message)[field] = "message"
    /\ stage' = "field" /\ message' = "Params" /\ start' = index /\ limit' = postIndex
    /\ UNCHANGED <<call, input, authority, index, preIndex, field, varint, skip>>

----------------------------------------------------------------------------
\* skipTx, skipQuery, skipGenesis, skipParams, skipModule: the same code.

SkipTo(s, i, d) ==
    /\ stage' = s /\ skipped' = i /\ depth' = d
    /\ UNCHANGED <<call, input, authority, slice, index, preIndex, field>>

NextSkipped ==
    /\ stage = "skip"
    /\ \/ Cursor >= limit /\ Return("eof")
       \/ Cursor < limit /\ SkipTo("skipTag", skipped, depth) /\ StartVarint

SkipVarint == wireType = 0 /\ SkipTo("skipVarint", skipped, depth) /\ StartVarint
SkipLength == wireType = 2 /\ SkipTo("skipLength", skipped, depth) /\ StartVarint
SkipFixed(t, n) ==
    wireType = t /\ SkipTo("skipped", AsInt(skipped + n), depth) /\ UNCHANGED varint
SkipStartGroup == wireType = 3 /\ SkipTo("skipped", skipped, depth + 1) /\ UNCHANGED varint

SkipEndGroup ==
    /\ wireType = 4
    /\ IF depth = 0 THEN Return("endGroup")
       ELSE SkipTo("skipped", skipped, depth - 1) /\ UNCHANGED varint

SkipKind ==
    /\ stage = "skipKind"
    /\ \/ SkipVarint \/ SkipLength \/ SkipStartGroup \/ SkipEndGroup
       \/ SkipFixed(1, 8) \/ SkipFixed(5, 4)
       \/ wireType \in {6, 7} /\ Return("illegal")

\* Mutant of SkipBytes: no check of the length.
SkipBytesUnchecked ==
    /\ stage = "skipBytes" /\ UNCHANGED varint
    /\ SkipTo("skipped", AsInt(skipped + AsInt(value)), depth)

SkipBytes ==
    /\ stage = "skipBytes"
    /\ \/ AsInt(value) < 0 /\ Return("negative")
       \/ AsInt(value) >= 0 /\ UNCHANGED varint
                            /\ SkipTo("skipped", AsInt(skipped + AsInt(value)), depth)

\* The end of an iteration, and what Unmarshal does with the result.

NegativeSkip == skipped < 0

SkipMore ==
    /\ stage = "skipped" /\ ~ NegativeSkip /\ depth > 0
    /\ SkipTo("skip", skipped, depth) /\ UNCHANGED varint

Skipped ==
    /\ stage = "skipped" /\ (NegativeSkip \/ depth = 0)
    /\ LET next == AsInt(index - start + skipped) + start IN
       \/ (NegativeSkip \/ next < start) /\ Return("negative")
       \/ ~ NegativeSkip /\ next >= start /\ next > limit /\ Return("eof")
       \/ /\ ~ NegativeSkip /\ next \in start .. limit
          /\ stage' = "field" /\ index' = next
          /\ UNCHANGED <<call, input, authority, slice, preIndex, field, varint, skip>>

----------------------------------------------------------------------------
Step ==
    \/ MarshalToSizedBuffer \/ Send
    \/ NextField \/ EndEmbedded \/ EndMessage
    \/ VarintTooLong \/ VarintCut \/ ReadByte
    \/ UnmarshalParams \/ UnmarshalGenesisState \/ UnmarshalModule
    \/ UnmarshalQueryParamsRequest \/ UnmarshalQueryParamsResponse
    \/ UnmarshalMsgUpdateParams \/ UnmarshalMsgUpdateParamsResponse
    \/ CheckLength \/ TakeString \/ TakeMessage
    \/ NextSkipped \/ SkipKind \/ SkipBytes \/ SkipMore \/ Skipped

Spec == Init /\ [][Step]_vars /\ WF_vars(Step)

----------------------------------------------------------------------------
TypeOK ==
    /\ stage \in Stages /\ type \in Types /\ message \in {type, "Params"}
    /\ sent \in {<<>>} \union {<<auth>> : auth \in Authorities}
    /\ input \in Seq(Byte) /\ authority \in Seq(Byte)
    /\ start \in Nat /\ limit \in Nat /\ index \in Nat /\ preIndex \in Nat
    /\ field \in Nat /\ value \in 0 .. WordSize - 1 /\ scale \in Nat
    /\ skipped \in Int /\ depth \in Nat

\* No byte outside of the slice at hand is read or written and no slice with its
\* end before its beginning is taken, whatever the bytes: Unmarshal answers with
\* an error instead (tx.pb.go:351-593 and the same code of the four other files).
NeverPanics == stage # "panic"

\* What was marshalled is unmarshalled to the same message: the size computed
\* in advance is the number of bytes written backwards from it, for authorities
\* on both sides of a length of two bytes (tx.pb.go:268-345).
RoundTrip == sent # <<>> /\ stage \in Ended => stage = "ok" /\ authority = sent[1]

\* Unmarshal returns: every turn of its loop consumes at least one byte, also
\* when the skipped field moves the index by a length read from the input.
Returns == <>(stage \in Ended)
=============================================================================
