----------------------------- MODULE WireGrammar -----------------------------
(***************************************************************************)
(* The wire format as a grammar over the positions of a byte string, to    *)
(* compare the loops of WireCodec with.  Each operator returns the         *)
(* position after the phrase that begins at i, or 0 if there is none.      *)
(***************************************************************************)
EXTENDS WireCodec, FiniteSetsExt

VarintAfter(b, i) ==
    LET last == {k \in i .. Len(b) : k < i + MaxGroups /\ b[k] < GroupSize}
    IN  IF i = 0 \/ last = {} THEN 0 ELSE Min(last) + 1

VarintAt(b, i) ==
    MapThenSumSet(LAMBDA k : (b[k] % GroupSize) * GroupSize ^ (k - i),
                  i .. VarintAfter(b, i) - 1) % WordSize

KindAt(b, i) == VarintAt(b, i) % 8

\* The number of the field whose tag is at i.
FieldAt(b, i) == AsInt32(VarintAt(b, i) \div 8)

FixedAfter(b, i, n) == IF i # 0 /\ i + n <= Len(b) + 1 THEN i + n ELSE 0

BytesAfter(b, i) ==
    LET from == VarintAfter(b, i)
        n    == AsInt(VarintAt(b, i))
    IN  IF from # 0 /\ n >= 0 /\ from + n <= Len(b) + 1 THEN from + n ELSE 0

\* A field whose number the message does not have, and what follows the
\* beginning of a group up to its end.  Inside of a group numbers are not read.
UnknownAfter(b, i0) ==
    LET after[i \in 0 .. Len(b) + 1, phrase \in {"record", "group"}] ==
            LET payload == VarintAfter(b, i)
                record  == after[i, "record"]
            IN  IF payload = 0 THEN 0
                ELSE IF phrase = "group"
                THEN IF KindAt(b, i) = 4 THEN payload
                     ELSE IF record = 0 THEN 0 ELSE after[record, "group"]
                ELSE CASE KindAt(b, i) = 0 -> VarintAfter(b, payload)
                       [] KindAt(b, i) = 1 -> FixedAfter(b, payload, 8)
                       [] KindAt(b, i) = 2 -> BytesAfter(b, payload)
                       [] KindAt(b, i) = 3 -> after[payload, "group"]
                       [] KindAt(b, i) = 5 -> FixedAfter(b, payload, 4)
                       [] OTHER -> 0
    IN  after[i0, "record"]

\* Where the field at i of a message with these fields ends.
RecordAfter(b, i, fields, Accepts(_, _)) ==
    LET payload == VarintAfter(b, i)
        after   == BytesAfter(b, payload)
    IN  IF payload = 0 \/ KindAt(b, i) = 4 \/ FieldAt(b, i) <= 0 THEN 0
        ELSE IF FieldAt(b, i) > Len(fields) THEN UnknownAfter(b, i)
        ELSE IF KindAt(b, i) = 2 /\ after # 0
                /\ Accepts(fields[FieldAt(b, i)],
                           SubSeq(b, VarintAfter(b, payload), after - 1))
        THEN after ELSE 0

\* The positions at which the fields of a message begin, and its end.
FieldStarts(b, fields, Accepts(_, _)) ==
    LET from[i \in 1 .. Len(b) + 1] ==
            LET next == RecordAfter(b, i, fields, Accepts)
            IN  {i} \union IF i > Len(b) \/ next = 0 THEN {} ELSE from[next]
    IN  from[1]

AnyContent(kind, bytes)   == TRUE
ParamsContent(kind, bytes) ==
    kind = "message" => Len(bytes) + 1 \in FieldStarts(bytes, Params, AnyContent)

\* The last of the strings wins.
LastString(b, fields, positions) ==
    LET strings == {i \in positions : /\ i <= Len(b) /\ FieldAt(b, i) \in 1 .. Len(fields)
                                      /\ fields[FieldAt(b, i)] = "string"}
        payload == VarintAfter(b, Max(strings))
    IN  IF strings = {} THEN <<>>
        ELSE SubSeq(b, VarintAfter(b, payload), BytesAfter(b, payload) - 1)

\* A call of Unmarshal ends without an error exactly on the byte strings of the
\* grammar, with the last string of the input in the message: no field is read
\* twice, left out or taken from the bytes of another one, through groups,
\* overlong varints, lengths that leave the integers and unknown fields
\* (tx.pb.go:351-593 and the same code of the four other files).
AgreesWithGrammar ==
    stage \in Ended =>
        LET starts == FieldStarts(input, Fields(type), ParamsContent)
        IN  IF stage = "ok"
            THEN /\ Len(input) + 1 \in starts
                 /\ authority = LastString(input, Fields(type), starts)
            ELSE Len(input) + 1 \notin starts
=============================================================================
