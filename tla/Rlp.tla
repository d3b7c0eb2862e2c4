-------------------------------- MODULE Rlp ---------------------------------
(***************************************************************************)
(* The rlp package: transactions reach the node over REST in this encoding *)
(* (DecodeBytes) and leave the command line in it (EncodeToBytes).  A byte *)
(* is a number below Base.  The ranges of the first byte of a value are    *)
(* constants, so that all of them occur in short inputs.  A Go type is a   *)
(* record with its kind; a value of an interface is [str |-> bytes] or     *)
(* [list |-> values].                                                      *)
(***************************************************************************)
EXTENDS Integers, Sequences, SequencesExt

CONSTANTS
    Single,        \* bytes that are their own encoding (128)
    Short,         \* sizes that the first byte holds (56)
    SizeBytes,     \* bytes of a size that it does not hold (8)
    Types,         \* the types to decode into
    Samples,       \* for every type, values to encode
    MaxInput       \* bound on the length of an arbitrary input

\* The first byte holds the size of every integer.
ASSUME ShortHoldsUint == SizeBytes < Short

VARIABLE
    rlp            \* typ, the input, and `of`: the value whose encoding it is, if any

Base == Single + 2 * (Short + SizeBytes)
StringTag == Single
LongStringTag == StringTag + Short - 1
ListTag == LongStringTag + SizeBytes + 1
LongListTag == ListTag + Short - 1

(***************************************************************************)
(* Encoding.  An encbuf has the data without the headers of lists, and     *)
(* these headers apart, each with its place in the data.                   *)
(***************************************************************************)
RECURSIVE PutInt(_)
PutInt(i) == IF i < Base THEN <<i>> ELSE Append(PutInt(i \div Base), i % Base)

RECURSIVE IntSize(_)
IntSize(i) == IF i < Base THEN 1 ELSE 1 + IntSize(i \div Base)

HeadSize(size) == IF size < Short THEN 1 ELSE 1 + IntSize(size)

PutHead(small, large, size) ==
    IF size < Short THEN <<small + size>> ELSE <<large + IntSize(size)>> \o PutInt(size)

Put(w, b) == [w EXCEPT !.str = @ \o b]

EncodeStringHeader(w, size) == Put(w, PutHead(StringTag, LongStringTag, size))

EncodeString(w, b) ==
    IF Len(b) = 1 /\ b[1] < Single THEN Put(w, b) ELSE Put(EncodeStringHeader(w, Len(b)), b)

ListBegin(w) == [w EXCEPT !.lheads = Append(@, [offset |-> Len(w.str), size |-> w.lhsize])]

\* lh is the index of the header.
ListEndOf(w, lh) ==
    LET size == Len(w.str) + w.lhsize - w.lheads[lh].offset - w.lheads[lh].size IN
    [w EXCEPT !.lheads[lh].size = size, !.lhsize = @ + HeadSize(size)]

ToBytes(w) ==
    LET Piece(out, i) ==
            out \o SubSeq(w.str, (IF i = 1 THEN 0 ELSE w.lheads[i - 1].offset) + 1, w.lheads[i].offset)
                \o PutHead(ListTag, LongListTag, w.lheads[i].size)
        heads == FoldLeftDomain(Piece, <<>>, w.lheads)
    IN  heads \o SubSeq(w.str, (IF w.lheads = <<>> THEN 0 ELSE Last(w.lheads).offset) + 1, Len(w.str))

WriteUint(w, i) ==
    IF i = 0 THEN Put(w, <<StringTag>>)
    ELSE IF i < Single THEN Put(w, <<i>>) ELSE Put(w, <<StringTag + IntSize(i)>> \o PutInt(i))

WriteBool(w, b) == Put(w, IF b THEN <<1>> ELSE <<StringTag>>)

WriteBigInt(w, i) == IF i = 0 THEN Put(w, <<StringTag>>) ELSE EncodeString(w, PutInt(i))

RECURSIVE Write(_, _, _), WriteElems(_, _, _)

WriteElems(w, typs, vals) ==
    IF typs = <<>> THEN w ELSE WriteElems(Write(w, typs[1], vals[1]), Tail(typs), Tail(vals))

WriteSlice(w, typ, vals) ==
    LET elems == WriteElems(IF typ.kind = "tail" THEN w ELSE ListBegin(w),
                            [i \in DOMAIN vals |-> typ.elem], vals)
    IN  IF typ.kind = "tail" THEN elems ELSE ListEndOf(elems, Len(w.lheads) + 1)

WriteStruct(w, typ, vals) ==
    ListEndOf(WriteElems(ListBegin(w), typ.fields, vals), Len(w.lheads) + 1)

WriteInterface(w, typ, val) ==
    IF "str" \in DOMAIN val THEN EncodeString(w, val.str)
    ELSE WriteSlice(w, [kind |-> "slice", elem |-> typ], val.list)

\* makeWriter, and the writer that it makes.
Write(w, typ, val) ==
    CASE typ.kind = "raw" -> Put(w, val)
      [] typ.kind = "interface" -> WriteInterface(w, typ, val)
      [] typ.kind = "bigint" -> WriteBigInt(w, val)
      [] typ.kind = "uint" -> WriteUint(w, val)
      [] typ.kind = "bool" -> WriteBool(w, val)
      [] typ.kind \in {"string", "bytearray"} -> EncodeString(w, val)
      [] typ.kind \in {"slice", "array", "tail"} -> WriteSlice(w, typ, val)
      [] typ.kind = "struct" -> WriteStruct(w, typ, val)
      [] typ.kind = "ptr" -> Write(w, typ.elem, val)

Encoded(typ, val) == Write([str |-> <<>>, lheads |-> <<>>, lhsize |-> 0], typ, val)

EncodeToBytes(typ, val) == ToBytes(Encoded(typ, val))

\* The pieces that encReader returns, from a header and a place in the data on.
RECURSIVE Pieces(_, _, _)
Pieces(w, lhpos, strpos) ==
    IF lhpos > Len(w.lheads) THEN <<SubSeq(w.str, strpos + 1, Len(w.str))>>
    ELSE IF strpos < w.lheads[lhpos].offset
    THEN <<SubSeq(w.str, strpos + 1, w.lheads[lhpos].offset)>> \o Pieces(w, lhpos, w.lheads[lhpos].offset)
    ELSE <<PutHead(ListTag, LongListTag, w.lheads[lhpos].size)>> \o Pieces(w, lhpos + 1, strpos)

EncodeToReader(typ, val) == FlattenSeq(Pieces(Encoded(typ, val), 1, 0))

(***************************************************************************)
(* The Stream of a byte slice: r is what is left of it, and its length is  *)
(* `remaining`.  kind is "none" until Kind has been called.  An operation  *)
(* returns the stream, an error or "ok", and a value.                      *)
(***************************************************************************)
Ret(s, err, val) == [s |-> s, err |-> err, val |-> val]
Fail(s, err) == Ret(s, err, <<>>)
Then(w, F(_)) == IF w.err = "ok" THEN F(w) ELSE w
Check(w, ok, err) == IF ok THEN w ELSE Fail(w.s, err)

NewStream(b) == [r |-> b, kind |-> "none", size |-> 0, byteval |-> 0, kinderr |-> "ok", stack |-> <<>>]

Rearm(s) == [s EXCEPT !.kind = "none"]
InList(s) == s.stack # <<>>
Left(s) == Last(s.stack).size - Last(s.stack).pos

WillRead(s, n) ==
    IF InList(s) /\ n > Left(s) THEN Fail(Rearm(s), "elemTooLarge")
    ELSE Fail(IF InList(s) THEN [Rearm(s) EXCEPT !.stack[Len(s.stack)].pos = @ + n] ELSE Rearm(s),
              IF n > Len(s.r) THEN "valueTooLarge" ELSE "ok")

ReadFull(s, n) ==
    Then(WillRead(s, n), LAMBDA w :
         Ret([w.s EXCEPT !.r = SubSeq(@, n + 1, Len(@))], "ok", SubSeq(w.s.r, 1, n)))

ReadByte(s) == Then(ReadFull(s, 1), LAMBDA w : [w EXCEPT !.val = @[1]])

BigEndian(b) == FoldLeft(LAMBDA n, d : n * Base + d, 0, b)

ReadUint(s, size) ==
    IF size = 0 THEN Ret(Rearm(s), "ok", 0)
    ELSE IF size = 1 THEN ReadByte(s)
    ELSE Then(ReadFull(s, size), LAMBDA w :
              Check([w EXCEPT !.val = BigEndian(@)], w.val[1] # 0, "canonSize"))

KindIs(s, kind, size, err) == Fail([s EXCEPT !.kind = kind, !.size = size], err)

\* w is a size that the first byte does not hold.
LongKind(w, kind) ==
    IF w.err # "ok" THEN KindIs(w.s, kind, 0, w.err)
    ELSE KindIs(w.s, kind, w.val, IF w.val < Short THEN "canonSize" ELSE "ok")

KindOfByte(s, b) ==
    IF b < StringTag THEN KindIs([s EXCEPT !.byteval = b], "byte", 0, "ok")
    ELSE IF b \in StringTag..LongStringTag THEN KindIs(s, "string", b - StringTag, "ok")
    ELSE IF b \in ListTag..LongListTag THEN KindIs(s, "list", b - ListTag, "ok")
    ELSE LongKind(ReadUint(s, b - (IF b < ListTag THEN LongStringTag ELSE LongListTag)),
                  IF b < ListTag THEN "string" ELSE "list")

\* w is what readByte returned.
StreamReadKind(w) ==
    IF w.err # "ok" THEN KindIs(w.s, "byte", 0, IF InList(w.s) THEN w.err ELSE "EOF")
    ELSE KindOfByte([w.s EXCEPT !.byteval = 0], w.val)

\* Inside a list the value must fit in the list, at top level in the input.
Fits(w) ==
    LET err == CASE w.err # "ok" -> w.err
                 [] w.err = "ok" /\ InList(w.s) /\ w.s.size > Left(w.s) -> "elemTooLarge"
                 [] w.err = "ok" /\ ~InList(w.s) /\ w.s.size > Len(w.s.r) -> "valueTooLarge"
                 [] OTHER -> "ok"
    IN  Fail([w.s EXCEPT !.kinderr = err], err)

\* Kind and size are in the stream that is returned; an error stays until the value is read.
Kind(s) ==
    IF s.kind # "none" THEN Fail(s, s.kinderr)
    ELSE IF InList(s) /\ Left(s) = 0 THEN Fail([s EXCEPT !.kinderr = "ok"], "EOL")
    ELSE Fits(StreamReadKind(ReadByte(s)))

\* Faulty variant: a single byte may have a header.
BytesAny(s) ==
    Then(Kind(s), LAMBDA k :
         CASE k.s.kind = "byte" -> Ret(Rearm(k.s), "ok", <<k.s.byteval>>)
           [] k.s.kind = "list" -> Fail(k.s, "expectedString")
           [] k.s.kind = "string" -> ReadFull(k.s, k.s.size))

\* A single byte has no header.
Unheaded(w) == Then(w, LAMBDA x : Check(x, ~(Len(x.val) = 1 /\ x.val[1] < Single), "canonSize"))

Bytes(s) ==
    Then(Kind(s), LAMBDA k :
         CASE k.s.kind = "byte" -> Ret(Rearm(k.s), "ok", <<k.s.byteval>>)
           [] k.s.kind = "list" -> Fail(k.s, "expectedString")
           [] k.s.kind = "string" -> Unheaded(ReadFull(k.s, k.s.size)))

\* The header has been read already, so it is made again.
Raw(s) ==
    Then(Kind(s), LAMBDA k :
         CASE k.s.kind = "byte" -> Ret(Rearm(k.s), "ok", <<k.s.byteval>>)
           [] k.s.kind = "list" ->
                 Then(ReadFull(k.s, k.s.size), LAMBDA w :
                      [w EXCEPT !.val = PutHead(ListTag, LongListTag, Len(@)) \o @])
           [] k.s.kind = "string" ->
                 Then(ReadFull(k.s, k.s.size), LAMBDA w :
                      [w EXCEPT !.val = PutHead(StringTag, LongStringTag, Len(@)) \o @]))

\* w is what readUint returned for an integer of this size.
CanonicalUint(w, size) ==
    IF w.err = "canonSize" THEN Fail(w.s, "canonInt")
    ELSE Then(w, LAMBDA x : Check(x, size = 0 \/ x.val >= Single, "canonSize"))

Uint(s, bytes) ==
    Then(Kind(s), LAMBDA k :
         CASE k.s.kind = "byte" -> Check(Ret(IF k.s.byteval = 0 THEN k.s ELSE Rearm(k.s), "ok", k.s.byteval),
                                         k.s.byteval # 0, "canonInt")
           [] k.s.kind = "list" -> Fail(k.s, "expectedString")
           [] k.s.kind = "string" -> IF k.s.size > bytes THEN Fail(k.s, "uintOverflow")
                                     ELSE CanonicalUint(ReadUint(k.s, k.s.size), k.s.size))

Bool(s) == Then(Uint(s, 1), LAMBDA w : Check([w EXCEPT !.val = (@ = 1)], w.val <= 1, "invalidBool"))

List(s) ==
    Then(Kind(s), LAMBDA k :
         IF k.s.kind # "list" THEN Fail(k.s, "expectedList")
         ELSE Fail([Rearm(k.s) EXCEPT !.stack = Append(@, [pos |-> 0, size |-> k.s.size]), !.size = 0], "ok"))

PopList(s) ==
    LET outer == Front(s.stack) IN
    [Rearm(s) EXCEPT !.size = 0,
                     !.stack = IF outer = <<>> THEN outer
                               ELSE [outer EXCEPT ![Len(outer)].pos = @ + Last(s.stack).size]]

\* ListEnd after the values that w holds.
ListEnd(w) ==
    IF ~InList(w.s) THEN Fail(w.s, "notInList")
    ELSE IF Left(w.s) # 0 THEN Fail(w.s, "notAtEOL") ELSE [w EXCEPT !.s = PopList(@)]

(***************************************************************************)
(* Decoding into a type.                                                   *)
(***************************************************************************)
DecodeBigInt(s) ==
    Then(Bytes(s), LAMBDA w :
         Check([w EXCEPT !.val = BigEndian(@)], w.val = <<>> \/ w.val[1] # 0, "canonInt"))

\* The error of Uint is not looked at, and for a zero it leaves the kind as it is.
DecodeByteArray(s, vlen) ==
    Then(Kind(s), LAMBDA k :
         IF k.s.kind = "list" THEN Fail(k.s, "expectedString")
         ELSE IF vlen # (IF k.s.kind = "byte" THEN 1 ELSE k.s.size) THEN Fail(k.s, "length")
         ELSE IF k.s.kind = "byte" THEN Ret(Uint(k.s, SizeBytes).s, "ok", <<k.s.byteval>>)
         ELSE Unheaded(ReadFull(k.s, vlen)))

RECURSIVE DecodeValue(_, _), DecodeSliceElems(_, _, _), DecodeFields(_, _, _)

\* w is the next element: it, and those after it, follow vals.
NextElems(w, elem, vals) ==
    IF w.err = "EOL" THEN Ret(w.s, "ok", vals)
    ELSE IF w.err # "ok" THEN w ELSE DecodeSliceElems(w.s, elem, Append(vals, w.val))

DecodeSliceElems(s, elem, vals) == NextElems(DecodeValue(s, elem), elem, vals)

NextFields(w, typs, vals) ==
    IF w.err = "EOL" THEN Fail(w.s, "tooFew")
    ELSE IF w.err # "ok" THEN w ELSE DecodeFields(w.s, typs, Append(vals, w.val))

\* The elements of an array, or the fields of a struct, one by one.
DecodeFields(s, typs, vals) ==
    IF Len(vals) = Len(typs) THEN Ret(s, "ok", vals)
    ELSE NextFields(DecodeValue(s, typs[Len(vals) + 1]), typs, vals)

DecodeListSlice(s, elem) ==
    Then(List(s), LAMBDA l : Then(DecodeSliceElems(l.s, elem, <<>>), ListEnd))

DecodeListArray(s, vlen, elem) ==
    Then(List(s), LAMBDA l : Then(DecodeFields(l.s, [i \in 1..vlen |-> elem], <<>>), ListEnd))

DecodeStruct(s, fields) ==
    Then(List(s), LAMBDA l : Then(DecodeFields(l.s, fields, <<>>), ListEnd))

DecodeInterface(s, typ) ==
    Then(Kind(s), LAMBDA k :
         IF k.s.kind = "list"
         THEN Then(DecodeListSlice(k.s, typ), LAMBDA w : [w EXCEPT !.val = [list |-> @]])
         ELSE Then(Bytes(k.s), LAMBDA w : [w EXCEPT !.val = [str |-> @]]))

\* makeDecoder, and the decoder that it makes.
DecodeValue(s, typ) ==
    CASE typ.kind = "raw" -> Raw(s)
      [] typ.kind = "bigint" -> DecodeBigInt(s)
      [] typ.kind = "uint" -> Uint(s, typ.len)
      [] typ.kind = "bool" -> Bool(s)
      [] typ.kind = "string" -> Bytes(s)
      [] typ.kind = "bytearray" -> DecodeByteArray(s, typ.len)
      [] typ.kind = "array" -> DecodeListArray(s, typ.len, typ.elem)
      [] typ.kind = "tail" -> DecodeSliceElems(s, typ.elem, <<>>)
      [] typ.kind = "slice" -> DecodeListSlice(s, typ.elem)
      [] typ.kind = "struct" -> DecodeStruct(s, typ.fields)
      [] typ.kind = "ptr" -> DecodeValue(s, typ.elem)
      [] typ.kind = "interface" -> DecodeInterface(s, typ)

DecodeBytes(b, typ) ==
    Then(DecodeValue(NewStream(b), typ), LAMBDA w : Check(w, w.s.r = <<>>, "moreThanOneValue"))

(***************************************************************************)
(* The functions on encoded values: k, tagsize and contentsize.            *)
(***************************************************************************)
Head3(k, ts, cs, err) == [k |-> k, ts |-> ts, cs |-> cs, err |-> err]

ReadSize(b, slen) ==
    IF slen > Len(b) THEN [s |-> 0, err |-> "EOF"]
    ELSE LET s == BigEndian(SubSeq(b, 1, slen)) IN
         [s |-> s, err |-> IF s < Short \/ b[1] = 0 THEN "canonSize" ELSE "ok"]

ReadKind(buf) ==
    LET b == buf[1]
        Long(kind, n) == LET size == ReadSize(Tail(buf), n) IN Head3(kind, n + 1, size.s, size.err)
        h == CASE b < StringTag -> Head3("byte", 0, 1, "ok")
               [] b \in StringTag..LongStringTag ->
                     Head3("string", 1, b - StringTag,
                           IF b = StringTag + 1 /\ Len(buf) > 1 /\ buf[2] < Single THEN "canonSize" ELSE "ok")
               [] b \in LongStringTag + 1..ListTag - 1 -> Long("string", b - LongStringTag)
               [] b \in ListTag..LongListTag -> Head3("list", 1, b - ListTag, "ok")
               [] OTHER -> Long("list", b - LongListTag)
    IN  IF buf = <<>> THEN Head3("byte", 0, 0, "EOF")
        ELSE IF h.err = "ok" /\ h.cs > Len(buf) - h.ts THEN Head3("byte", 0, 0, "valueTooLarge") ELSE h

Split(b) ==
    LET h == ReadKind(b) IN
    IF h.err # "ok" THEN [k |-> "byte", content |-> <<>>, rest |-> b, err |-> h.err]
    ELSE [k |-> h.k, content |-> SubSeq(b, h.ts + 1, h.ts + h.cs),
          rest |-> SubSeq(b, h.ts + h.cs + 1, Len(b)), err |-> "ok"]

\* -1 stands for an error.
RECURSIVE CountValues(_, _)
CountValues(b, i) ==
    LET h == ReadKind(b) IN
    IF b = <<>> THEN i
    ELSE IF h.err # "ok" THEN -1 ELSE CountValues(SubSeq(b, h.ts + h.cs + 1, Len(b)), i + 1)

(***************************************************************************)
(* Every input up to MaxInput bytes, the encodings of the samples, and     *)
(* inputs that differ from these in a byte.                                *)
(***************************************************************************)
RlpInit ==
    \E i \in DOMAIN Types :
        \/ rlp = [typ |-> Types[i], input |-> <<>>, of |-> {}]
        \/ \E v \in Samples[i] :
              rlp = [typ |-> Types[i], input |-> EncodeToBytes(Types[i], v), of |-> {v}]

MoreInput ==
    /\ rlp.of = {}
    /\ Len(rlp.input) < MaxInput
    /\ \E b \in 0..Base - 1 : rlp' = [rlp EXCEPT !.input = Append(@, b)]

\* One byte of an encoding is another one.
OtherInput ==
    /\ rlp.of # {}
    /\ \E i \in DOMAIN rlp.input, b \in 0..Base - 1 : rlp' = [rlp EXCEPT !.input[i] = b, !.of = {}]

RlpNext == MoreInput \/ OtherInput

\* d is a decoded value, split what Split returns for the same bytes.
SplitAgrees(d, split) ==
    /\ split.err = "ok" /\ split.rest = <<>>
    /\ IF "str" \in DOMAIN d THEN split.content = d.str ELSE CountValues(split.content, 0) = Len(d.list)

\* d is what DecodeBytes returns for the input.
Exact(d) ==
    /\ \A v \in rlp.of : d.err = "ok" /\ d.val = v
    /\ d.err = "ok" =>
          /\ EncodeToBytes(rlp.typ, d.val) = rlp.input
          /\ EncodeToReader(rlp.typ, d.val) = rlp.input
          /\ rlp.typ.kind = "interface" => SplitAgrees(d.val, Split(rlp.input))

\* A value has one encoding: DecodeBytes gets back the value that EncodeToBytes encoded,
\* and it accepts no bytes but those that EncodeToBytes makes of the value it returns,
\* none with a longer header, with leading zeros or with bytes left over.  What is read
\* from EncodeToReader is the same.  Split and CountValues, which parse headers with code of
\* their own, agree with it.
OneEncoding == Exact(DecodeBytes(rlp.input, rlp.typ))
=============================================================================
