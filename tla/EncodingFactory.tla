-------------------------- MODULE EncodingFactory --------------------------
(***************************************************************************)
(* Writing data: EncodingFactory::encode and the encoders it calls.  What  *)
(* is written is a tree: an encoding, the type and number of its rows, a   *)
(* few values of its own (head), a block of data and the nested streams.   *)
(* An encoder that throws yields a tree whose encoding is the error.       *)
(***************************************************************************)
EXTENDS EncodingSelection

VARIABLE debugBuild  \* the build checks NIMBLE_DASSERT

Tuple(s) == <<>> \o s

(* Incompatible is the NimbleUserError that is retried, Asserted a         *)
(* NimbleInternalError; undefined behaviour returns no error at all.       *)
Errors == {"Incompatible", "Asserted", "Failed", "Undefined"}
ErrorTree(error) == [enc |-> error]
Throws(tree) == tree.enc \in Errors

(* ZstdCompressor declines a block that does not fit in the size of the    *)
(* data, and every other result is kept.  Which blocks fit is zstd's       *)
(* answer; here those of one value do.                                     *)
Shrinks(data) == Len(data) > 1 /\ Cardinality(ToSet(data)) = 1
Compress(data) == <<data>>
Uncompress(block) == block[1]

(* CompressionEncoder.                                                     *)
Block(tries, data) ==
    IF tries /\ data # <<>> /\ Shrinks(data)
    THEN [zip |-> TRUE, data |-> Compress(data)]
    ELSE [zip |-> FALSE, data |-> data]

(* An encoding and its serialized form.  The nested streams are encoded in *)
(* order, so the first that throws decides.  `reserved' is the size the    *)
(* encoder reserves for the data from the statistics.                      *)
Encoded(enc, type, rows, head, block, reserved, children) ==
    LET thrown == {k \in DOMAIN children : Throws(children[k])}
    IN  IF thrown # {} THEN children[Min(thrown)]
        ELSE [enc |-> enc, type |-> type, rows |-> rows, head |-> head,
              zip |-> block.zip, data |-> block.data, reserved |-> reserved,
              children |-> children]

NoBlock == [zip |-> FALSE, data |-> <<>>]

RECURSIVE Encode(_, _, _)

(* EncodingSelection::encodeNested.                                        *)
EncodeNested(policy, enc, id, type, values) ==
    IF CanCreateNested(policy, id)
    THEN Encode(type, Tuple(values), CreateNested(policy, enc, id))
    ELSE ErrorTree("Failed")

ConstantEncode(type, values) ==
    IF Cardinality(Uniques(values)) # 1 THEN ErrorTree("Incompatible")
    ELSE Encoded("Constant", type, Len(values), <<values[1]>>, NoBlock, 0, <<>>)

TrivialEncode(type, values, policy) ==
    LET tries == Compresses(policy, values)
        lengths == [i \in DOMAIN values |-> Len(values[i])]
    IN  IF type = "String"
        THEN Encoded("Trivial", type, Len(values), <<>>,
                     Block(tries, FlattenSeq(values)), TotalStringsLength(values),
                     <<EncodeNested(policy, "Trivial", 1, "Number", lengths)>>)
        ELSE Encoded("Trivial", type, Len(values), <<>>, Block(tries, values),
                     Len(values), <<>>)

(* FixedBitWidth packs the distances from the minimum, a whole number of   *)
(* bytes each.                                                             *)
FixedBitWidthEncode(type, values, policy) ==
    LET min == MinOf(type, values)
        width == ByteWidth(MaxOf(type, values) - min)
        packed == [i \in DOMAIN values |-> (values[i] - min) % 2^width]
    IN  IF type # "Number" THEN ErrorTree("Incompatible")
        ELSE Encoded("FixedBitWidth", type, Len(values), <<min, width>>,
                     Block(Compresses(policy, values), Tuple(packed)), Len(values), <<>>)

VarintEncode(type, values) ==
    LET min == MinOf(type, values)
        bytes == FlattenSeq(Tuple([i \in DOMAIN values |-> WriteVarint(values[i] - min)]))
    IN  IF type # "Number" THEN ErrorTree("Incompatible")
        ELSE Encoded("Varint", type, Len(values), <<min>>,
                     [zip |-> FALSE, data |-> bytes], VarintBytes(values), <<>>)

DictionaryEncode(type, values, policy) ==
    LET alphabet == UniqueOrder(values)
        place == [v \in ToSet(alphabet) |-> CHOOSE k \in DOMAIN alphabet : alphabet[k] = v]
        indices == [i \in DOMAIN values |-> place[values[i]] - 1]
        nested(id, t, data) == EncodeNested(policy, "Dictionary", id, t, data)
    IN  Encoded("Dictionary", type, Len(values), <<>>, NoBlock, 0,
                <<nested(1, type, alphabet), nested(2, "Number", indices)>>)

(* The runs of Booleans alternate: only the first value is kept, and it is *)
(* read from the first run whether there is one or not: undefined          *)
(* behaviour, from which no NimbleException comes back.                    *)
RLEEncode(type, values, policy) ==
    LET nested(id, t, data) == EncodeNested(policy, "RLE", id, t, data)
        lengths == nested(1, "Number", RunLengths(values))
        runValues == RunValues(values)
    IN  IF type # "Bool"
        THEN Encoded("RLE", type, Len(values), <<>>, NoBlock, 0,
                     <<lengths, nested(2, type, runValues)>>)
        ELSE IF Throws(lengths) THEN lengths
        ELSE IF values = <<>> THEN ErrorTree("Undefined")
        ELSE Encoded("RLE", type, Len(values), <<runValues[1]>>, NoBlock, 0, <<lengths>>)

MainlyConstantEncode(type, values, policy) ==
    LET common == Commonest(values)
        isCommon == [i \in DOMAIN values |-> values[i] = common]
        others == SelectSeq(values, LAMBDA v : v # common)
        nested(id, t, data) == EncodeNested(policy, "MainlyConstant", id, t, data)
    IN  IF type = "Bool" \/ values = <<>> THEN ErrorTree("Incompatible")
        ELSE Encoded("MainlyConstant", type, Len(values), <<common>>, NoBlock, 0,
                     <<nested(1, "Bool", isCommon), nested(2, type, others)>>)

(* SparseBool keeps the places of the rarer value, from 0, and after them  *)
(* the number of rows.                                                     *)
SparseBoolEncode(type, values, policy) ==
    LET sparse == ~(UniqueCount(values, TRUE) > Len(values) \div 2)
        places == SetToSortSeq({i \in DOMAIN values : values[i] = sparse}, <)
        indices == [k \in DOMAIN places |-> places[k] - 1] \o <<Len(values)>>
    IN  IF type # "Bool" THEN ErrorTree("Incompatible")
        ELSE Encoded("SparseBool", type, Len(values), <<sparse>>, NoBlock, 0,
                     <<EncodeNested(policy, "SparseBool", 1, "Number", indices)>>)

(* EncodingFactory::encode; the assertion on Dictionary is one of debug    *)
(* builds.                                                                 *)
EncodeAs(enc, type, values, policy) ==
    CASE enc = "Constant" -> ConstantEncode(type, values)
      [] enc = "Trivial" -> TrivialEncode(type, values, policy)
      [] enc = "RLE" -> RLEEncode(type, values, policy)
      [] enc = "Dictionary" ->
           IF debugBuild /\ (type = "Bool" \/ values = <<>>)
           THEN ErrorTree("Asserted") ELSE DictionaryEncode(type, values, policy)
      [] enc = "FixedBitWidth" -> FixedBitWidthEncode(type, values, policy)
      [] enc = "Varint" -> VarintEncode(type, values)
      [] enc = "MainlyConstant" -> MainlyConstantEncode(type, values, policy)
      [] enc = "SparseBool" -> SparseBoolEncode(type, values, policy)
      [] OTHER -> ErrorTree("Failed")

Encode(type, values, policy) ==
    EncodeAs(Select(policy, type, values), type, values, policy)

(* NullableEncoding::encodeNullable: the values that are there, and which   *)
(* rows have one.                                                          *)
EncodeNullable(type, values, nonNulls, policy) ==
    LET pair == SelectNullable(policy)
        nested(id, t, data) == EncodeNested(pair, "Nullable", id, t, data)
    IN  Encoded("Nullable", type, Len(nonNulls), <<>>, NoBlock, 0,
                <<nested(1, type, values), nested(2, "Bool", nonNulls)>>)

-----------------------------------------------------------------------------
(* VeloxWriter: encode and encodeStreamTyped.  A chunk is what a stream    *)
(* holds: values, which rows have one, and whether it may have nulls.      *)

EncodeWith(layout, factory, type, chunk) ==
    LET policy == IF layout # NoLayout THEN Replayed(layout, factory) ELSE factory
    IN  IF chunk.hasNulls
        THEN EncodeNullable(type, chunk.values, chunk.nonNulls, policy)
        ELSE Encode(type, chunk.values, policy)

(* Mutant: a captured layout that does not fit is an error.               *)
EncodeStream_NoRetry(layout, factory, type, chunk) ==
    EncodeWith(layout, factory, type, chunk)

EncodeStream(layout, factory, type, chunk) ==
    LET retried(first) == IF first.enc = "Incompatible" /\ layout # NoLayout
                          THEN EncodeWith(NoLayout, factory, type, chunk)
                          ELSE first
    IN  retried(EncodeWith(layout, factory, type, chunk))

(* EncodingLayoutCapture::capture.                                         *)
RECURSIVE Capture(_)
Capture(tree) ==
    IF tree.enc = "Nullable" THEN Capture(tree.children[1])
    ELSE Layout(tree.enc, tree.zip /\ tree.enc \in {"FixedBitWidth", "Trivial"},
                Tuple([k \in DOMAIN tree.children |-> Capture(tree.children[k])]))
=============================================================================
