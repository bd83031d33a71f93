---------------------------- MODULE TabletWriter ----------------------------
(***************************************************************************)
(* dwio/nimble/tablet/TabletWriter: the layout of a nimble file.           *)
(*                                                                         *)
(* The file is the sequence of its non-empty extents, each the bytes of    *)
(* one append: a stream, a stripe group, the stripes section, an optional  *)
(* section, the footer, the postscript.  An extent carries its offset, its *)
(* size and what was written there (payload and codec); everything the     *)
(* reader finds later is found by offset and size alone.                   *)
(*                                                                         *)
(* writeStripe and close are loops over appends, and are modelled as one   *)
(* step per append: pc says which call is running, and no other call of    *)
(* the (single threaded) writer starts before it has returned.             *)
(***************************************************************************)
EXTENDS Integers, Sequences, FiniteSets

CONSTANTS
    MaxStreamOffset,               \* largest stream offset (uint32 in the code)
    StreamIds,                     \* stream offsets the schema hands out
    StreamSizes,                   \* encoded sizes of a stream; 0 allowed
    RowCounts,                     \* row counts of a stripe, 0 excluded
    SectionNames,                  \* names of optional sections
    SectionSizes,                  \* sizes of their contents; 0 allowed
    ZstdSizes,                     \* sizes a zstd payload may come out with
    MetadataFlushThreshold,        \* options_.metadataFlushThreshold
    MetadataCompressionThreshold,  \* options_.metadataCompressionThreshold
    MaxStripes                     \* bound: stripes written to the file

ASSUME ConstantsAssumption ==
    /\ MaxStreamOffset \in Nat
    /\ StreamIds \subseteq 0..MaxStreamOffset
    /\ StreamSizes \subseteq Nat
    /\ RowCounts \subseteq Nat \ {0}
    /\ IsFiniteSet(SectionNames)
    /\ SectionSizes \subseteq Nat
    /\ ZstdSizes \subseteq Nat \ {0}
    /\ MetadataFlushThreshold \in Nat
    /\ MetadataCompressionThreshold \in Nat
    /\ MaxStripes \in Nat

VARIABLES
    file,                \* sequence of extents
    fileSize,            \* file_->size()
    checksum,            \* number of bytes fed to checksum_
    rowCounts,           \* rowCounts_
    stripeOffsets,       \* stripeOffsets_
    stripeSizes,         \* stripeSizes_
    stripeGroupIndices,  \* stripeGroupIndices_
    streamOffsets,       \* streamOffsets_ of the stripes of the open group
    streamSizes,         \* streamSizes_ of the stripes of the open group
    stripeGroupIndex,    \* stripeGroupIndex_
    stripeGroups,        \* stripeGroups_
    optionalSections,    \* optionalSections_: <<>> or <<section>> per name
    stripes,             \* close(): the stripes section, <<>> when absent
    pc,                  \* the call being executed
    todo,                \* writeStripe: streams not yet appended
    written              \* history: the streams of every stripe

meta == <<stripeGroupIndex, stripeGroups, streamOffsets, streamSizes>>
stripeVars == <<rowCounts, stripeOffsets, stripeSizes, stripeGroupIndices>>
fileVars == <<file, fileSize, checksum>>
vars == <<fileVars, meta, stripeVars, optionalSections, stripes, pc, todo,
          written>>

kPostscriptSize == 20
kPostscriptChecksumedSize == 5

Stream == [offset : StreamIds, size : StreamSizes]

(* The streams of a stripe in the order the layout planner chose: every    *)
(* stream offset at most once.                                             *)
StreamLists ==
    {s \in UNION {[1..n -> Stream] : n \in 0..Cardinality(StreamIds)} :
        \A i, j \in DOMAIN s : s[i].offset = s[j].offset => i = j}

MetadataSection == [offset : Nat, size : Nat, codec : {"Uncompressed", "Zstd"}]

-----------------------------------------------------------------------------
(* Appending to the file                                                   *)

Extent(payload, size, codec) ==
    IF size = 0
    THEN <<>>
    ELSE <<[offset |-> fileSize, size |-> size, payload |-> payload,
            codec |-> codec]>>

(* writeWithChecksum: append, then feed the same bytes to the checksum.    *)
WriteWithChecksum(payload, size, codec) ==
    /\ file' = file \o Extent(payload, size, codec)
    /\ fileSize' = fileSize + size
    /\ checksum' = checksum + size

(* writeMetadata: sections above the threshold are compressed, unless zstd *)
(* finds no encoding that is not larger than the source.                   *)
Encodings(rawSize) ==
    {[size |-> rawSize, codec |-> "Uncompressed"]} \cup
    {[size |-> n, codec |-> "Zstd"] :
        n \in {z \in ZstdSizes :
                 rawSize > MetadataCompressionThreshold /\ z <= rawSize}}

(* Mutant: metadata is appended behind the checksum's back.                *)
CreateMetadataSection_NoChecksum(payload, enc) ==
    /\ file' = file \o Extent(payload, enc.size, enc.codec)
    /\ fileSize' = fileSize + enc.size
    /\ UNCHANGED checksum

(* createMetadataSection, for one of the encodings writeMetadata may pick. *)
CreateMetadataSection(payload, enc) ==
    WriteWithChecksum(payload, enc.size, enc.codec)

(* Mutants: the offset computed as if the section had been appended, and   *)
(* the codec not recorded.                                                 *)
Section_OffsetFromEnd(enc) ==
    [offset |-> fileSize - enc.size, size |-> enc.size, codec |-> enc.codec]
Section_NoCodec(enc) ==
    [offset |-> fileSize, size |-> enc.size, codec |-> "Uncompressed"]

Section(enc) == [offset |-> fileSize, size |-> enc.size, codec |-> enc.codec]

-----------------------------------------------------------------------------
(* Stripe groups                                                           *)

MaxOf(S) == CHOOSE x \in S : \A y \in S : y <= x

(* The longest vector among the stripes of the group.                      *)
MaxStreamCount(vectors) == MaxOf({Len(vectors[i]) : i \in DOMAIN vectors})

(* createFlattenedVector: one row of streamCount entries per stripe,       *)
(* padded with zeroes.                                                     *)
CreateFlattenedVector(source, streamCount) ==
    [k \in 1..(Len(source) * streamCount) |->
        LET row == source[((k - 1) \div streamCount) + 1]
            i == ((k - 1) % streamCount) + 1
        IN  IF i <= Len(row) THEN row[i] ELSE 0]

EstimatedSize(vectors) ==
    4 + Len(vectors) * Len(vectors[Len(vectors)]) * 13

StripeGroupPayload(offsets, sizes) ==
    LET streamCount == MaxStreamCount(offsets)
    IN  [kind |-> "StripeGroup",
         stripe_count |-> Len(offsets),
         stream_offsets |-> CreateFlattenedVector(offsets, streamCount),
         stream_sizes |-> CreateFlattenedVector(sizes, streamCount)]

StripeGroupRawSize(offsets) ==
    16 + 8 * Len(offsets) * MaxStreamCount(offsets)

(* Mutant: the index moves on even when the group stays open.              *)
TryWriteStripeGroup_AlwaysAdvance(force) ==
    IF \/ streamOffsets = <<>>
       \/ ~force /\ EstimatedSize(streamOffsets) < MetadataFlushThreshold
    THEN /\ stripeGroupIndex' = stripeGroupIndex + 1
         /\ UNCHANGED <<fileVars, stripeGroups, streamOffsets, streamSizes>>
    ELSE \E enc \in Encodings(StripeGroupRawSize(streamOffsets)) :
           /\ CreateMetadataSection(
                StripeGroupPayload(streamOffsets, streamSizes), enc)
           /\ stripeGroups' = Append(stripeGroups, Section(enc))
           /\ stripeGroupIndex' = stripeGroupIndex + 1
           /\ streamOffsets' = <<>>
           /\ streamSizes' = <<>>

(* tryWriteStripeGroup                                                     *)
TryWriteStripeGroup(force) ==
    IF \/ streamOffsets = <<>>
       \/ ~force /\ EstimatedSize(streamOffsets) < MetadataFlushThreshold
    THEN UNCHANGED <<fileVars, meta>>
    ELSE \E enc \in Encodings(StripeGroupRawSize(streamOffsets)) :
           /\ CreateMetadataSection(
                StripeGroupPayload(streamOffsets, streamSizes), enc)
           /\ stripeGroups' = Append(stripeGroups, Section(enc))
           /\ stripeGroupIndex' = stripeGroupIndex + 1
           /\ streamOffsets' = <<>>
           /\ streamSizes' = <<>>

-----------------------------------------------------------------------------
(* writeStripe                                                             *)

StreamCount(streams) ==
    IF streams = <<>> THEN 0
    ELSE MaxOf({streams[i].offset : i \in DOMAIN streams}) + 1

(* Up to the loop over the streams.  A call with rowCount = 0 returns at   *)
(* once and changes nothing.                                               *)
WriteStripe(rowCount, streams) ==
    /\ pc = "idle"
    /\ Len(rowCounts) < MaxStripes
    /\ rowCounts' = Append(rowCounts, rowCount)
    /\ stripeOffsets' = Append(stripeOffsets, fileSize)
    /\ streamOffsets' =
         Append(streamOffsets, [i \in 1..StreamCount(streams) |-> 0])
    /\ streamSizes' =
         Append(streamSizes, [i \in 1..StreamCount(streams) |-> 0])
    /\ todo' = streams
    /\ written' = Append(written, {streams[i] : i \in DOMAIN streams})
    /\ pc' = "stripe"
    /\ UNCHANGED <<fileVars, stripeSizes, stripeGroupIndices,
                   stripeGroupIndex, stripeGroups, optionalSections, stripes>>

(* Mutant: the stream's offset recorded from the start of the file.        *)
WriteStream_AbsoluteOffset ==
    /\ pc = "stripe"
    /\ todo # <<>>
    /\ LET stream == Head(todo)
           this == Len(streamOffsets)
       IN  /\ WriteWithChecksum(
                [kind |-> "Stream", stripe |-> Len(stripeOffsets),
                 id |-> stream.offset], stream.size, "Uncompressed")
           /\ streamOffsets' = [streamOffsets EXCEPT
                ![this] = [@ EXCEPT ![stream.offset + 1] = fileSize]]
           /\ streamSizes' = [streamSizes EXCEPT
                ![this] = [@ EXCEPT ![stream.offset + 1] = stream.size]]
    /\ todo' = Tail(todo)
    /\ UNCHANGED <<stripeVars, stripeGroupIndex, stripeGroups,
                   optionalSections, stripes, pc, written>>

(* One iteration: the offset is relative to the start of the stripe.       *)
WriteStream ==
    /\ pc = "stripe"
    /\ todo # <<>>
    /\ LET stream == Head(todo)
           this == Len(streamOffsets)
           start == stripeOffsets[Len(stripeOffsets)]
       IN  /\ WriteWithChecksum(
                [kind |-> "Stream", stripe |-> Len(stripeOffsets),
                 id |-> stream.offset], stream.size, "Uncompressed")
           /\ streamOffsets' = [streamOffsets EXCEPT
                ![this] = [@ EXCEPT ![stream.offset + 1] = fileSize - start]]
           /\ streamSizes' = [streamSizes EXCEPT
                ![this] = [@ EXCEPT ![stream.offset + 1] = stream.size]]
    /\ todo' = Tail(todo)
    /\ UNCHANGED <<stripeVars, stripeGroupIndex, stripeGroups,
                   optionalSections, stripes, pc, written>>

(* Mutant: the size is taken after the group was flushed.                  *)
FinishStripe_SizeAfterGroup ==
    /\ pc = "stripe"
    /\ todo = <<>>
    /\ stripeGroupIndices' = Append(stripeGroupIndices, stripeGroupIndex)
    /\ TryWriteStripeGroup(FALSE)
    /\ stripeSizes' =
         Append(stripeSizes, fileSize' - stripeOffsets[Len(stripeOffsets)])
    /\ pc' = "idle"
    /\ UNCHANGED <<rowCounts, stripeOffsets, optionalSections, stripes, todo,
                   written>>

(* After the loop.                                                         *)
FinishStripe ==
    /\ pc = "stripe"
    /\ todo = <<>>
    /\ stripeSizes' =
         Append(stripeSizes, fileSize - stripeOffsets[Len(stripeOffsets)])
    /\ stripeGroupIndices' = Append(stripeGroupIndices, stripeGroupIndex)
    /\ TryWriteStripeGroup(FALSE)
    /\ pc' = "idle"
    /\ UNCHANGED <<rowCounts, stripeOffsets, optionalSections, stripes, todo,
                   written>>

-----------------------------------------------------------------------------
(* writeOptionalSection: a second section of the same name is refused.     *)
WriteOptionalSection(name, size) ==
    /\ pc = "idle"
    /\ optionalSections[name] = <<>>
    /\ \E enc \in Encodings(size) :
         /\ CreateMetadataSection([kind |-> "Optional", name |-> name], enc)
         /\ optionalSections' =
              [optionalSections EXCEPT ![name] = <<Section(enc)>>]
    /\ UNCHANGED <<meta, stripeVars, stripes, pc, todo, written>>

-----------------------------------------------------------------------------
(* close: the last stripe group, the stripes section, the footer and the   *)
(* postscript, in that order.                                              *)

(* Mutant: close asks for the last group as writeStripe does.              *)
CloseGroup_NotForced ==
    /\ pc = "idle"
    /\ TryWriteStripeGroup(FALSE)
    /\ pc' = "closeStripes"
    /\ UNCHANGED <<stripeVars, optionalSections, stripes, todo, written>>

CloseGroup ==
    /\ pc = "idle"
    /\ TryWriteStripeGroup(TRUE)
    /\ pc' = "closeStripes"
    /\ UNCHANGED <<stripeVars, optionalSections, stripes, todo, written>>

StripesPayload ==
    [kind |-> "Stripes",
     row_counts |-> rowCounts,
     offsets |-> stripeOffsets,
     sizes |-> stripeSizes,
     group_indices |-> stripeGroupIndices]

CloseStripes ==
    /\ pc = "closeStripes"
    /\ IF stripeOffsets = <<>>
       THEN UNCHANGED <<fileVars, stripes>>
       ELSE \E enc \in Encodings(16 + 20 * Len(stripeOffsets)) :
              /\ CreateMetadataSection(StripesPayload, enc)
              /\ stripes' = <<Section(enc)>>
    /\ pc' = "closeFooter"
    /\ UNCHANGED <<meta, stripeVars, optionalSections, todo, written>>

SumOf(seq) ==
    LET sum[i \in 0..Len(seq)] == IF i = 0 THEN 0 ELSE sum[i - 1] + seq[i]
    IN  sum[Len(seq)]

FooterPayload ==
    [kind |-> "Footer",
     row_count |-> SumOf(rowCounts),
     stripes |-> stripes,
     stripe_groups |-> stripeGroups,
     optional_sections |-> optionalSections]

FooterRawSize ==
    24 + 16 * (Len(stripes) + Len(stripeGroups)
               + Cardinality({n \in SectionNames :
                                optionalSections[n] # <<>>}))

(* footerSize and the footer's codec are the last bytes under checksum;    *)
(* checksum type, checksum, versions and magic number follow.              *)
CloseFooter ==
    /\ pc = "closeFooter"
    /\ \E enc \in Encodings(FooterRawSize) :
         LET summed == checksum + enc.size + kPostscriptChecksumedSize
             ps == [kind |-> "Postscript",
                    footerSize |-> enc.size,
                    footerCompressionType |-> enc.codec,
                    checksum |-> summed]
         IN  /\ file' = file
                  \o Extent(FooterPayload, enc.size, enc.codec)
                  \o <<[offset |-> fileSize + enc.size,
                        size |-> kPostscriptSize,
                        payload |-> ps, codec |-> "Uncompressed"]>>
             /\ fileSize' = fileSize + enc.size + kPostscriptSize
             /\ checksum' = summed
    /\ pc' = "closed"
    /\ UNCHANGED <<meta, stripeVars, optionalSections, stripes, todo, written>>

-----------------------------------------------------------------------------
Init ==
    /\ file = <<>>
    /\ fileSize = 0
    /\ checksum = 0
    /\ rowCounts = <<>>
    /\ stripeOffsets = <<>>
    /\ stripeSizes = <<>>
    /\ stripeGroupIndices = <<>>
    /\ streamOffsets = <<>>
    /\ streamSizes = <<>>
    /\ stripeGroupIndex = 0
    /\ stripeGroups = <<>>
    /\ optionalSections = [name \in SectionNames |-> <<>>]
    /\ stripes = <<>>
    /\ pc = "idle"
    /\ todo = <<>>
    /\ written = <<>>

Next ==
    \/ \E rowCount \in RowCounts, streams \in StreamLists :
         WriteStripe(rowCount, streams)
    \/ WriteStream
    \/ FinishStripe
    \/ \E name \in SectionNames, size \in SectionSizes :
         WriteOptionalSection(name, size)
    \/ CloseGroup
    \/ CloseStripes
    \/ CloseFooter

Spec == Init /\ [][Next]_vars

-----------------------------------------------------------------------------
(* Properties                                                              *)

(* What an extent may hold.                                                *)
Codec == {"Uncompressed", "Zstd"}
SectionMaps == [SectionNames -> Seq(MetadataSection)]
Payload ==
    [kind : {"Stream"}, stripe : Nat, id : StreamIds] \cup
    [kind : {"StripeGroup"}, stripe_count : Nat,
     stream_offsets : Seq(Nat), stream_sizes : Seq(Nat)] \cup
    [kind : {"Stripes"}, row_counts : Seq(Nat), offsets : Seq(Nat),
     sizes : Seq(Nat), group_indices : Seq(Nat)] \cup
    [kind : {"Optional"}, name : SectionNames] \cup
    [kind : {"Footer"}, row_count : Nat, stripes : Seq(MetadataSection),
     stripe_groups : Seq(MetadataSection),
     optional_sections : SectionMaps] \cup
    [kind : {"Postscript"}, footerSize : Nat,
     footerCompressionType : Codec, checksum : Nat]

(* Type invariant: the file and the vectors TabletWriter accumulates.      *)
TypeOK ==
    /\ file \in Seq([offset : Nat, size : Nat, payload : Payload,
                     codec : Codec])
    /\ fileSize \in Nat
    /\ checksum \in Nat
    /\ rowCounts \in Seq(Nat)
    /\ stripeOffsets \in Seq(Nat)
    /\ stripeSizes \in Seq(Nat)
    /\ stripeGroupIndices \in Seq(Nat)
    /\ streamOffsets \in Seq(Seq(Nat))
    /\ streamSizes \in Seq(Seq(Nat))
    /\ stripeGroupIndex \in Nat
    /\ stripeGroups \in Seq(MetadataSection)
    /\ optionalSections \in SectionMaps
    /\ stripes \in Seq(MetadataSection)
    /\ pc \in {"idle", "stripe", "closeStripes", "closeFooter", "closed"}
    /\ todo \in Seq(Stream)
    /\ written \in Seq(SUBSET Stream)

(* An extent is a stream of a stripe; it lies within the bytes the stripes *)
(* section gives the stripe; it has none of these bytes.                   *)
OfStripe(extent, stripe) ==
    extent.payload.kind = "Stream" /\ extent.payload.stripe = stripe
Within(extent, start, size) ==
    /\ start <= extent.offset
    /\ extent.offset + extent.size <= start + size
Apart(extent, start, size) ==
    \/ extent.offset + extent.size <= start
    \/ start + size <= extent.offset

(* The offset and size recorded for a stripe, from file_->size() before    *)
(* its first stream and before the group that the same call may flush,     *)
(* enclose its streams and nothing else: splits of the file are made along *)
(* these bytes.                                                            *)
StripesHoldStreams ==
    \A s \in DOMAIN stripeSizes, k \in DOMAIN file :
      IF OfStripe(file[k], s)
      THEN Within(file[k], stripeOffsets[s], stripeSizes[s])
      ELSE Apart(file[k], stripeOffsets[s], stripeSizes[s])

(* The checksum in the postscript covers the file from its first byte up   *)
(* to and including the footer's codec: what                               *)
(* TabletReader::calculateChecksum reads again.                            *)
ChecksumCoversFile ==
    IF pc = "closed"
    THEN /\ checksum = fileSize - kPostscriptSize + kPostscriptChecksumedSize
         /\ file[Len(file)].payload.checksum = checksum
    ELSE checksum = fileSize

(* Stripes waiting in the open group whose writeStripe has returned.       *)
Pending == Len(streamOffsets) - (IF pc = "stripe" THEN 1 ELSE 0)

(* Group indices of consecutive stripes, the last `pending` of them in the *)
(* open group: no index is skipped or goes back, and every flushed group   *)
(* has a stripe.                                                           *)
Grouped(indices, pending, group) ==
    /\ pending \in 0..Len(indices)
    /\ \A i \in 1..Len(indices) : IF i > Len(indices) - pending
                                   THEN indices[i] = group
                                   ELSE indices[i] < group
    /\ \A i, j \in 1..Len(indices) : i <= j => indices[i] <= indices[j]
    /\ \A g \in 0..(group - 1) : \E i \in 1..Len(indices) : indices[i] = g

(* The group index writeStripe records for a stripe is the position its    *)
(* group gets when tryWriteStripeGroup flushes it, stripes later or in     *)
(* close; the stripes after the last flush are those of the open group.    *)
GroupsMatchStripes ==
    /\ Len(stripeGroups) = stripeGroupIndex
    /\ Len(streamOffsets) = Len(streamSizes)
    /\ Grouped(stripeGroupIndices, Pending, stripeGroupIndex)

(* What the reader's constructor checks of a closed file: as many groups   *)
(* as the last stripe's index says, and one entry per stripe everywhere.   *)
ClosedFileReadable ==
    pc \in {"closeStripes", "closeFooter", "closed"} =>
        LET n == Len(rowCounts)
        IN  /\ Len(stripeOffsets) = n
            /\ Len(stripeSizes) = n
            /\ Len(stripeGroupIndices) = n
            /\ streamOffsets = <<>>
            /\ n > 0 => Len(stripeGroups) = stripeGroupIndices[n] + 1
=============================================================================
