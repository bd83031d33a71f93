----------------------------- MODULE Encodings -----------------------------
(***************************************************************************)
(* The life of a chunk of one stream: it is encoded by a policy, or by a   *)
(* layout that was captured from another chunk of the stream; it is opened *)
(* on some machine; and it is read, with materializeNullable, skip, reset  *)
(* and readWithVisitor in any order.                                       *)
(***************************************************************************)
EXTENDS DecoderVisitors

CONSTANTS
    Factories,  \* encodingSelectionPolicyFactory: the policies of a writer
    Chunks,     \* of each type, the rows of its chunks
    Machines,   \* where chunks are read
    Slots,      \* bitmaps readers pass to materializeNullable
    Nulls,      \* nulls of a read range, <<>> for none
    Filters,    \* of each type, the sets of values of filters
    NoTree

VARIABLES
    type,     \* of the stream
    factory,  \* of its writer
    layout,   \* the layout captured for it, or NoLayout
    chunk,    \* the rows of the chunk
    tree,     \* what it is encoded as, or NoTree
    dec,      \* its decoder, or NoTree
    row       \* the rows read or skipped

vars == <<debugBuild, type, factory, layout, chunk, tree, dec, row>>

IsOpen == dec # NoTree
Written == tree # NoTree /\ ~Throws(tree)
Left == Len(chunk) - row

(* A chunk as StreamData holds it.                                         *)
StreamOf(rows) ==
    LET isValue(r) == r # Null
    IN  [values |-> SelectSeq(rows, isValue),
         nonNulls |-> [i \in DOMAIN rows |-> isValue(rows[i])],
         hasNulls |-> Null \in ToSet(rows)]

Init ==
    /\ debugBuild \in BOOLEAN
    /\ type \in DOMAIN Chunks
    /\ factory \in Factories
    /\ layout = NoLayout
    /\ chunk = <<>>
    /\ tree = NoTree
    /\ dec = NoTree
    /\ row = 0

WriteChunk ==
    /\ tree = NoTree
    /\ \E rows \in Chunks[type] :
         /\ chunk' = rows
         /\ tree' = EncodeStream(layout, factory, type, StreamOf(rows))
    /\ UNCHANGED <<debugBuild, type, factory, layout, dec, row>>

(* The layout of a chunk becomes that of the stream of another writer.     *)
CaptureLayout ==
    /\ Written /\ ~IsOpen
    /\ layout = NoLayout
    /\ layout' = Capture(tree)
    /\ chunk' = <<>>
    /\ tree' = NoTree
    /\ UNCHANGED <<debugBuild, type, factory, dec, row>>

Open ==
    /\ Written /\ ~IsOpen
    /\ \E machine \in Machines : dec' = Decode(tree, machine)
    /\ UNCHANGED <<debugBuild, type, factory, layout, chunk, tree, row>>

ReadTo(decoder, rows) ==
    /\ dec' = decoder
    /\ row' = rows
    /\ UNCHANGED <<debugBuild, type, factory, layout, chunk, tree>>

Read ==
    /\ IsOpen
    /\ \E slots \in Slots :
         /\ CountTrue(slots) <= Left
         /\ ReadTo(MaterializeNullable(dec, slots).dec, row + CountTrue(slots))

SkipRows ==
    /\ IsOpen
    /\ \E n \in 1..Left : ReadTo(Skip(dec, n), row + n)

ResetRows ==
    /\ IsOpen
    /\ ReadTo(Reset(dec), 0)

(* The visits that fit: of rows of a read range whose rows that are not    *)
(* null are in the chunk.                                                  *)
Ranges == {nonNulls \in Nulls :
             /\ nonNulls # <<>>
             /\ CountTrue(nonNulls) <= Left}
          \cup (IF Left > 0 THEN {<<>>} ELSE {})

(* The rows asked for, from 0, in order.                                   *)
RowSets(nonNulls) ==
    LET size == IF nonNulls = <<>> THEN Left ELSE Len(nonNulls)
    IN  {SetToSortSeq(rows, <) : rows \in (SUBSET (0..(size - 1))) \ {{}}}

VisitorsOf(rows) ==
    {Visitor(rows, FALSE, {}, fast) : fast \in BOOLEAN}
      \cup {Visitor(rows, TRUE, accepts, fast) : accepts \in Filters[type], fast \in BOOLEAN}

Visit ==
    /\ IsOpen
    /\ \E nonNulls \in Ranges : \E rows \in RowSets(nonNulls) :
         \E v \in VisitorsOf(rows) :
           ReadTo(ReadWithVisitor(dec, v, nonNulls).dec,
                  row + CountNonNulls(nonNulls, 0, LastRow(v) + 1))

Next ==
    \/ WriteChunk
    \/ CaptureLayout
    \/ Open
    \/ Read
    \/ SkipRows
    \/ ResetRows
    \/ Visit

Spec == Init /\ [][Next]_vars

-----------------------------------------------------------------------------
(* A layout with an encoding somewhere in it.                              *)
RECURSIVE Uses(_, _)
Uses(l, enc) ==
    l # NoLayout /\ (l.enc = enc \/ \E k \in DOMAIN l.children : Uses(l.children[k], enc))

(* encodeStreamTyped: a chunk is encoded whatever the policy picks, and    *)
(* with a layout captured from other data: an encoding that cannot hold    *)
(* the data, at any depth of the layout, ends in the retry without it.     *)
(* Both exceptions take a captured layout and a piece of data that is      *)
(* empty.  Run lengths of Booleans, replayed for a chunk of nulls only:    *)
(* the encoder reads the first of no runs.  And in debug builds a          *)
(* dictionary, for a chunk of nulls only or for the other values of a      *)
(* constant: the assertion that rules it out is not retried.               *)
EveryChunkEncodes ==
    LET values == StreamOf(chunk).values
    IN  tree # NoTree /\ Throws(tree) =>
          /\ layout # NoLayout
          /\ \/ /\ tree.enc = "Undefined"
                /\ type = "Bool" /\ Uses(layout, "RLE") /\ values = <<>>
             \/ /\ tree.enc = "Asserted"
                /\ debugBuild /\ Uses(layout, "Dictionary")
                /\ values = <<>> \/ Uses(layout, "MainlyConstant")

(* EncodingLayoutCapture and EncodingIdentifiers: the children of a        *)
(* captured layout are replayed for the streams they were captured from,   *)
(* so what was not retried is laid out again as it was.                    *)
RECURSIVE SameEncodings(_, _)
SameEncodings(a, b) ==
    /\ a.enc = b.enc
    /\ Len(a.children) = Len(b.children)
    /\ \A k \in DOMAIN a.children : SameEncodings(a.children[k], b.children[k])

ReplayKeepsLayout ==
    Written /\ ~IsOpen /\ layout # NoLayout =>
      \/ EncodeWith(layout, factory, type, StreamOf(chunk)).enc = "Incompatible"
      \/ SameEncodings(Capture(tree), layout)

(* VarintEncoding, TrivialEncoding<string_view>: the bytes reserved from   *)
(* the statistics are those that get written.                              *)
RECURSIVE WritesReserved(_)
WritesReserved(t) ==
    /\ Len(Data(t)) = t.reserved
    /\ \A k \in DOMAIN t.children : WritesReserved(t.children[k])

ReservedIsWritten == Written /\ ~IsOpen => WritesReserved(tree)

(* Encoding::materializeNullable: at any point of any mixture of calls,    *)
(* the next rows are those that were written, in the slots asked for, and  *)
(* nothing that was read ahead of the runs or past a buffer.               *)
ReadsDeliver ==
    IsOpen => \A slots \in Slots : CountTrue(slots) <= Left =>
      LET out == MaterializeNullable(dec, slots).out
          rank(i) == CountTrue(SubSeq(slots, 1, i))
      IN  out = [i \in DOMAIN slots |->
                   IF slots[i] THEN chunk[row + rank(i)] ELSE Null]

(* readWithVisitor: a visit delivers the rows asked for that pass the      *)
(* filter, with their values, on the fast path and on the slow one.        *)
Answer(v, nonNulls) ==
    LET value(r) == IF IsNull(nonNulls, r) THEN Null
                    ELSE chunk[row + CountNonNulls(nonNulls, 0, r) + 1]
        kept == SelectSeq(v.rows, LAMBDA r :
                   IF value(r) = Null THEN ~v.filtered ELSE Passes(v, value(r)))
    IN  [k \in DOMAIN kept |-> Hit(kept[k], value(kept[k]))]

VisitsDeliver ==
    IsOpen => \A nonNulls \in Ranges : \A rows \in RowSets(nonNulls) :
      \A v \in VisitorsOf(rows) :
        ReadWithVisitor(dec, v, nonNulls).out = Answer(v, nonNulls)
=============================================================================
