-------------------------- MODULE SlidingWindowMap --------------------------
(***************************************************************************)
(* Maps that repeat from row to row: SlidingWindowMapFieldWriter stores a  *)
(* run of equal maps once, with an offset and a length for every row that  *)
(* is not null, and SlidingWindowMapFieldReader reads the window of        *)
(* entries a batch refers to.                                              *)
(*                                                                         *)
(* Unlike the reader of deduplicated arrays this one keeps no map between  *)
(* calls: it moves the readers of keys and values back when a batch starts *)
(* with a map of an earlier one.  A map is a sequence of entries; two maps *)
(* with the same entries in a different order are equal.                   *)
(***************************************************************************)
EXTENDS RowSequences

CONSTANTS
    Maps,     \* maps, as sequences of entries
    MaxRows,  \* bound: rows of a stripe
    MaxBatch, \* bound: rows of a call of write
    MaxSlots  \* bound: slots of a call of next

Entries(map) == {map[i] : i \in DOMAIN map}

ASSUME MapsAssumption ==
    /\ MaxRows \in Nat
    /\ MaxBatch \in Nat
    /\ MaxSlots \in Nat
    /\ \A map \in Maps :
         map \in Seq(Entries(map)) /\ map # Null /\ Entries(map) # Null
    /\ Null \notin Nat

VARIABLES
    rows,     \* history: the rows written to this stripe
    offsets,  \* offsetsStream_, Null for a null row
    lengths,  \* lengthsStream_
    entries,  \* the streams of keys_ and values_, written in step
    writer,   \* currentOffset_, cached_ and cachedValue_; during a call, the
              \* map at lastCompareIndex
    reading,  \* the stripe is finished and being read
    reader,   \* positions in the streams, and cursorPos_
    out       \* what the last call returned: nothing, unless it was next

streams == <<offsets, lengths, entries>>
vars == <<rows, streams, writer, reading, reader, out>>

-----------------------------------------------------------------------------
(* The writer                                                              *)

NewWriter == [offset |-> 0, cached |-> FALSE, value |-> <<>>]

(* CompareMapsAtIndex, of maps that are not null: keys are sorted first.   *)
CompareMaps(left, right) ==
    Len(left) = Len(right) /\ Entries(left) = Entries(right)

(* Mutant: two maps of the same length are taken for equal.                *)
IsDuplicate_ByLength(w, map) ==
    w.cached /\ Len(w.value) = Len(map)

(* A map is compared with the one before it, the first of a call with the  *)
(* copy of the last one of the call before.                                *)
IsDuplicate(w, map) ==
    w.cached /\ CompareMaps(w.value, map)

(* processMapIndex; the entries of a map that is new go to the writers of  *)
(* keys and values.  s holds the streams and the writer.                   *)
ProcessMap(s, map) ==
    LET match == IsDuplicate(s.writer, map)
        current == s.writer.offset + IF match THEN 0 ELSE Len(map)
    IN  [rows |-> Append(s.rows, Entries(map)),
         offsets |-> Append(s.offsets, current - Len(map)),
         lengths |-> Append(s.lengths, Len(map)),
         entries |-> IF match THEN s.entries ELSE s.entries \o map,
         writer |-> [offset |-> current, cached |-> TRUE, value |-> map]]

(* A null row has a flag in the stream of offsets and nothing else.        *)
ProcessRow(s, row) ==
    IF row # Null THEN ProcessMap(s, row)
    ELSE [rows |-> Append(s.rows, Null),
          offsets |-> Append(s.offsets, Null),
          lengths |-> s.lengths, entries |-> s.entries, writer |-> s.writer]

(* ingestOffsetsAndLengthsDeduplicated, row by row.                        *)
Ingested(batch) ==
    LET after[i \in 0..Len(batch)] ==
          IF i = 0
          THEN [rows |-> rows, offsets |-> offsets, lengths |-> lengths,
                entries |-> entries, writer |-> writer]
          ELSE ProcessRow(after[i - 1], batch[i])
    IN  after[Len(batch)]

Write(batch) ==
    LET s == Ingested(batch)
    IN  /\ ~reading
        /\ Len(rows) + Len(batch) <= MaxRows
        /\ rows' = s.rows
        /\ offsets' = s.offsets
        /\ lengths' = s.lengths
        /\ entries' = s.entries
        /\ writer' = s.writer
        /\ UNCHANGED <<reading, reader, out>>

(* reset, at the end of a stripe: on to the next one.                      *)
Reset ==
    /\ ~reading
    /\ rows' = <<>>
    /\ offsets' = <<>>
    /\ lengths' = <<>>
    /\ entries' = <<>>
    /\ writer' = NewWriter
    /\ UNCHANGED <<reading, reader, out>>

-----------------------------------------------------------------------------
(* The reader                                                              *)

NewReader == [row |-> 0, length |-> 0, child |-> 0, cursor |-> 0]

FinishStripe ==
    /\ ~reading
    /\ reading' = TRUE
    /\ reader' = NewReader
    /\ writer' = NewWriter
    /\ UNCHANGED <<rows, streams, out>>

(* Mutant: going back, the readers are reset and not moved on.             *)
Seek_OnlyReset(offset) ==
    IF offset = reader.cursor THEN reader.child
    ELSE IF offset < reader.cursor THEN 0
    ELSE reader.child + offset - reader.cursor

(* seek: where the readers of keys and values stand afterwards.            *)
Seek(offset) ==
    IF offset = reader.cursor THEN reader.child
    ELSE IF offset < reader.cursor THEN offset
    ELSE reader.child + offset - reader.cursor

(* Runs of the same offset and length share an entry of the dictionary:    *)
(* the number of the entry of the k-th item.                               *)
EntryOf(items, k) ==
    1 + Cardinality({j \in 2..k : items[j] # items[j - 1]})

(* The entries of the dictionary; their maps are laid out one behind the   *)
(* other in the window that was read.                                      *)
Unique(items) ==
    [e \in 1..EntryOf(items, Len(items)) |->
        items[CHOOSE k \in DOMAIN items : EntryOf(items, k) = e]]

MaxOf(S) == CHOOSE x \in S : \A y \in S : y <= x

(* The offsets the next rows have.                                         *)
Taken(count) == SubSeq(offsets, reader.row + 1, reader.row + count)

(* The offset and length of those that are not null.                       *)
Items(count) ==
    LET nonNulls == NonNulls(Taken(count))
    IN  [k \in DOMAIN nonNulls |->
            [offset |-> nonNulls[k], length |-> lengths[reader.length + k]]]

(* startOffset and endOffset.                                              *)
StartOffset(items) == items[1].offset
EndOffset(items) ==
    MaxOf({items[k].offset + items[k].length : k \in DOMAIN items})

(* Where the readers of keys and values read from, and the map an entry of *)
(* the dictionary has in what they read.                                   *)
MapOf(items, e) ==
    LET child == Seek(StartOffset(items))
        window == SubSeq(entries, child + 1,
                         child + EndOffset(items) - StartOffset(items))
        mapOffset == Total([k \in 1..(e - 1) |-> Unique(items)[k].length])
    IN  SubSeq(window, mapOffset + 1, mapOffset + Unique(items)[e].length)

(* next: the slots that take a row, and what is read for them.             *)
Next(bitmap) ==
    LET count == Cardinality(Selected(bitmap))
        items == Items(count)
        \* the non-null row a slot takes
        item(i) == Len(NonNulls(SubSeq(Taken(count), 1, Slot(bitmap, i))))
        childrenRows == EndOffset(items) - StartOffset(items)
        read == items # <<>> /\ childrenRows > 0
    IN  /\ reading
        /\ reader.row + count <= Len(rows)
        /\ out' = [i \in DOMAIN bitmap |->
                     IF ~bitmap[i] \/ Taken(count)[Slot(bitmap, i)] = Null
                     THEN Null
                     ELSE Entries(MapOf(items, EntryOf(items, item(i))))]
        /\ reader' = [row |-> reader.row + count,
                      length |-> reader.length + Len(items),
                      child |-> IF read
                                THEN Seek(StartOffset(items)) + childrenRows
                                ELSE reader.child,
                      cursor |-> IF read THEN EndOffset(items)
                                 ELSE reader.cursor]
        /\ UNCHANGED <<rows, streams, writer, reading>>

(* skip: offsets and lengths only; the readers of keys and values follow   *)
(* in the next call of next.                                               *)
Skip(n) ==
    /\ reading
    /\ reader.row + n <= Len(rows)
    /\ reader' = [reader EXCEPT
                    !.row = @ + n,
                    !.length = @ + Len(NonNulls(
                        SubSeq(offsets, reader.row + 1, reader.row + n)))]
    /\ out' = <<>>
    /\ UNCHANGED <<rows, streams, writer, reading>>

(* reset: all decoders go back to the start of the stripe; cursorPos_      *)
(* stays.                                                                  *)
ResetReader ==
    /\ reading
    /\ reader' = [reader EXCEPT !.row = 0, !.length = 0, !.child = 0]
    /\ out' = <<>>
    /\ UNCHANGED <<rows, streams, writer, reading>>

-----------------------------------------------------------------------------
Init ==
    /\ rows = <<>>
    /\ offsets = <<>>
    /\ lengths = <<>>
    /\ entries = <<>>
    /\ writer = NewWriter
    /\ reading = FALSE
    /\ reader = NewReader
    /\ out = <<>>

Requests == UNION {[1..n -> BOOLEAN] : n \in 0..MaxSlots}

Step ==
    \/ \E n \in 1..MaxBatch : \E batch \in [1..n -> Maps \cup {Null}] :
         Write(batch)
    \/ Reset
    \/ FinishStripe
    \/ \E bitmap \in Requests : Next(bitmap)
    \/ \E n \in 0..MaxRows : Skip(n)
    \/ ResetReader

Spec == Init /\ [][Step]_vars

-----------------------------------------------------------------------------
(* Properties                                                              *)

(* The streams hold the maps written, whatever was found equal to what     *)
(* across calls, and the windows of two rows in a row are the same or      *)
(* touch: what the reader's layout of a batch counts on.                   *)
StreamsHoldMaps ==
    LET used == NonNulls(offsets)
        row(k) == NonNulls(rows)[k]
    IN  /\ Len(offsets) = Len(rows)
        /\ Len(lengths) = Len(used)
        /\ \A i \in DOMAIN rows : rows[i] = Null <=> offsets[i] = Null
        /\ \A k \in DOMAIN used :
             Entries(SubSeq(entries, used[k] + 1, used[k] + lengths[k]))
               = row(k)
        /\ \A k \in 2..Len(used) :
             \/ used[k] = used[k - 1] /\ lengths[k] = lengths[k - 1]
             \/ used[k] = used[k - 1] + lengths[k - 1]

Cursor == INSTANCE StreamCursor WITH pos <- reader.row, result <- out

(* As long as the readers of keys and values stand where cursorPos_ says,  *)
(* the reader is a cursor over the maps of the stripe, with windows read   *)
(* again for maps that repeat across calls, and a call of next keeps them  *)
(* there.                                                                  *)
WindowsDeliverMaps ==
    [][reading /\ reader.child = reader.cursor =>
         /\ Cursor!Step \/ UNCHANGED Cursor!vars
         /\ out' # <<>> => reader'.child = reader'.cursor]_vars

(* seek does what its comment says: "Move the cursor of key and value      *)
(* readers to the given offset", also after a reset: the entries a call of *)
(* next has read end at cursorPos_.                                        *)
SeekReachesOffset ==
    [][reading /\ reader'.cursor # reader.cursor =>
         reader'.child = reader'.cursor]_vars
=============================================================================
