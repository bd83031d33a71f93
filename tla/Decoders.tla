------------------------------ MODULE Decoders ------------------------------
(***************************************************************************)
(* Reading data: the Encoding classes, as values.  A decoder is what was   *)
(* written (tree), its own cursor (row: a row, or an offset into the data  *)
(* of a Trivial string or Varint stream), the decoders of its nested       *)
(* streams (kids), the state of the runs of RLE and SparseBool, the        *)
(* alphabet of a Dictionary (own), and the machine it is read on: whether  *)
(* it has BMI2, and what memory holds that nobody wrote.                   *)
(*                                                                         *)
(* A call returns the decoder after it (dec) and what it delivered (out).  *)
(***************************************************************************)
EXTENDS EncodingFactory

CONSTANTS
    BufferSize,  \* rows BufferedEncoding reads at a time (32 in the code)
    Null

ASSUME BufferAssumption == BufferSize \in Nat \ {0}

Machine(bmi2, garbage) == [bmi2 |-> bmi2, garbage |-> garbage]

GarbageOf(machine, type) ==
    CASE type = "Number" -> machine.garbage
      [] type = "String" -> <<machine.garbage>>
      [] OTHER -> machine.garbage # 0

Decoder(tree, machine, kids, own) ==
    [tree |-> tree, machine |-> machine, kids |-> kids, own |-> own, row |-> 0,
     copies |-> 0, value |-> <<>>]

Data(tree) == IF tree.zip THEN Uncompress(tree.data) ELSE tree.data

(* The rows [from, from + n) of a block; past its end is somebody else's   *)
(* memory.                                                                 *)
Slice(dec, from, n) ==
    LET data == Data(dec.tree)
    IN  Tuple([i \in 1..n |-> IF from + i <= Len(data) THEN data[from + i]
                              ELSE GarbageOf(dec.machine, dec.tree.type)])

RECURSIVE Materialize(_, _)
RECURSIVE Skip(_, _)
RECURSIVE Reset(_)
RECURSIVE Decode(_, _)

(* The calls on a nested stream.                                           *)
ReadNested(kid, n) == Materialize(kid, n)
SkipNested(kid, n) == Skip(kid, n)
ResetNested(kid) == Reset(kid)

-----------------------------------------------------------------------------
(* detail::BufferedEncoding.  The buffer is not initialized, and its end   *)
(* keeps what was there when fewer rows are left.  The difference is of    *)
(* unsigned numbers.                                                       *)

Buffered(dec) ==
    [dec |-> dec, at |-> BufferSize, pos |-> 0,
     buffer |-> [i \in 1..BufferSize |-> GarbageOf(dec.machine, dec.tree.type)]]

Refill(q, read) ==
    [dec |-> read.dec, at |-> 0, pos |-> q.pos,
     buffer |-> Tuple([i \in 1..BufferSize |->
                   IF i <= Len(read.out) THEN read.out[i] ELSE q.buffer[i]])]

Taken(q) ==
    [q |-> [q EXCEPT !.at = @ + 1, !.pos = @ + 1], out |-> q.buffer[q.at + 1]]

NextValue(q) ==
    LET left == (q.dec.tree.rows - q.pos) % 2^16
    IN  IF q.at = BufferSize
        THEN Taken(Refill(q, ReadNested(q.dec, Min({BufferSize, left}))))
        ELSE Taken(q)

(* Mutant: what was read ahead stays in the buffer.                        *)
ResetBuffered_KeepsBuffer(q) == [q EXCEPT !.pos = 0, !.dec = ResetNested(@)]

ResetBuffered(q) == [q EXCEPT !.at = BufferSize, !.pos = 0, !.dec = ResetNested(@)]

-----------------------------------------------------------------------------
(* RLE.  The kids are the buffered lengths and values; of Booleans there   *)
(* are only the lengths, and own is value_, the value of the next run.     *)

StartRun(dec, taken) ==
    LET next == [dec EXCEPT !.kids = Tuple([k \in DOMAIN @ |-> taken[k].q]),
                            !.copies = taken[1].out]
    IN  IF dec.tree.type = "Bool" THEN [next EXCEPT !.value = dec.own, !.own = <<~@[1]>>]
        ELSE [next EXCEPT !.value = <<taken[2].out>>]

NextRun(dec) ==
    StartRun(dec, Tuple([k \in DOMAIN dec.kids |-> NextValue(dec.kids[k])]))

(* RLEEncodingBase::skip, and materialize with what it writes.             *)
RECURSIVE SkipRuns(_, _)
SkipRuns(dec, n) ==
    IF n = 0 THEN dec
    ELSE IF n < dec.copies THEN [dec EXCEPT !.copies = @ - n]
    ELSE SkipRuns(NextRun(dec), n - dec.copies)

After(values, read) == [read EXCEPT !.out = values \o @]

RECURSIVE ReadRuns(_, _)
ReadRuns(dec, n) ==
    IF n = 0 THEN [dec |-> dec, out |-> <<>>]
    ELSE IF n < dec.copies
    THEN [dec |-> [dec EXCEPT !.copies = @ - n], out |-> [i \in 1..n |-> dec.value[1]]]
    ELSE After([i \in 1..dec.copies |-> dec.value[1]],
               ReadRuns(NextRun(dec), n - dec.copies))

-----------------------------------------------------------------------------
(* SparseBool.  copies holds nextIndex_; the kid is the buffered indices.  *)

NextIndex(dec) ==
    LET next == NextValue(dec.kids[1])
    IN  [dec EXCEPT !.kids = <<next.q>>, !.copies = next.out]

RECURSIVE PassIndices(_, _)
PassIndices(dec, end) ==
    IF dec.copies < end THEN PassIndices(NextIndex(dec), end) ELSE [dec EXCEPT !.row = end]

RECURSIVE ReadIndices(_, _, _)
ReadIndices(dec, end, out) ==
    IF dec.copies < end
    THEN ReadIndices(NextIndex(dec), end,
                     [out EXCEPT ![dec.copies - dec.row + 1] = dec.tree.head[1]])
    ELSE [dec |-> [dec EXCEPT !.row = end], out |-> out]

-----------------------------------------------------------------------------
(* The classes.                                                            *)

CountTrue(bits) == Len(SelectSeq(bits, LAMBDA b : b))

Reset(dec) ==
    LET buffered == dec.tree.enc \in {"RLE", "SparseBool"}
        start == [dec EXCEPT !.row = 0,
                    !.own = IF buffered THEN dec.tree.head ELSE @,
                    !.kids = Tuple([k \in DOMAIN @ |->
                                      IF buffered THEN ResetBuffered(@[k])
                                      ELSE ResetNested(@[k])])]
    IN  CASE dec.tree.enc = "RLE" -> NextRun(start)
          [] dec.tree.enc = "SparseBool" -> NextIndex(start)
          [] OTHER -> start

(* The constructors, from EncodingFactory::decode.  A dictionary reads its *)
(* alphabet at once.                                                       *)
Constructed(tree, machine, kids) ==
    CASE tree.enc \in {"RLE", "SparseBool"} ->
           Reset(Decoder(tree, machine,
                         Tuple([k \in DOMAIN kids |-> Buffered(kids[k])]), <<>>))
      [] tree.enc = "Dictionary" ->
           Decoder(tree, machine, <<kids[2]>>,
                   ReadNested(kids[1], tree.children[1].rows).out)
      [] OTHER -> Decoder(tree, machine, kids, <<>>)

Decode(tree, machine) ==
    Constructed(tree, machine,
                Tuple([k \in DOMAIN tree.children |-> Decode(tree.children[k], machine)]))

Sum(lengths) == FoldSeq(+, 0, lengths)

(* Encodings that first read a nested stream, the lead: the indices of a   *)
(* dictionary, the lengths of strings, the Booleans that tell the common   *)
(* values or the values that are there.  With Booleans another stream has  *)
(* the values of some of the rows.                                         *)
IsLed(tree) ==
    \/ tree.enc \in {"Dictionary", "MainlyConstant", "Nullable"}
    \/ tree.enc = "Trivial" /\ tree.type = "String"

Lead(tree) == IF tree.enc = "Nullable" THEN 2 ELSE 1
Follower(tree) == 3 - Lead(tree)
Following(tree, bits) ==
    IF tree.enc = "Nullable" THEN CountTrue(bits) ELSE Len(bits) - CountTrue(bits)

SkipStrings(dec, lengths) ==
    [dec EXCEPT !.kids = <<lengths.dec>>, !.row = @ + Sum(lengths.out)]

SkipLed(dec, lead) ==
    IF dec.tree.enc = "Trivial" THEN SkipStrings(dec, lead)
    ELSE [dec EXCEPT !.kids[Lead(dec.tree)] = lead.dec,
                     !.kids[Follower(dec.tree)] =
                         SkipNested(@, Following(dec.tree, lead.out))]

Skip(dec, n) ==
    LET enc == dec.tree.enc
    IN  CASE enc = "RLE" -> SkipRuns(dec, n)
          [] enc = "SparseBool" -> PassIndices(dec, dec.row + n)
          [] enc = "Varint" ->
               [dec EXCEPT !.row = BulkVarintSkip(n, dec.tree.data, @)]
          [] enc = "Dictionary" -> [dec EXCEPT !.kids = <<SkipNested(@[1], n)>>]
          [] enc = "Constant" \/ n = 0 -> dec
          [] IsLed(dec.tree) -> SkipLed(dec, ReadNested(dec.kids[Lead(dec.tree)], n))
          [] OTHER -> [dec EXCEPT !.row = @ + n]

(* What a nullable encoding writes for nulls is the default value; out of  *)
(* a backward scatter from the front of the buffer.                        *)
RECURSIVE ScatterBack(_, _, _, _, _)
ScatterBack(buffer, bits, to, from, default) ==
    IF to = from THEN buffer
    ELSE IF bits[to]
    THEN ScatterBack([buffer EXCEPT ![to] = buffer[from]], bits, to - 1, from - 1, default)
    ELSE ScatterBack([buffer EXCEPT ![to] = default], bits, to - 1, from, default)

Padded(values, n, filler) ==
    values \o [i \in 1..(n - Len(values)) |-> filler]

ReadVarintStream(dec, n, read) ==
    [dec |-> [dec EXCEPT !.row = read.pos],
     out |-> Tuple([i \in 1..n |-> read.out[i] + dec.tree.head[1]])]

ReadPacked(dec, n, read) ==
    [dec |-> [dec EXCEPT !.row = @ + n],
     out |-> Tuple([i \in 1..n |-> read[i] + dec.tree.head[1]])]

LookUp(dec, indices) ==
    [dec |-> [dec EXCEPT !.kids = <<indices.dec>>],
     out |-> Tuple([i \in DOMAIN indices.out |-> dec.own[indices.out[i] + 1]])]

MixIn(dec, bits, others) ==
    LET rank(i) == i - CountTrue(SubSeq(bits.out, 1, i))
    IN  [dec |-> [dec EXCEPT !.kids = <<bits.dec, others.dec>>],
         out |-> Tuple([i \in DOMAIN bits.out |->
                          IF bits.out[i] THEN dec.tree.head[1] ELSE others.out[rank(i)]])]

WithDefaults(dec, nonNulls, values) ==
    LET n == Len(nonNulls.out)
        default == Zero(dec.tree.type)
    IN  [dec |-> [dec EXCEPT !.kids = <<values.dec, nonNulls.dec>>],
         out |-> ScatterBack(Padded(values.out, n, default), nonNulls.out, n,
                             Len(values.out), default)]

ReadStrings(dec, lengths) ==
    LET start(i) == dec.row + Sum(SubSeq(lengths.out, 1, i - 1))
    IN  [dec |-> [dec EXCEPT !.kids = <<lengths.dec>>, !.row = @ + Sum(lengths.out)],
         out |-> Tuple([i \in DOMAIN lengths.out |->
                          SubSeq(Data(dec.tree), start(i) + 1,
                                 start(i) + lengths.out[i])])]

ReadFollowing(dec, lead, values) ==
    IF dec.tree.enc = "Nullable" THEN WithDefaults(dec, lead, values)
    ELSE MixIn(dec, lead, values)

ReadLed(dec, lead) ==
    CASE dec.tree.enc = "Trivial" -> ReadStrings(dec, lead)
      [] dec.tree.enc = "Dictionary" -> LookUp(dec, lead)
      [] OTHER -> ReadFollowing(dec, lead,
                    ReadNested(dec.kids[Follower(dec.tree)], Following(dec.tree, lead.out)))

Materialize(dec, n) ==
    LET enc == dec.tree.enc
        head == dec.tree.head
    IN  CASE enc = "RLE" -> ReadRuns(dec, n)
          [] enc = "SparseBool" ->
               ReadIndices(dec, dec.row + n, [i \in 1..n |-> ~head[1]])
          [] enc = "Varint" ->
               ReadVarintStream(dec, n, BulkVarintDecode(dec.machine.bmi2, n,
                                                         dec.tree.data, dec.row))
          [] enc = "FixedBitWidth" -> ReadPacked(dec, n, Slice(dec, dec.row, n))
          [] enc = "Constant" -> [dec |-> dec, out |-> [i \in 1..n |-> head[1]]]
          [] IsLed(dec.tree) -> ReadLed(dec, ReadNested(dec.kids[Lead(dec.tree)], n))
          [] OTHER -> [dec |-> [dec EXCEPT !.row = @ + n], out |-> Slice(dec, dec.row, n)]

-----------------------------------------------------------------------------
(* materializeNullable: n rows into the slots a bitmap selects.  The code  *)
(* fills the front of the buffer and spreads it backward, in place; for a  *)
(* nullable encoding the rows without value are passed over on the way.    *)

RECURSIVE SpreadNullable(_, _, _, _, _, _, _)
SpreadNullable(buffer, set, slots, nonNulls, to, from, row) ==
    IF to = from THEN [buffer |-> buffer, set |-> set \cup 1..to]
    ELSE IF ~slots[to]
    THEN SpreadNullable(buffer, set, slots, nonNulls, to - 1, from, row)
    ELSE IF nonNulls[row]
    THEN SpreadNullable([buffer EXCEPT ![to] = buffer[from]], set \cup {to}, slots,
                        nonNulls, to - 1, from - 1, row - 1)
    ELSE SpreadNullable(buffer, set, slots, nonNulls, to - 1, from, row - 1)

InSlots(dec, slots, plain) ==
    LET n == CountTrue(slots)
        size == Len(slots)
        default == Zero(dec.tree.type)
        spread == ScatterBack(Padded(plain.out, size, default), slots, size, n, default)
    IN  [dec |-> plain.dec,
         out |-> Tuple([i \in 1..size |-> IF slots[i] THEN spread[i] ELSE Null])]

NonNullsInSlots(dec, slots, nonNulls, values) ==
    LET size == Len(slots)
        spread == SpreadNullable(Padded(values.out, size, Zero(dec.tree.type)), {}, slots,
                                 nonNulls.out, size, Len(values.out), Len(nonNulls.out))
    IN  [dec |-> [dec EXCEPT !.kids = <<values.dec, nonNulls.dec>>],
         out |-> Tuple([i \in 1..size |->
                          IF i \in spread.set THEN spread.buffer[i] ELSE Null])]

NullableInSlots(dec, slots, nonNulls) ==
    NonNullsInSlots(dec, slots, nonNulls,
                    ReadNested(dec.kids[1], CountTrue(nonNulls.out)))

MaterializeNullable(dec, slots) ==
    IF dec.tree.enc = "Nullable"
    THEN NullableInSlots(dec, slots, ReadNested(dec.kids[2], CountTrue(slots)))
    ELSE InSlots(dec, slots, Materialize(dec, CountTrue(slots)))
=============================================================================
