-------------------------- MODULE DecoderVisitors --------------------------
(***************************************************************************)
(* readWithVisitor: a selective read of one chunk.  The visitor asks for   *)
(* some rows, in order, and may have a filter (which no null passes); the  *)
(* read range may have nulls, which take no row of the encoding.  There is *)
(* a slow path, row by row, and for Trivial numbers, RLE and               *)
(* MainlyConstant a fast one, which scans the encoding for all of the rows *)
(* at once.  The visitor and the choice of the path are Velox's.           *)
(*                                                                         *)
(* A visitor with a hook, for the indices of a dictionary, has no filter   *)
(* and is not told of nulls.                                               *)
(*                                                                         *)
(* Rows are numbered from 0, as in the code.  What a visit delivers is a   *)
(* sequence of rows and values, Null for a null.                           *)
(***************************************************************************)
EXTENDS Decoders

Visitor(rows, filtered, accepts, fast) ==
    [rows |-> rows, filtered |-> filtered, accepts |-> accepts, fast |-> fast,
     hook |-> FALSE, dense |-> \A k \in DOMAIN rows : rows[k] = k - 1]

Passes(v, value) == ~v.filtered \/ value \in v.accepts
TakesNulls(v) == ~v.filtered /\ ~v.hook
LastRow(v) == v.rows[Len(v.rows)]

(* The read range: <<>> if it has no nulls.                                *)
IsNull(nonNulls, row) == nonNulls # <<>> /\ ~nonNulls[row + 1]
CountNonNulls(nonNulls, from, to) ==
    Cardinality({row \in from..(to - 1) : ~IsNull(nonNulls, row)})

Hit(row, value) == [row |-> row, value |-> value]

RECURSIVE ReadWithVisitor(_, _, _)
VisitNested(kid, v, nonNulls) == ReadWithVisitor(kid, v, nonNulls)

-----------------------------------------------------------------------------
(* The slow path: readWithVisitorSlow with an encoding's way to skip and   *)
(* to decode one row.                                                      *)

OneOfRun(dec) == [dec |-> [dec EXCEPT !.copies = @ - 1], out |-> dec.value]

OneOfIndices(dec) ==
    LET sparse == dec.copies = dec.row
    IN  [dec |-> [(IF sparse THEN NextIndex(dec) ELSE dec) EXCEPT !.row = @ + 1],
         out |-> <<dec.tree.head[1] = sparse>>]

LoadedRun(dec) == IF dec.copies = 0 THEN NextRun(dec) ELSE dec

DecodeOne(dec) ==
    LET enc == dec.tree.enc
    IN  CASE enc = "RLE" -> OneOfRun(LoadedRun(dec))
          [] enc = "SparseBool" -> OneOfIndices(PassIndices(dec, dec.row))
          [] OTHER -> Materialize(dec, 1)

NullAt(dec, v, row) ==
    [dec |-> dec, out |-> IF TakesNulls(v) THEN <<Hit(row, Null)>> ELSE <<>>]

ValueAt(read, v, row) ==
    [dec |-> read.dec,
     out |-> IF Passes(v, read.out[1]) THEN <<Hit(row, read.out[1])>> ELSE <<>>]

VisitRow(dec, v, nonNulls, row) ==
    IF IsNull(nonNulls, row) THEN NullAt(dec, v, row) ELSE ValueAt(DecodeOne(dec), v, row)

(* k is the row asked for that is next; one is what was delivered so far.  *)
RECURSIVE VisitSlow(_, _, _, _, _)
VisitSlow(one, v, nonNulls, k, scanned) ==
    LET row == v.rows[k]
        toSkip == CountNonNulls(nonNulls, scanned, row)
        at == IF toSkip > 0 THEN Skip(one.dec, toSkip) ELSE one.dec
    IN  IF k > Len(v.rows) THEN one
        ELSE VisitSlow(After(one.out, VisitRow(at, v, nonNulls, row)),
                       v, nonNulls, k + 1, row + 1)

(* Trivial strings: the lengths up to the last row, read at once.          *)
StringsAt(dec, v, nonNulls, lengths) ==
    LET before(row) == CountNonNulls(nonNulls, 0, row)
        start(row) == dec.row + Sum(SubSeq(lengths.out, 1, before(row)))
        string(row) == SubSeq(Data(dec.tree), start(row) + 1,
                              start(row) + lengths.out[before(row) + 1])
        hit(row) == IF IsNull(nonNulls, row) THEN Hit(row, Null) ELSE Hit(row, string(row))
        asked == SelectSeq(v.rows, LAMBDA row :
                    IF IsNull(nonNulls, row) THEN TakesNulls(v) ELSE Passes(v, string(row)))
    IN  [dec |-> SkipStrings(dec, lengths),
         out |-> Tuple([k \in DOMAIN asked |-> hit(asked[k])])]

VisitStrings(dec, v, nonNulls) ==
    StringsAt(dec, v, nonNulls,
              ReadNested(dec.kids[1], CountNonNulls(nonNulls, 0, LastRow(v) + 1)))

(* Dictionaries: a visit of the indices with a hook that keeps them by     *)
(* row, then the slow path over the rows.                                  *)
LookUpRows(dec, v, nonNulls, indices) ==
    LET buffer == [row \in {h.row : h \in ToSet(indices.out)} |->
                     (CHOOSE h \in ToSet(indices.out) : h.row = row).value]
        value(row) == IF IsNull(nonNulls, row) THEN Null ELSE dec.own[buffer[row] + 1]
        asked == SelectSeq(v.rows, LAMBDA row :
                    IF IsNull(nonNulls, row) THEN TakesNulls(v)
                    ELSE Passes(v, value(row)))
    IN  [dec |-> [dec EXCEPT !.kids = <<indices.dec>>],
         out |-> Tuple([k \in DOMAIN asked |-> Hit(asked[k], value(asked[k]))])]

VisitDictionary(dec, v, nonNulls) ==
    LookUpRows(dec, v, nonNulls,
               VisitNested(dec.kids[1], [v EXCEPT !.filtered = FALSE, !.hook = TRUE],
                           nonNulls))

-----------------------------------------------------------------------------
(* The fast path: bulkScan.  It gets the rows of the encoding to read      *)
(* (inner), where they belong (outer), and whether to scatter.  The values *)
(* of a scatter are as many as rows were asked for; else they are those    *)
(* that passed.                                                            *)

Scan(inner, outer, scatter) == [inner |-> inner, outer |-> outer, scatter |-> scatter]
ScattersValues(scan, v) == scan.scatter /\ TakesNulls(v)

(* Where the values of a row of the scan end: the next row's place.        *)
EndOf(scan, v, at) ==
    IF at = Len(scan.inner) THEN Len(v.rows) ELSE scan.outer[at + 1]

TrivialScan(dec, v, scan) ==
    LET n == Len(scan.inner)
        value(k) == Data(dec.tree)[dec.row + scan.inner[k] + 1]
        passed == SelectSeq(Tuple([k \in 1..n |-> k]), LAMBDA k : Passes(v, value(k)))
        scattered == [i \in 1..Len(v.rows) |->
                        LET here == {k \in 1..n : scan.outer[k] = i - 1}
                        IN  IF here = {} THEN GarbageOf(dec.machine, "Number")
                            ELSE value(CHOOSE k \in here : TRUE)]
    IN  [dec |-> [dec EXCEPT !.row = @ + scan.inner[n] + 1],
         values |-> IF ScattersValues(scan, v) THEN scattered
                    ELSE Tuple([j \in DOMAIN passed |-> value(passed[j])]),
         hits |-> [j \in DOMAIN passed |->
                     (IF scan.scatter THEN scan.outer ELSE scan.inner)[passed[j]]]]

(* Mutant: a row at the end of a run is counted to it.                     *)
FindNumInRun_Inclusive(copies, scan, at, current, dense) ==
    IF dense THEN Min({copies, Len(scan.inner) - at})
    ELSE Cardinality({k \in (at + 1)..Len(scan.inner) : scan.inner[k] - current <= copies})

FindNumInRun(copies, scan, at, current, dense) ==
    IF dense THEN Min({copies, Len(scan.inner) - at})
    ELSE Cardinality({k \in (at + 1)..Len(scan.inner) : scan.inner[k] - current < copies})

(* RLE: run by run; s is what is done: the decoder, the rows of the scan,  *)
(* the rows of the encoding before this run, the place of the next value   *)
(* and what was delivered.                                                 *)
InRun(s, v, scan, num) ==
    LET value == s.dec.value[1]
        end == s.at + num
        pass == num > 0 /\ Passes(v, value)
        count == IF ScattersValues(scan, v) THEN EndOf(scan, v, end) - s.rowIndex ELSE num
        hits == SubSeq(IF scan.scatter THEN scan.outer ELSE scan.inner, s.at + 1, end)
        consumed == IF num = 0 THEN 0
                    ELSE Min({scan.inner[end] - s.current + 1, s.dec.copies})
        done == end = Len(scan.inner)
    IN  [s EXCEPT !.at = end,
                  !.dec.copies = IF done THEN @ - consumed ELSE 0,
                  !.current = @ + s.dec.copies,
                  !.rowIndex = IF pass /\ ScattersValues(scan, v) THEN @ + count ELSE @,
                  !.values = IF pass THEN @ \o [i \in 1..count |-> value] ELSE @,
                  !.hits = IF pass THEN @ \o hits ELSE @]

ScanRun(s, v, scan) ==
    InRun(s, v, scan, FindNumInRun(s.dec.copies, scan, s.at, s.current, v.dense))

RECURSIVE RunScan(_, _, _)
RunScan(s, v, scan) ==
    IF s.at = Len(scan.inner) THEN s
    ELSE RunScan(ScanRun([s EXCEPT !.dec = LoadedRun(@)], v, scan), v, scan)

(* MainlyConstant: the buffer is filled with the common value; then one    *)
(* round for each other value.                                             *)
OtherValue(s, i, v, scan, commonPassed) ==
    LET n == Len(scan.inner)
        places == IF scan.scatter THEN scan.outer ELSE scan.inner
        at == IF v.dense THEN s.at + i - scan.inner[s.at + 1]
              ELSE s.at + Cardinality({k \in (s.at + 1)..n : scan.inner[k] < i})
        common == IF commonPassed THEN at - s.at ELSE 0
        hits == IF commonPassed THEN SubSeq(places, s.at + 1, at) ELSE <<>>
        other == s.others[s.used + 1]
        pass == Passes(v, other)
        gap == IF ScattersValues(scan, v) THEN scan.outer[at + 1] - s.rowIndex ELSE common
        place == s.count + gap + 1
        rows == IF ScattersValues(scan, v) THEN EndOf(scan, v, at + 1) - s.rowIndex
                ELSE common + (IF pass THEN 1 ELSE 0)
    IN  IF scan.inner[at + 1] > i
        THEN [s EXCEPT !.at = at, !.hits = @ \o hits, !.used = @ + 1, !.count = @ + gap,
                       !.rowIndex = IF ScattersValues(scan, v) THEN @ + gap ELSE @]
        ELSE [s EXCEPT !.at = at + 1, !.used = @ + 1, !.count = @ + rows,
                       !.hits = @ \o hits \o IF pass THEN <<places[at + 1]>> ELSE <<>>,
                       !.values = IF pass THEN [@ EXCEPT ![place] = other] ELSE @,
                       !.rowIndex = IF ScattersValues(scan, v) THEN @ + rows ELSE @]

ScanOthers(dec, v, scan, bits, unset, others) ==
    LET n == Len(scan.inner)
        common == dec.tree.head[1]
        commonPassed == Passes(v, common)
        start == [at |-> 0, values |-> [i \in 1..Len(v.rows) |-> common], count |-> 0,
                  hits |-> <<>>, used |-> 0, rowIndex |-> 0, others |-> others.out]
        s == FoldLeft(LAMBDA t, i : OtherValue(t, i, v, scan, commonPassed), start, unset)
        rest == IF ~commonPassed \/ s.at = n THEN 0
                ELSE IF ScattersValues(scan, v) THEN Len(v.rows) - s.rowIndex
                ELSE n - s.at
        places == IF scan.scatter THEN scan.outer ELSE scan.inner
    IN  [dec |-> [dec EXCEPT !.kids = <<bits.dec, others.dec>>],
         values |-> SubSeq(s.values, 1, s.count + rest),
         hits |-> s.hits \o IF commonPassed THEN SubSeq(places, s.at + 1, n) ELSE <<>>]

ScanBits(dec, v, scan, bits) ==
    LET unset == SetToSortSeq({i \in 0..(Len(bits.out) - 1) : ~bits.out[i + 1]}, <)
    IN  ScanOthers(dec, v, scan, bits, unset, ReadNested(dec.kids[2], Len(unset)))

MainlyConstantScan(dec, v, scan) ==
    ScanBits(dec, v, scan, ReadNested(dec.kids[1], scan.inner[Len(scan.inner)] + 1))

BulkScan(dec, v, scan) ==
    CASE dec.tree.enc = "RLE" ->
           RunScan([dec |-> dec, at |-> 0, current |-> 0, rowIndex |-> 0,
                    values |-> <<>>, hits |-> <<>>], v, scan)
      [] dec.tree.enc = "MainlyConstant" -> MainlyConstantScan(dec, v, scan)
      [] OTHER -> TrivialScan(dec, v, scan)

(* readWithVisitorFast.  nonNullRowsFromSparse, which is Velox's, tells    *)
(* the rows of the encoding from the rows asked for, and how many more are *)
(* to be skipped after them.                                               *)
RowsAsked(v, nonNulls) ==
    SetToSortSeq({k \in DOMAIN v.rows : ~IsNull(nonNulls, v.rows[k])}, <)

ScanOf(v, nonNulls, order) ==
    LET rank(k) == CountNonNulls(nonNulls, 0, v.rows[k])
        inner == Tuple([j \in DOMAIN order |-> rank(order[j])])
        outer == Tuple([j \in DOMAIN order |-> IF v.filtered THEN v.rows[order[j]]
                                               ELSE order[j] - 1])
    IN  IF nonNulls = <<>> THEN Scan(v.rows, inner, FALSE) ELSE Scan(inner, outer, TRUE)

TailSkip(v, nonNulls, inner) ==
    CountNonNulls(nonNulls, 0, LastRow(v) + 1)
      - IF inner = <<>> THEN 0 ELSE inner[Len(inner)] + 1

AllNulls(v) ==
    IF TakesNulls(v) THEN Tuple([k \in DOMAIN v.rows |-> Hit(v.rows[k], Null)]) ELSE <<>>

Delivered(v, order, read) ==
    LET value(k) == IF k \in ToSet(order) THEN read.values[k] ELSE Null
    IN  CASE v.filtered ->
               Tuple([j \in DOMAIN read.hits |-> Hit(read.hits[j], read.values[j])])
          [] v.hook ->
               Tuple([j \in DOMAIN order |-> Hit(v.rows[order[j]], read.values[j])])
          [] OTHER -> Tuple([k \in DOMAIN v.rows |-> Hit(v.rows[k], value(k))])

ScanRows(dec, v, nonNulls, order, scan) ==
    LET scanned(read) ==
          [dec |-> IF nonNulls = <<>> \/ v.dense THEN read.dec
                   ELSE Skip(read.dec, TailSkip(v, nonNulls, scan.inner)),
           out |-> Delivered(v, order, read)]
    IN  IF scan.inner = <<>>
        THEN [dec |-> IF v.dense THEN dec ELSE Skip(dec, TailSkip(v, nonNulls, <<>>)),
              out |-> AllNulls(v)]
        ELSE scanned(BulkScan(dec, v, scan))

VisitFast(dec, v, nonNulls) ==
    LET order == RowsAsked(v, nonNulls)
    IN  ScanRows(dec, v, nonNulls, order, ScanOf(v, nonNulls, order))

-----------------------------------------------------------------------------
(* NullableEncoding::readWithVisitor: its nulls, put where the read range  *)
(* has none, become those of the visit of the values.                      *)
NonNullVisited(dec, bits, values) ==
    [dec |-> [dec EXCEPT !.kids = <<values.dec, bits.dec>>], out |-> values.out]

VisitNonNulls(dec, v, nonNulls, bits) ==
    LET merged == Tuple([i \in 1..(LastRow(v) + 1) |->
                     ~IsNull(nonNulls, i - 1)
                       /\ bits.out[CountNonNulls(nonNulls, 0, i - 1) + 1]])
    IN  NonNullVisited(dec, bits, VisitNested(dec.kids[1], v, merged))

VisitNullable(dec, v, nonNulls) ==
    VisitNonNulls(dec, v, nonNulls,
                  ReadNested(dec.kids[2], CountNonNulls(nonNulls, 0, LastRow(v) + 1)))

(* callReadWithVisitor.                                                    *)
ReadWithVisitor(dec, v, nonNulls) ==
    LET enc == dec.tree.enc
        type == dec.tree.type
        hasFast == \/ enc = "Trivial" /\ type = "Number"
                   \/ enc = "RLE" /\ type # "Bool"
                   \/ enc = "MainlyConstant"
    IN  CASE enc = "Nullable" -> VisitNullable(dec, v, nonNulls)
          [] enc = "Dictionary" -> VisitDictionary(dec, v, nonNulls)
          [] enc = "Trivial" /\ type = "String" -> VisitStrings(dec, v, nonNulls)
          [] hasFast /\ v.fast -> VisitFast(dec, v, nonNulls)
          [] OTHER -> VisitSlow([dec |-> dec, out |-> <<>>], v, nonNulls, 1, 0)
=============================================================================
