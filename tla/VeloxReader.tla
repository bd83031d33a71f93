----------------------------- MODULE VeloxReader -----------------------------
(***************************************************************************)
(* dwio/nimble/velox/VeloxReader: the cursor of a reader over one split of *)
(* a file.  Stripes are numbered from 0, as in the code.  The decoders and *)
(* the tree of field readers on top of them are reduced to the position    *)
(* they will deliver rows from.  Loading a stripe fails when its unit      *)
(* cannot be read: the exception leaves the call half done, and the caller *)
(* may go on calling.                                                      *)
(***************************************************************************)
EXTENDS Integers, Sequences, FiniteSets

CONSTANTS
    RowCounts,    \* row counts of a stripe
    StripeBytes,  \* sizes of a stripe; 0 when all its streams are empty
    MaxStripes,   \* bound: stripes of the file
    Batch,        \* row counts a caller passes to next and skipRows
    Targets,      \* row numbers a caller passes to seekToRow
    Failing       \* the calls whose load may fail

ASSUME ReaderAssumption ==
    /\ RowCounts \subseteq Nat \ {0}
    /\ StripeBytes \subseteq Nat
    /\ MaxStripes \in Nat
    /\ Batch \subseteq Nat
    /\ Targets \subseteq Nat
    /\ Failing \subseteq {"next", "load", "seek", "skip"}

VARIABLES
    stripes,   \* row count and size of every stripe of the file
    range,     \* firstStripe_, lastStripe_, firstRow_, lastRow_
    cursor,    \* nextStripe_, rowsRemainingInStripe_, loadedStripe_ and
               \* the row rootReader_ stands at
    estimate,  \* cachedRowSizeEstimationStripeIdx_ and the stripe estimated
    out,       \* what the last call returned
    lost       \* history: a seek or a skip failed, and no seek since then

vars == <<stripes, range, cursor, estimate, out, lost>>

None == -1  \* no stripe

StripeCount == Len(stripes)
StripeRowCount(i) == stripes[i + 1].rows

(* cummulativeStripeRowCount_: rows of the first n stripes of a file; and   *)
(* their bytes.                                                            *)
CummulativeRows(file, n) ==
    LET sum[i \in 0..Len(file)] ==
          IF i = 0 THEN 0 ELSE sum[i - 1] + file[i].rows
    IN  sum[n]

CummulativeBytes(file, n) ==
    LET sum[i \in 0..Len(file)] ==
          IF i = 0 THEN 0 ELSE sum[i - 1] + file[i].bytes
    IN  sum[n]

RowsBefore(n) == CummulativeRows(stripes, n)
StripeOffset(n) == CummulativeBytes(stripes, n)

-----------------------------------------------------------------------------
(* The constructor: the stripes of a split are those that start in it.     *)

(* Mutant: a stripe that starts where a split ends belongs to it.          *)
InRange_EndIncluded(i, start, end) ==
    StripeOffset(i) >= start /\ StripeOffset(i) <= end

InRange(i, start, end) == StripeOffset(i) >= start /\ StripeOffset(i) < end

SplitOf(start, end) ==
    LET mine == {i \in 0..(StripeCount - 1) : InRange(i, start, end)}
        first == CHOOSE i \in mine : \A j \in mine : i <= j
        last == CHOOSE i \in mine : \A j \in mine : j <= i
    IN  IF mine = {}
        THEN [first |-> StripeCount, last |-> 0, firstRow |-> 0, lastRow |-> 0]
        ELSE [first |-> first, last |-> last + 1,
              firstRow |-> RowsBefore(first), lastRow |-> RowsBefore(last + 1)]

IsEmptyFile == range.lastRow - range.firstRow = 0

-----------------------------------------------------------------------------
(* Steps on the cursor                                                     *)

(* Mutant: the readers of a stripe that is still loaded are not reset.     *)
LoadNextStripe_NoReset(c) ==
    IF c.loaded = c.next
    THEN [c EXCEPT !.remaining = StripeRowCount(c.next), !.next = @ + 1]
    ELSE [next |-> c.next + 1, remaining |-> StripeRowCount(c.next),
          loaded |-> c.next, root |-> [stripe |-> c.next, row |-> 0]]

(* loadNextStripe: the readers of the stripe still loaded are reset, those *)
(* of another stripe are created.                                          *)
LoadNextStripe(c) ==
    IF c.loaded = c.next
    THEN [c EXCEPT !.root.row = 0,
                   !.remaining = StripeRowCount(c.next), !.next = @ + 1]
    ELSE [next |-> c.next + 1, remaining |-> StripeRowCount(c.next),
          loaded |-> c.next, root |-> [stripe |-> c.next, row |-> 0]]

(* Whether loadNextStripe may throw; it then leaves the cursor as it is.   *)
MayFail(call, c) == call \in Failing /\ c.loaded # c.next

(* skipStripes: from stripe `start`, whole stripes as long as they fit.    *)
SkipStripes(c, start, n) ==
    LET Skipped(s) == RowsBefore(s) - RowsBefore(start)
        s == CHOOSE s \in start..range.last :
               /\ Skipped(s) <= n
               /\ s = range.last \/ n < Skipped(s + 1)
    IN  [c EXCEPT !.next = s,
                  !.remaining = IF s >= range.last THEN 0
                                ELSE StripeRowCount(s)]

(* The root reader moves n rows on; past the rows of its stripe it throws. *)
Overrun(root, n) == root.row + n > StripeRowCount(root.stripe)
Advance(root, n) ==
    [root EXCEPT !.row = IF Overrun(root, n)
                         THEN StripeRowCount(root.stripe) ELSE @ + n]

(* skipInCurrentStripe                                                     *)
SkipInCurrentStripe(c, n) ==
    [c EXCEPT !.remaining = @ - n, !.root = Advance(@, n)]

-----------------------------------------------------------------------------
(* Calls                                                                   *)

Return(c, o) ==
    /\ cursor' = c
    /\ out' = o
    /\ UNCHANGED <<stripes, range, estimate>>
    /\ lost' = CASE o.call = "seek" -> FALSE
                 [] o.call = "moved" -> TRUE
                 [] OTHER -> lost

(* loadedStripe_.value() throws too, when no stripe is loaded.             *)
Error == [call |-> "error"]

(* A call that failed after it had changed the cursor.                     *)
Moved == [call |-> "moved"]

(* The n rows at the root reader, as row numbers of the file.              *)
RowsOf(root, n) ==
    LET at == RowsBefore(root.stripe) + root.row IN at..(at + n - 1)

AtEnd(c) == c.remaining = 0 /\ c.next >= range.last

NextFails ==
    /\ cursor.remaining = 0
    /\ cursor.next < range.last
    /\ MayFail("next", cursor)
    /\ Return(cursor, Error)

NextBatch(n) ==
    IF AtEnd(cursor)
    THEN Return(cursor, [call |-> "next", ret |-> FALSE])
    ELSE LET c == IF cursor.remaining = 0 THEN LoadNextStripe(cursor)
                  ELSE cursor
             k == IF c.remaining < n THEN c.remaining ELSE n
         IN  IF c.loaded = None
             THEN Return(c, Error)
             ELSE IF Overrun(c.root, k)
             THEN Return([c EXCEPT !.root = Advance(@, k)], Error)
             ELSE Return(SkipInCurrentStripe(c, k),
                         [call |-> "next", ret |-> TRUE,
                          rows |-> RowsOf(c.root, k)])

(* Where seekToRow goes when it has to load a stripe.                      *)
Sought(row) == SkipStripes(cursor, 0, row)

InSplit(row) == row >= range.firstRow /\ row < range.lastRow

SeekFails(row) ==
    /\ ~IsEmptyFile
    /\ InSplit(row)
    /\ MayFail("seek", Sought(row))
    /\ Return(Sought(row), Moved)

SeekToRow(row) ==
    CASE IsEmptyFile ->
            Return(cursor, [call |-> "seek", ret |-> 0])
      [] ~IsEmptyFile /\ row < range.firstRow ->
            Return([cursor EXCEPT !.next = range.first, !.remaining = 0],
                   [call |-> "seek", ret |-> range.firstRow])
      [] ~IsEmptyFile /\ row >= range.lastRow ->
            Return([cursor EXCEPT !.next = range.last, !.remaining = 0],
                   [call |-> "seek", ret |-> range.lastRow])
      [] ~IsEmptyFile /\ InSplit(row) ->
            LET c == Sought(row)
            IN  Return(SkipInCurrentStripe(LoadNextStripe(c),
                                           row - RowsBefore(c.next)),
                       [call |-> "seek", ret |-> row])

(* skipRows past the loaded stripe: where skipStripes stops, and the rows  *)
(* it and the rest of the loaded stripe account for.                       *)
Skipped(n) == SkipStripes(cursor, cursor.next, n - cursor.remaining)

(* Mutant: the rest of the loaded stripe is not counted.                   *)
RowsSkipped_NoLeftover(n) ==
    RowsBefore(Skipped(n).next) - RowsBefore(cursor.next)

RowsSkipped(n) ==
    cursor.remaining + RowsBefore(Skipped(n).next) - RowsBefore(cursor.next)

InLoadedStripe(n) == cursor.remaining >= n

NothingToSkip(n) == IsEmptyFile \/ n = 0 \/ AtEnd(cursor)

SkipFails(n) ==
    /\ ~NothingToSkip(n)
    /\ ~InLoadedStripe(n)
    /\ Skipped(n).next < range.last
    /\ MayFail("skip", Skipped(n))
    /\ Return(Skipped(n), Moved)

SkipRows(n) ==
    CASE NothingToSkip(n) ->
            Return(cursor, [call |-> "skip", ret |-> 0])
      [] ~NothingToSkip(n) /\ InLoadedStripe(n) ->
            IF cursor.loaded = None
            THEN Return([cursor EXCEPT !.remaining = @ - n], Error)
            ELSE Return(SkipInCurrentStripe(cursor, n),
                        IF Overrun(cursor.root, n) THEN Error
                        ELSE [call |-> "skip", ret |-> n])
      [] ~NothingToSkip(n) /\ ~InLoadedStripe(n) ->
            LET c == Skipped(n)
            IN  IF c.next >= range.last
                THEN Return(c, [call |-> "skip", ret |-> RowsSkipped(n)])
                ELSE Return(SkipInCurrentStripe(LoadNextStripe(c),
                                                n - RowsSkipped(n)),
                            [call |-> "skip", ret |-> n])

LoadFails ==
    /\ cursor.next < range.last
    /\ MayFail("load", cursor)
    /\ Return(cursor, Error)

LoadStripeIfAny ==
    Return(IF cursor.next < range.last THEN LoadNextStripe(cursor) ELSE cursor,
           [call |-> "load"])

(* Mutant: the first estimate serves all stripes.                          *)
EstimatedRowSize_Once ==
    LET fresh == estimate.index = None
        e == IF fresh THEN [index |-> cursor.loaded, of |-> cursor.root.stripe]
             ELSE estimate
        known == cursor.loaded # None /\ cursor.remaining > 0
    IN  /\ estimate' = IF known THEN e ELSE estimate
        /\ out' = [call |-> "estimate", of |-> IF known THEN e.of ELSE None]
        /\ UNCHANGED <<stripes, range, cursor, lost>>

(* estimatedRowSize: computed once per loaded stripe; None stands for the  *)
(* conservative constant returned between stripes.                         *)
EstimatedRowSize ==
    LET fresh == estimate.index # cursor.loaded
        e == IF fresh THEN [index |-> cursor.loaded, of |-> cursor.root.stripe]
             ELSE estimate
        known == cursor.loaded # None /\ cursor.remaining > 0
    IN  /\ estimate' = IF known THEN e ELSE estimate
        /\ out' = [call |-> "estimate", of |-> IF known THEN e.of ELSE None]
        /\ UNCHANGED <<stripes, range, cursor, lost>>

Unset == -1

(* Mutant: between stripes, the end of the loaded stripe.                  *)
GetRowNumber_FromLoaded ==
    CASE cursor.loaded = None -> range.firstRow
      [] cursor.loaded # None /\ cursor.remaining > 0 ->
            RowsBefore(cursor.loaded + 1) - cursor.remaining
      [] OTHER -> RowsBefore(cursor.loaded + 1)

(* getRowNumber; Unset stands for the DWIO_ENSURE_GT that would throw.     *)
GetRowNumber ==
    CASE cursor.loaded = None -> range.firstRow
      [] cursor.loaded # None /\ cursor.remaining > 0 ->
            RowsBefore(cursor.loaded + 1) - cursor.remaining
      [] cursor.loaded # None /\ AtEnd(cursor) -> range.lastRow
      [] OTHER -> IF cursor.next > 0 THEN RowsBefore(cursor.next) ELSE Unset

-----------------------------------------------------------------------------
Stripe == [rows : RowCounts, bytes : StripeBytes]
Offsets == 0..(StripeOffset(StripeCount) + 1)

Init ==
    /\ stripes \in UNION {[1..n -> Stripe] : n \in 0..MaxStripes}
    /\ \E start, end \in Offsets : start <= end /\ range = SplitOf(start, end)
    /\ cursor = [next |-> range.first, remaining |-> 0, loaded |-> None,
                 root |-> [stripe |-> None, row |-> 0]]
    /\ estimate = [index |-> None, of |-> None]
    /\ out = [call |-> "none"]
    /\ lost = FALSE

Next ==
    \/ \E n \in Batch : NextBatch(n) \/ SkipRows(n)
    \/ \E row \in Targets : SeekToRow(row)
    \/ LoadStripeIfAny
    \/ EstimatedRowSize
    \/ NextFails
    \/ LoadFails
    \/ \E row \in Targets : SeekFails(row)
    \/ \E n \in Batch : SkipFails(n)

Spec == Init /\ [][Next]_vars

-----------------------------------------------------------------------------
(* Properties                                                              *)

CursorType ==
    [next : Nat, remaining : Nat, loaded : Nat \cup {None},
     root : [stripe : Nat \cup {None}, row : Nat]]

(* Type invariant: in particular rowsRemainingInStripe_, unsigned in the   *)
(* code, never goes below zero.                                            *)
TypeOK ==
    /\ stripes \in Seq(Stripe)
    /\ range \in [first : Nat, last : Nat, firstRow : Nat, lastRow : Nat]
    /\ cursor \in CursorType
    /\ estimate \in [index : Nat \cup {None}, of : Int]
    /\ lost \in BOOLEAN

(* The row next would start with: what rowsRemainingInStripe_,             *)
(* loadedStripe_ and nextStripe_ stand for together.                       *)
Position ==
    IF cursor.remaining > 0
    THEN RowsBefore(cursor.loaded + 1) - cursor.remaining
    ELSE IF cursor.next >= range.last THEN range.lastRow
    ELSE RowsBefore(cursor.next)

Rows == INSTANCE RowCursor
          WITH pos <- Position, firstRow <- range.firstRow,
               lastRow <- range.lastRow, Batch <- Batch, Targets <- Targets,
               boundaries <- {RowsBefore(i) : i \in 0..StripeCount},
               out <- out, lost <- lost

(* The reader implements the row cursor its header describes: whatever the *)
(* mix of next, seekToRow, skipRows and loadStripeIfAny, within a stripe,  *)
(* across stripes, backwards into the stripe still loaded or past the ends *)
(* of the split, next returns the rows at the cursor and seekToRow and     *)
(* skipRows return how far they got.  A seek or skip whose load failed     *)
(* loses the position, and the next seek that succeeds recovers it.        *)
ImplementsRowCursor == Rows!Spec

(* rootReader_ delivers the row the counters point at: it belongs to       *)
(* loadedStripe_ and has consumed what rowsRemainingInStripe_ says, unless *)
(* a seek or a skip failed and no seek has succeeded since.                *)
RootAtCursor ==
    cursor.remaining > 0 /\ ~lost =>
        /\ cursor.next = cursor.loaded + 1
        /\ cursor.root = [stripe |-> cursor.loaded,
                          row |-> StripeRowCount(cursor.loaded)
                                    - cursor.remaining]

(* Once a stripe has been loaded, getRowNumber agrees with the rows next   *)
(* returns, in particular after a seek outside the split or to the end of  *)
(* a stripe, and its DWIO_ENSURE_GT never throws.                          *)
RowNumberOnceLoaded ==
    cursor.loaded # None /\ ~lost => GetRowNumber = Position

(* A row size estimate is computed from the stripe the next rows come      *)
(* from, also after the reader went back to an earlier stripe.             *)
EstimateIsCurrent ==
    out.call = "estimate" /\ out.of # None => out.of = cursor.loaded

(* Any two splits that meet share no stripe and miss none, whatever the    *)
(* offsets at which the file was cut and however many stripes are empty:   *)
(* each row of the file is processed by exactly one split.                 *)
SplitsPartition ==
    LET Members(start, end) ==
          SplitOf(start, end).first..(SplitOf(start, end).last - 1)
    IN  out.call = "none" =>
          \A a, b, c \in Offsets :
            a <= b /\ b <= c =>
              /\ Members(a, c) = Members(a, b) \cup Members(b, c)
              /\ Members(a, b) \cap Members(b, c) = {}
              /\ a = 0 /\ c > StripeOffset(StripeCount) =>
                   Members(a, c) = 0..(StripeCount - 1)
=============================================================================
