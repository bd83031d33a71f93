--------------------------- MODULE LayoutPlanner ---------------------------
(***************************************************************************)
(* DefaultLayoutPlanner: the order of the streams of a stripe in the file. *)
(* The nulls of the root come first, then the configured features of the   *)
(* flat maps, then whatever is left, in schema order.                      *)
(***************************************************************************)
EXTENDS SchemaTrees

(* The streams of a type and of all the types below it.                    *)
RECURSIVE AppendAllNestedStreams(_)
AppendAllNestedStreams(t) ==
    t.offsets \o Concat(
      [i \in DOMAIN t.children |->
         (IF t.kind = "FlatMap" THEN <<t.inMaps[i]>> ELSE <<>>)
           \o AppendAllNestedStreams(t.children[i])])

(* The streams of one entry of flatMapFeatureOrder_: a column and its      *)
(* features.  Entries that name no flat map, and features nobody wrote,    *)
(* are skipped; of children with the same name the first one counts.       *)
FeatureStreams(root, entry) ==
    LET column == root.children[entry.column]
        ordinals(f) == {i \in DOMAIN column.names : column.names[i] = f}
        ordinal(f) == CHOOSE i \in ordinals(f) : \A j \in ordinals(f) : i <= j
        streams(f) ==
            IF ordinals(f) = {} THEN <<>>
            ELSE <<column.inMaps[ordinal(f)]>>
                   \o AppendAllNestedStreams(column.children[ordinal(f)])
    IN  IF entry.column \notin DOMAIN root.children THEN <<>>
        ELSE IF column.kind # "FlatMap" THEN <<>>
        ELSE column.offsets \o
             Concat([i \in DOMAIN entry.features |->
                           streams(entry.features[i])])

(* Mutant: a stream that was placed already is placed again.               *)
TryAppendStreams_NoErase(offsets, present) ==
    SelectSeq(offsets, LAMBDA o : o \in present)

(* tryAppendStream over a list of offsets: streams that are present, each  *)
(* where it is met first.                                                  *)
TryAppendStreams(offsets, present) ==
    LET placed(i) == offsets[i] \in present
                       /\ \A j \in 1..(i - 1) : offsets[j] # offsets[i]
        ids == SelectSeq([i \in DOMAIN offsets |-> i], placed)
    IN  [k \in DOMAIN ids |-> offsets[ids[k]]]

(* getLayout.  It fails if a stream is in no place of the schema.          *)
GetLayout(root, order, present) ==
    LET ordered == Concat([i \in DOMAIN order |->
                                 FeatureStreams(root, order[i])])
        layout == TryAppendStreams(
                    root.offsets \o ordered \o AppendAllNestedStreams(root),
                    present)
    IN  IF Len(layout) = Cardinality(present) THEN layout ELSE Error
=============================================================================
