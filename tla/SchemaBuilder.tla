--------------------------- MODULE SchemaBuilder ---------------------------
(***************************************************************************)
(* The schema while a file is written.  The field writers build it: the    *)
(* fixed part when the writer is made, and a child of a flat map whenever  *)
(* a key is met for the first time, on the threads that write the columns  *)
(* of a batch.  They share the builder, whose counter of stream offsets is *)
(* a plain integer: to increment it is to load it and to store it.         *)
(*                                                                         *)
(* Creating a field writer is a program of small steps (Program), so that  *)
(* threads can meet inside it.  Stripes are laid out with the schema of    *)
(* their time; the schema of the file is that of its end.                  *)
(***************************************************************************)
EXTENDS LayoutPlanner, EncodingLayoutTrees, FiniteSets

CONSTANTS
    VeloxSchema,             \* the type of the rows
    FlatMapColumns,          \* options: names of columns
    DictionaryArrayColumns,
    DeduplicatedMapColumns,
    FeatureReordering,       \* options: the order of features in stripes
    Keys,                    \* the keys of flat maps
    Writers,                 \* [parallel, passthrough, captured]: a pool of
                             \* threads; the columns that get flattened maps;
                             \* a captured layout tree, or NoLayout
    MaxBatches,              \* bound: calls of write
    MaxKeys,                 \* bound: keys of a flat map in a batch
    MaxFlattened,            \* bound: keys of a flattened map in a batch
    MaxGone,                 \* bound: streams without data in a stripe, which
                             \* are next to each other
    Nobody                   \* no thread, and no offset

VARIABLES
    writer,     \* the member of Writers
    captured,   \* its captured layout tree, read from bytes
    builder,    \* the types made so far (a type is its place in them), those
                \* without a parent (roots_), and currentOffset_
    context,    \* the streams made (streams_), and of each offset whether it
                \* is a null stream and which layout was captured for it
    fields,     \* for each flat map column, the keys it has fields for
    task,       \* for each flat map column, what its thread has to do
    lock,       \* the column holding flatMapSchemaMutex
    phase,      \* idle, writing, flushed (idle after a stripe), closed or failed
    batches,
    stripe,     \* the stripe written last, if no batch came after it: its
                \* streams and their layout
    file        \* the serialized schema

vars == <<writer, captured, builder, context, fields, task, lock, phase, batches,
          stripe, file>>

-----------------------------------------------------------------------------
(* Which field writer a node of the type gets.  The id of a node is its     *)
(* path from the root.                                                     *)

Column(name) == CHOOSE i \in DOMAIN VeloxSchema.names :
                  VeloxSchema.names[i] = name
FlatColumns == {Column(n) : n \in FlatMapColumns}

(* createRootField: a flat map is a column; arrays and maps are looked for  *)
(* in all of the column.                                                   *)
FlatMapNodeIds == {<<c>> : c \in FlatColumns}
InColumns(id, names) == id # <<>> /\ id[1] \in {Column(n) : n \in names}

KindOf(type, id) ==
    CASE type.kind = "ROW" -> "Row"
      [] type.kind = "ARRAY" ->
           IF InColumns(id, DictionaryArrayColumns)
           THEN "ArrayWithOffsets" ELSE "Array"
      [] type.kind = "MAP" ->
           IF id \in FlatMapNodeIds THEN "FlatMap"
           ELSE IF InColumns(id, DeduplicatedMapColumns)
           THEN "SlidingWindowMap" ELSE "Map"
      [] OTHER -> "Scalar"

(* The descriptors a type builder allocates in its constructor.            *)
Descriptors(kind) ==
    IF kind \in {"ArrayWithOffsets", "SlidingWindowMap"} THEN 2 ELSE 1

ScalarOf(type, kind) ==
    CASE kind = "Scalar" -> ScalarKindOf[type.kind]
      [] kind = "FlatMap" -> ScalarKindOf[type.children[1].kind]
      [] kind = "Row" -> "Bool"
      [] OTHER -> "UInt32"

(* FieldWriter::create as steps: make the type, make its children and      *)
(* attach them (rows one by one, others all together), tell the handler.   *)
RECURSIVE Program(_, _)
Program(type, id) ==
    LET kind == KindOf(type, id)
        child(i) == Program(type.children[i], Append(id, i))
        n == Len(type.children)
        attach(count, names) == <<[op |-> "attach", count |-> count,
                                   names |-> names]>>
    IN  <<[op |-> "new", kind |-> kind, scalar |-> ScalarOf(type, kind),
           count |-> Descriptors(kind)]>>
        \o (CASE kind \in {"Scalar", "FlatMap"} -> <<>>
              [] kind = "Row" ->
                   Concat([i \in 1..n |->
                     child(i) \o attach(1, <<type.names[i]>>)])
              [] OTHER -> Concat([i \in 1..n |-> child(i)])
                            \o attach(n, <<>>))
        \o <<[op |-> "added"]>>

ValueProgram(c) == Program(VeloxSchema.children[c].children[2], <<c, 2>>)

-----------------------------------------------------------------------------
(* The steps.  A step maps the builder, the context and the stack of types  *)
(* the thread is working on; got holds the offsets it has allocated.       *)

Machine(b, x, stack) == [builder |-> b, context |-> x, stack |-> stack]

Allocates(op) == IF op.op = "new" THEN op.count
                 ELSE IF op.op = "key" THEN 1 ELSE 0

(* Mutant: a type with a parent stays among the roots.                     *)
RegisterChildren_Keep(b, kids) == b

(* registerChild: only a type without a parent can get one.                *)
RegisterChildren(b, kids) == [b EXCEPT !.roots = @ \ kids]

(* A new type is a root, and its streams are known to the context.         *)
New(m, op, got) ==
    LET id == Len(m.builder.types) + 1
    IN  Machine([m.builder EXCEPT
                   !.types = Append(@, Tree(op.kind, op.scalar, got,
                                            <<>>, <<>>, <<>>)),
                   !.roots = @ \union {id}],
                [m.context EXCEPT !.streams = @ \o got],
                Append(m.stack, id))

(* setChildren, and addChild of a row.                                     *)
Attach(m, op) ==
    LET rest == Len(m.stack) - op.count
        kids == SubSeq(m.stack, rest + 1, Len(m.stack))
        linked == [m.builder EXCEPT
                     !.types[m.stack[rest]].children = @ \o kids,
                     !.types[m.stack[rest]].names = @ \o op.names]
    IN  Machine(RegisterChildren(linked, Range(kids)), m.context,
                SubSeq(m.stack, 1, rest))

(* Mutant: the handler was only there when the writer was made.            *)
Added_OnlyAtFirst(m) ==
    LET t == m.builder.types[Last(m.stack)]
    IN  IF t.kind \in {"Row", "FlatMap"} /\ t.offsets[1] < Len(VeloxSchema.names)
        THEN [m EXCEPT !.context.nulls = @ \union {t.offsets[1]}] ELSE m

(* typeAddedHandler: the nulls of rows and flat maps are null streams.     *)
Added(m) ==
    LET t == m.builder.types[Last(m.stack)]
    IN  IF t.kind \in {"Row", "FlatMap"}
        THEN [m EXCEPT !.context.nulls = @ \union {t.offsets[1]}] ELSE m

(* Mutant: the in-map streams are in the reverse order of the children.    *)
AddKey_InMapFirst(m, name, got) ==
    LET map == m.stack[1]
        linked == [m.builder EXCEPT
                     !.types[map].inMaps = got \o @,
                     !.types[map].names = Append(@, name),
                     !.types[map].children = Append(@, m.stack[2])]
    IN  Machine(RegisterChildren(linked, {m.stack[2]}), m.context, <<>>)

(* addChild of the flat map on the bottom of the stack.                    *)
AddKey(m, name, got) ==
    LET map == m.stack[1]
        linked == [m.builder EXCEPT
                     !.types[map].inMaps = @ \o got,
                     !.types[map].names = Append(@, name),
                     !.types[map].children = Append(@, m.stack[2])]
    IN  Machine(RegisterChildren(linked, {m.stack[2]}), m.context, <<>>)

Step(m, op, got) ==
    CASE op.op = "new" -> New(m, op, got)
      [] op.op = "attach" -> Attach(m, op)
      [] op.op = "added" -> Added(m)
      [] op.op = "key" -> AddKey(m, op.key, got)

(* A whole program at once, where only one thread is at work.              *)
RECURSIVE RunProgram(_, _)
RunProgram(m, ops) ==
    IF ops = <<>> THEN m
    ELSE LET op == Head(ops)
             first == m.builder.currentOffset
             n == Allocates(op)
             got == [i \in 1..n |-> first + i - 1]
         IN  RunProgram(
               Step([m EXCEPT !.builder.currentOffset = @ + n], op, got),
               Tail(ops))

(* The tree below a type.                                                  *)
RECURSIVE TreeOf(_, _)
TreeOf(types, id) ==
    [types[id] EXCEPT
       !.children = Tuple([i \in DOMAIN types[id].children |->
                             TreeOf(types, types[id].children[i])])]

Root == TreeOf(builder.types, CHOOSE r \in builder.roots : TRUE)
FlatMap(c) == builder.types[1].children[c]

(* Later layouts replace earlier ones.                                     *)
Assign(layouts, pairs) ==
    [o \in DOMAIN layouts \union {p[1] : p \in pairs} |->
       IF \E p \in pairs : p[1] = o
       THEN (CHOOSE p \in pairs : p[1] = o)[2] ELSE layouts[o]]

(* The keys a thread has still to look up, whether it makes the keys of a  *)
(* flattened map (populateMap), and where it is in making one.             *)
NoTask == [keys |-> <<>>, populate |-> FALSE, ops |-> <<>>, stack |-> <<>>,
           seen |-> Nobody, got |-> <<>>]

NoStripe == [streams |-> {}, layout |-> <<>>]

(* The constructor of VeloxWriter.                                         *)
Init ==
    /\ writer \in Writers
    /\ captured = IF writer.captured = NoLayout THEN NoLayout
                  ELSE CreateTree(SerializeTree(writer.captured), 1).tree
    /\ LET empty == Machine([types |-> <<>>, roots |-> {}, currentOffset |-> 0],
                            [streams |-> <<>>, nulls |-> {}, layouts |-> <<>>],
                            <<>>)
           made == RunProgram(empty, Program(VeloxSchema, <<>>))
           tree == TreeOf(made.builder.types, 1)
       IN  /\ builder = made.builder
           /\ IF captured = NoLayout
              THEN phase = "idle" /\ context = made.context
              ELSE /\ phase = IF Compatible(tree, captured)
                              THEN "idle" ELSE "failed"
                   /\ context = [made.context EXCEPT !.layouts =
                        Assign(<<>>, InitializeEncodingLayouts(tree, captured))]
    /\ fields = [c \in FlatColumns |-> {}]
    /\ task = [c \in FlatColumns |-> NoTask]
    /\ lock = Nobody
    /\ batches = 0
    /\ stripe = NoStripe
    /\ file = <<>>

-----------------------------------------------------------------------------
(* Writing a batch                                                         *)

Passthrough(c) == c \in writer.passthrough

KeySeqs(c) ==
    {s \in SeqOf(Keys, IF Passthrough(c) THEN MaxFlattened ELSE MaxKeys) :
       IsInjective(s)}

(* Every column is written by a task of its own; the keys of a flat map    *)
(* are met in some order.  Whether a flattened map makes its keys is       *)
(* decided once, for all of them.                                          *)
StartBatch(keys) ==
    /\ phase \in {"idle", "flushed"}
    /\ batches < MaxBatches
    /\ batches' = batches + 1
    /\ phase' = "writing"
    /\ task' = [c \in FlatColumns |->
                  [NoTask EXCEPT !.keys = keys[c],
                                 !.populate = Passthrough(c) /\ fields[c] = {}]]
    /\ stripe' = NoStripe
    /\ UNCHANGED <<writer, captured, builder, context, fields, lock, file>>

Done(c) == task[c].keys = <<>>

(* Without a pool the columns are written one after the other.             *)
Runs(c) ==
    /\ phase = "writing"
    /\ writer.parallel \/ \A d \in FlatColumns : d < c => Done(d)

(* findPassthroughValueFieldWriter, called for every key unless this is    *)
(* the flattened map that makes them.                                      *)
FindFails(c, key) ==
    Passthrough(c) /\ ~task[c].populate /\ key \notin fields[c]

(* The key has a field already.                                            *)
FindField(c) ==
    /\ Runs(c)
    /\ task[c].ops = <<>>
    /\ task[c].keys # <<>>
    /\ Head(task[c].keys) \in fields[c]
    /\ task' = [task EXCEPT ![c].keys = Tail(@)]
    /\ UNCHANGED <<writer, captured, builder, context, fields, lock, phase, batches,
                   stripe, file>>

(* Mutant: nobody takes the lock.                                          *)
CreateField_NoLock(c) ==
    /\ Runs(c)
    /\ task[c].ops = <<>>
    /\ task[c].keys # <<>>
    /\ Head(task[c].keys) \notin fields[c]
    /\ lock' = lock
    /\ task' = [task EXCEPT
                  ![c].ops = ValueProgram(c) \o
                    <<[op |-> "key", key |-> Head(task[c].keys)]>>,
                  ![c].stack = <<FlatMap(c)>>]
    /\ UNCHANGED <<writer, captured, builder, context, fields, phase, batches, stripe,
                   file>>

(* A new key: getValueFieldWriter holds the lock while it makes the field; *)
(* createPassthroughValueFieldWriter, which the first flattened map calls  *)
(* for all its keys, does not.                                             *)
CreateField(c) ==
    /\ Runs(c)
    /\ task[c].ops = <<>>
    /\ task[c].keys # <<>>
    /\ Head(task[c].keys) \notin fields[c]
    /\ ~FindFails(c, Head(task[c].keys))
    /\ IF Passthrough(c) THEN lock' = lock ELSE lock = Nobody /\ lock' = c
    /\ task' = [task EXCEPT
                  ![c].ops = ValueProgram(c) \o
                    <<[op |-> "key", key |-> Head(task[c].keys)]>>,
                  ![c].stack = <<FlatMap(c)>>]
    /\ UNCHANGED <<writer, captured, builder, context, fields, phase, batches, stripe,
                   file>>

(* allocateStreamOffset reads the counter ...                              *)
LoadOffset(c) ==
    /\ Runs(c)
    /\ task[c].ops # <<>>
    /\ task[c].seen = Nobody
    /\ Len(task[c].got) < Allocates(Head(task[c].ops))
    /\ task' = [task EXCEPT ![c].seen = builder.currentOffset]
    /\ UNCHANGED <<writer, captured, builder, context, fields, lock, phase, batches,
                   stripe, file>>

(* ... and writes it back.                                                 *)
StoreOffset(c) ==
    /\ Runs(c)
    /\ task[c].seen # Nobody
    /\ builder' = [builder EXCEPT !.currentOffset = task[c].seen + 1]
    /\ task' = [task EXCEPT ![c].seen = Nobody,
                            ![c].got = Append(@, task[c].seen)]
    /\ UNCHANGED <<writer, captured, context, fields, lock, phase, batches, stripe, file>>

Ready(c) ==
    /\ Runs(c)
    /\ task[c].ops # <<>>
    /\ task[c].seen = Nobody
    /\ Len(task[c].got) = Allocates(Head(task[c].ops))

(* The rest of a step inside FieldWriter::create.                          *)
Create(c) ==
    /\ Ready(c)
    /\ Head(task[c].ops).op # "key"
    /\ LET m == Step(Machine(builder, context, task[c].stack),
                     Head(task[c].ops), task[c].got)
       IN  /\ builder' = m.builder
           /\ context' = m.context
           /\ task' = [task EXCEPT ![c].ops = Tail(@), ![c].got = <<>>,
                                   ![c].stack = m.stack]
    /\ UNCHANGED <<writer, captured, fields, lock, phase, batches, stripe, file>>

(* flatmapFieldAddedEventHandler: the captured tree of the key, if any.    *)
KeyLayouts(c, key) ==
    IF \/ captured = NoLayout
       \/ c \notin DOMAIN captured.children
    THEN NoLayout
    ELSE LET tree == captured.children[c]
         IN  IF tree.kind # "FlatMap" \/ <<key>> \notin DOMAIN KeyEncodings(tree)
             THEN NoLayout ELSE KeyEncodings(tree)[<<key>>]

(* The field is attached under its key and gets an in-map stream, after     *)
(* which the lock is free again.                                           *)
AddField(c) ==
    /\ Ready(c)
    /\ Head(task[c].ops).op = "key"
    /\ LET key == Head(task[c].ops).key
           m == AddKey(Machine(builder, context, task[c].stack), key,
                       task[c].got)
           child == TreeOf(builder.types, task[c].stack[2])
           tree == KeyLayouts(c, key)
           pairs == IF tree = NoLayout THEN {}
                    ELSE InitializeEncodingLayouts(child, tree)
           ok == tree = NoLayout \/ Compatible(child, tree)
       IN  /\ builder' = m.builder
           /\ phase' = IF ok THEN phase ELSE "failed"
           /\ context' = IF ok
                THEN [context EXCEPT !.layouts = Assign(@, pairs),
                                     !.streams = @ \o task[c].got]
                ELSE context
           /\ fields' = IF ok THEN [fields EXCEPT ![c] = @ \union {key}]
                        ELSE fields
    /\ task' = [task EXCEPT ![c] = [NoTask EXCEPT
                                      !.keys = Tail(task[c].keys),
                                      !.populate = task[c].populate]]
    /\ lock' = IF lock = c THEN Nobody ELSE lock
    /\ UNCHANGED <<writer, captured, batches, stripe, file>>

(* A later flattened map with a key the first one did not have.            *)
FindFieldFails(c) ==
    /\ Runs(c)
    /\ task[c].ops = <<>>
    /\ task[c].keys # <<>>
    /\ FindFails(c, Head(task[c].keys))
    /\ phase' = "failed"
    /\ UNCHANGED <<writer, captured, builder, context, fields, task, lock, batches,
                   stripe, file>>

(* The barrier.                                                            *)
EndBatch ==
    /\ phase = "writing"
    /\ \A c \in FlatColumns : Done(c)
    /\ phase' = "idle"
    /\ task' = [c \in FlatColumns |-> NoTask]
    /\ UNCHANGED <<writer, captured, builder, context, fields, lock, batches,
                   stripe, file>>

-----------------------------------------------------------------------------
(* Stripes, and the end                                                    *)

(* A stripe of the batches since the last one: streams without data are    *)
(* not in it.                                                              *)
WriteStripe(gone) ==
    /\ phase = "idle"
    /\ batches > 0
    /\ phase' = "flushed"
    /\ LET streams == Range(context.streams) \ gone
       IN  stripe' = [streams |-> streams,
                      layout |-> GetLayout(Root, FeatureReordering, streams)]
    /\ UNCHANGED <<writer, captured, builder, context, fields, task, lock, batches,
                   file>>

(* Mutant: a flat map nobody wrote to stays without children.              *)
CloseFields_NoDummy(m, columns) == m

(* A flat map nobody wrote to gets a child of no name, whose in-map stream  *)
(* exists in the schema only.                                              *)
RECURSIVE CloseFields(_, _)
CloseFields(m, columns) ==
    IF columns = {} THEN m
    ELSE LET c == CHOOSE c \in columns : \A d \in columns : c <= d
             start == [m EXCEPT !.stack = <<FlatMap(c)>>]
             end == IF fields[c] = {}
                    THEN RunProgram(start, ValueProgram(c) \o
                                           <<[op |-> "key", key |-> ""]>>)
                    ELSE m
         IN  CloseFields(end, columns \ {c})

Close ==
    /\ phase \in {"idle", "flushed"}
    /\ phase' = "closed"
    /\ LET m == CloseFields(Machine(builder, context, <<>>), FlatColumns)
       IN  /\ builder' = m.builder
           /\ context' = m.context
           /\ file' = Serialize(AddNode(TreeOf(m.builder.types, 1), NoName))
    /\ stripe' = NoStripe
    /\ UNCHANGED <<writer, captured, fields, task, lock, batches>>

(* A file is finished, or its writer has failed and accepts nothing more.  *)
Finished == phase \in {"closed", "failed"} /\ UNCHANGED vars

Next ==
    \/ \E keys \in {k \in [FlatColumns -> UNION {KeySeqs(c) : c \in FlatColumns}] :
                     \A c \in FlatColumns : k[c] \in KeySeqs(c)} :
         StartBatch(keys)
    \/ \E c \in FlatColumns :
         \/ FindField(c)
         \/ CreateField(c)
         \/ FindFieldFails(c)
         \/ LoadOffset(c)
         \/ StoreOffset(c)
         \/ Create(c)
         \/ AddField(c)
    \/ EndBatch
    \/ \E last \in Range(context.streams) : \E n \in 0..MaxGone :
         WriteStripe({o \in Range(context.streams) : last - n < o /\ o <= last})
    \/ Close
    \/ Finished

Spec == Init /\ [][Next]_vars

-----------------------------------------------------------------------------
(* Properties                                                              *)

AllOffsets == Concat([i \in DOMAIN builder.types |->
                            builder.types[i].offsets \o builder.types[i].inMaps])

(* allocateStreamOffset: "Each stream has a unique offset assigned to it"   *)
(* (SchemaBuilder.h), whichever threads make fields at the same time.      *)
OffsetsUnique == IsInjective(AllOffsets)

(* getSchemaNodes, while no field is being made: there is one root, and    *)
(* the nodes read back as the tree that was built, with every stream that  *)
(* has data in it: the offsets under which TabletWriter stored the streams *)
(* are those a reader finds in the schema.  The comment at                 *)
(* SchemaBuilder.h:39 has them translated in the footer; no code does so.  *)
SchemaReadsBack ==
    phase \in {"idle", "closed"} =>
      /\ Cardinality(builder.roots) = 1
      /\ GetSchema(Deserialize(Serialize(AddNode(Root, NoName)))) = Root
      /\ Range(context.streams) \subseteq Range(AppendAllNestedStreams(Root))

(* convertToVeloxType gives the reader of a file the type it was written   *)
(* with, whatever columns were flattened or deduplicated and even if no    *)
(* row had a key.                                                          *)
ReaderSeesWrittenType ==
    phase = "closed" =>
      ConvertToVeloxType(GetSchema(Deserialize(file))) = VeloxSchema

(* getLayout loses and repeats no stream of a stripe, starts with the      *)
(* nulls of the root and keeps the streams of a configured feature next to *)
(* each other, in-map stream first, unless an earlier entry took them.     *)
LayoutComplete ==
    LET l == stripe.layout
        place(o) == CHOOSE i \in DOMAIN l : l[i] = o
        root == builder.types[1].offsets[1]
    IN  /\ l # Error
        /\ IsInjective(l)
        /\ Range(l) = stripe.streams
        /\ root \in Range(l) => l[1] = root
        /\ \A c \in FlatColumns : \A k \in DOMAIN TreeOf(builder.types,
                                                     FlatMap(c)).names :
             LET map == TreeOf(builder.types, FlatMap(c))
                 own == Range(<<map.inMaps[k]>> \o
                              AppendAllNestedStreams(map.children[k]))
                          \intersect Range(l)
             IN  own # {} =>
                   /\ \A o, p \in own :
                        place(p) - place(o) < Cardinality(own)
                   /\ map.inMaps[k] \in own =>
                        \A o \in own : place(map.inMaps[k]) <= place(o)

(* createRootField and the handlers: when no field is being made, exactly  *)
(* the nulls of rows and flat maps are null streams, and the values of     *)
(* every key have the layouts captured for that key, whatever the order    *)
(* the keys came in.                                                       *)
ContextsFollowSchema ==
    LET flat(c) == TreeOf(builder.types, FlatMap(c))
        layouts(c, i) ==
            LET tree == KeyLayouts(c, flat(c).names[i])
            IN  IF tree = NoLayout THEN {}
                ELSE InitializeEncodingLayouts(flat(c).children[i], tree)
    IN  phase = "idle" =>
          /\ context.nulls = {t.offsets[1] : t \in {u \in Range(builder.types) :
                                         u.kind \in {"Row", "FlatMap"}}}
          /\ \A c \in FlatColumns : \A i \in DOMAIN flat(c).children :
               LET below == Range(AppendAllNestedStreams(flat(c).children[i]))
               IN  {<<o, context.layouts[o]>> :
                      o \in below \intersect DOMAIN context.layouts}
                     = layouts(c, i)

(* StreamLabels: streams with the same label belong to the same column and *)
(* to the same feature of it, so a label says what is being read.  Columns *)
(* that are rows are left out: the label of a row does not name it.        *)
LabelsTellColumns ==
    phase = "closed" =>
      LET root == GetSchema(Deserialize(file))
          labels == StreamLabels(root)
          parts == UNION {
            IF root.children[c].kind # "FlatMap"
            THEN {Range(AppendAllNestedStreams(root.children[c]))}
            ELSE {Range(root.children[c].offsets)} \union
                 {Range(<<root.children[c].inMaps[i]>> \o AppendAllNestedStreams(
                     root.children[c].children[i])) :
                    i \in DOMAIN root.children[c].children}
            : c \in {d \in DOMAIN root.children : root.children[d].kind # "Row"}}
      IN  \A p, q \in parts : p # q =>
            {l[2] : l \in {m \in labels : m[1] \in p}} \intersect
            {l[2] : l \in {m \in labels : m[1] \in q}} = {}

(* What readers and tools make of the schema in the footer is what was     *)
(* written.                                                                *)
ReadersUnderstandFile == ReaderSeesWrittenType /\ LabelsTellColumns

(* getSchemaNodes "is guaranteed" to keep "the allocated offsets for each   *)
(* node" as more nodes are added: the nodes known before are among the      *)
(* nodes known later, in the same order.                                   *)
Uncounted(nodes) == [i \in DOMAIN nodes |-> [nodes[i] EXCEPT !.count = 0]]

OffsetsStay ==
    [][LET before == Uncounted(AddNode(TreeOf(builder.types, 1), NoName))
           after == Uncounted(AddNode(TreeOf(builder'.types, 1), NoName))
       IN  SelectSeq(after, LAMBDA n : n \in Range(before)) = before]_builder
=============================================================================
