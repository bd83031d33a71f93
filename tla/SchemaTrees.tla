---------------------------- MODULE SchemaTrees ----------------------------
(***************************************************************************)
(* The schema of a file as data: the tree of types, the flat list of nodes *)
(* it is written as, and what readers derive from it again.                *)
(*                                                                         *)
(* A tree is a record of a kind, a scalar kind, the offsets of the streams *)
(* its descriptors name, the names of its children, the offsets of their   *)
(* in-map streams (flat maps) and the children.  Both TypeBuilder and Type *)
(* have this shape.  A type of Velox has a kind, names and children.       *)
(***************************************************************************)
EXTENDS Integers, Sequences, SequencesExt

CONSTANTS
    NoName,  \* std::nullopt, for the name of a node
    Error    \* an assertion of the reader failed

(* A sequence as the tuple of its elements, for TLC to compute them once.   *)
Tuple(s) == <<>> \o s

Concat(seqs) == FlattenSeq(Tuple(seqs))

(* NimbleTypeTraits: the scalar kind a Velox kind is stored as, and        *)
(* convertToVeloxScalarType.  A timestamp is stored, and read, as a bigint. *)
ScalarKindOf ==
    [TINYINT |-> "Int8", SMALLINT |-> "Int16", INTEGER |-> "Int32",
     BIGINT |-> "Int64", REAL |-> "Float", DOUBLE |-> "Double",
     BOOLEAN |-> "Bool", VARCHAR |-> "String", VARBINARY |-> "Binary",
     TIMESTAMP |-> "Int64"]

VeloxKindOf ==
    [Int8 |-> "TINYINT", Int16 |-> "SMALLINT", Int32 |-> "INTEGER",
     Int64 |-> "BIGINT", Float |-> "REAL", Double |-> "DOUBLE",
     Bool |-> "BOOLEAN", String |-> "VARCHAR", Binary |-> "VARBINARY"]

VeloxType(kind, names, children) ==
    [kind |-> kind, names |-> names, children |-> children]

VeloxScalar(kind) == VeloxType(kind, <<>>, <<>>)

Tree(kind, scalar, offsets, names, inMaps, children) ==
    [kind |-> kind, scalar |-> scalar, offsets |-> offsets, names |-> names,
     inMaps |-> inMaps, children |-> children]

-----------------------------------------------------------------------------
(* SchemaBuilder::addNode: the tree in depth-first order.  Kinds with two   *)
(* streams of their own put the second one in a scalar node that follows;  *)
(* arrays with offsets lead with the lengths, maps with the offsets.       *)

Node(kind, offset, scalar, name, count) ==
    [kind |-> kind, offset |-> offset, scalar |-> scalar, name |-> name,
     count |-> count]

RECURSIVE AddNode(_, _)
AddNode(t, name) ==
    LET own == t.offsets
        child(i) == AddNode(t.children[i], NoName)
        children == Concat([i \in DOMAIN t.children |-> child(i)])
        extra(offset) == <<Node("Scalar", offset, "UInt32", NoName, 0)>>
        n == Len(t.children)
    IN  CASE t.kind = "Scalar" -> <<Node(t.kind, own[1], t.scalar, name, 0)>>
          [] t.kind \in {"Array", "Map"} ->
               <<Node(t.kind, own[1], "UInt32", name, 0)>> \o children
          [] t.kind = "ArrayWithOffsets" ->
               <<Node(t.kind, own[2], "UInt32", name, 0)>>
                 \o extra(own[1]) \o children
          [] t.kind = "SlidingWindowMap" ->
               <<Node(t.kind, own[1], "UInt32", name, 0)>>
                 \o extra(own[2]) \o children
          [] t.kind = "Row" ->
               <<Node(t.kind, own[1], "Bool", name, n)>> \o
               Concat([i \in 1..n |-> AddNode(t.children[i], t.names[i])])
          [] t.kind = "FlatMap" ->
               <<Node(t.kind, own[1], t.scalar, name, n)>> \o
               Concat([i \in 1..n |->
                 <<Node("Scalar", t.inMaps[i], "Bool", t.names[i], 0)>>
                   \o child(i)])

-----------------------------------------------------------------------------
(* The file.  One enumeration stands for the kind and the scalar kind, so  *)
(* only scalars and flat maps keep the latter.                             *)

KeepsScalarKind(kind) == kind \in {"Scalar", "FlatMap"}

NodeToSerializationKind(node) ==
    IF KeepsScalarKind(node.kind) THEN <<node.kind, node.scalar>>
    ELSE <<node.kind>>

Serialize(nodes) ==
    Tuple([i \in DOMAIN nodes |->
       [kind |-> NodeToSerializationKind(nodes[i]), children |-> nodes[i].count,
        name |-> nodes[i].name, offset |-> nodes[i].offset]])

SerializationNodeToKind(node) ==
    <<node.kind[1], IF Len(node.kind) = 2 THEN node.kind[2] ELSE "Undefined">>

Deserialize(file) ==
    Tuple([i \in DOMAIN file |->
       LET kind == SerializationNodeToKind(file[i])
       IN  Node(kind[1], file[i].offset, kind[2], file[i].name,
                file[i].children)])

-----------------------------------------------------------------------------
(* SchemaReader: getType consumes the nodes from an index on.  A result is  *)
(* the type, its name and the index after it; the type is Error when an     *)
(* assertion fails.                                                        *)

Named(type, name, next) == [type |-> type, name |-> name, next |-> next]

IsScalarNode(node, scalar) == node.kind = "Scalar" /\ node.scalar = scalar

RECURSIVE GetType(_, _)
RECURSIVE GetTypes(_, _, _)

(* count types in a row *)
GetTypes(nodes, index, count) ==
    IF count = 0 THEN <<>>
    ELSE LET first == GetType(nodes, index)
         IN  <<first>> \o GetTypes(nodes, first.next, count - 1)

RECURSIVE GetFields(_, _, _)

(* count fields of a flat map: an in-map node, then the type of its value *)
GetFields(nodes, index, count) ==
    IF count = 0 THEN <<>>
    ELSE LET field == GetType(nodes, index + 1)
         IN  <<[inMap |-> nodes[index], type |-> field.type,
                next |-> field.next]>>
               \o GetFields(nodes, field.next, count - 1)

After(parts, index) == IF parts = <<>> THEN index ELSE Last(parts).next

Types(parts) == Tuple([i \in DOMAIN parts |-> parts[i].type])

GetType(nodes, index) ==
    LET node == nodes[index]
        next == index + 1
        whole(ok, tree, end) == Named(IF ok THEN tree ELSE Error, node.name, end)
        lengths(scalar, parts) ==
            whole(TRUE,
                  Tree(node.kind, scalar, <<node.offset>>, <<>>, <<>>,
                       Types(parts)), After(parts, next))
        paired(offsets, parts) ==
            whole(IsScalarNode(nodes[next], "UInt32"),
                  Tree(node.kind, "UInt32", offsets, <<>>, <<>>, Types(parts)),
                  After(parts, next + 1))
    IN  CASE node.kind = "Scalar" -> lengths(node.scalar, <<>>)
          [] node.kind = "Array" -> lengths("UInt32", GetTypes(nodes, next, 1))
          [] node.kind = "Map" -> lengths("UInt32", GetTypes(nodes, next, 2))
          [] node.kind = "SlidingWindowMap" ->
               paired(<<node.offset, nodes[next].offset>>,
                      GetTypes(nodes, next + 1, 2))
          [] node.kind = "ArrayWithOffsets" ->
               paired(<<nodes[next].offset, node.offset>>,
                      GetTypes(nodes, next + 1, 1))
          [] node.kind = "Row" ->
               LET parts == GetTypes(nodes, next, node.count)
                   names == [i \in DOMAIN parts |-> parts[i].name]
               IN  whole(\A i \in DOMAIN parts : names[i] # NoName,
                         Tree("Row", "Bool", <<node.offset>>, names, <<>>,
                              Types(parts)), After(parts, next))
          [] node.kind = "FlatMap" ->
               LET parts == GetFields(nodes, next, node.count)
                   inMap(i) == parts[i].inMap
               IN  whole(\A i \in DOMAIN parts :
                             /\ IsScalarNode(inMap(i), "Bool")
                             /\ inMap(i).name # NoName,
                         Tree("FlatMap", node.scalar, <<node.offset>>,
                              [i \in DOMAIN parts |-> inMap(i).name],
                              [i \in DOMAIN parts |-> inMap(i).offset],
                              Types(parts)), After(parts, next))

GetSchema(nodes) == GetType(nodes, 1).type

-----------------------------------------------------------------------------
(* convertToVeloxType, in SchemaUtils: the type a reader presents.  A flat *)
(* map takes the type of its values from its first child.                  *)

RECURSIVE ConvertToVeloxType(_)
ConvertToVeloxType(t) ==
    LET child(i) == ConvertToVeloxType(t.children[i])
        all == [i \in DOMAIN t.children |-> child(i)]
    IN  CASE t.kind = "Scalar" -> VeloxScalar(VeloxKindOf[t.scalar])
          [] t.kind = "Row" -> VeloxType("ROW", t.names, all)
          [] t.kind \in {"Array", "ArrayWithOffsets"} ->
               VeloxType("ARRAY", <<>>, all)
          [] t.kind \in {"Map", "SlidingWindowMap"} ->
               VeloxType("MAP", <<>>, all)
          [] t.kind = "FlatMap" ->
               IF t.children = <<>> THEN Error
               ELSE VeloxType("MAP", <<>>,
                      <<VeloxScalar(VeloxKindOf[t.scalar]), child(1)>>)

-----------------------------------------------------------------------------
(* StreamLabels: a label is the sequence of its parts.  traverseSchema only *)
(* sizes the tables; addLabels gives every stream of a node the label of    *)
(* its parent, extended.  Rows add a slash and leave their own name out.    *)

(* Mutant: a stream gets the label of its column.                          *)
Labelled_Column(offsets, label) ==
    {<<o, SubSeq(label, 1, IF Len(label) > 2 THEN 2 ELSE Len(label))>> :
       o \in Range(offsets)}

Labelled(offsets, label) == {<<o, label>> : o \in Range(offsets)}

RECURSIVE AddLabels(_, _, _)
AddLabels(t, parent, name) ==
    LET label == parent \o (IF t.kind = "Row" THEN <<"/">> ELSE name)
        feature(i) == label \o <<"/", t.names[i]>>
        below(i) ==
            CASE t.kind = "Row" -> AddLabels(t.children[i], label, <<ToString(i - 1)>>)
              [] t.kind = "FlatMap" ->
                   AddLabels(t.children[i], feature(i), <<>>)
              [] OTHER -> AddLabels(t.children[i], label, <<>>)
    IN  Labelled(t.offsets, label)
          \union {<<t.inMaps[i], feature(i)>> : i \in DOMAIN t.inMaps}
          \union UNION {below(i) : i \in DOMAIN t.children}

StreamLabels(root) == AddLabels(root, <<>>, <<>>)
=============================================================================
