------------------------ MODULE EncodingLayoutTrees ------------------------
(***************************************************************************)
(* Captured encodings: the bytes an EncodingLayoutTree is kept as, and how *)
(* a new writer spreads the captured layouts over the streams of its       *)
(* schema.                                                                 *)
(*                                                                         *)
(* A layout is [encoding, compression, children], a child being NoLayout   *)
(* when it was not captured.  A tree is [kind, name, layouts, children],   *)
(* layouts a function from stream identifiers.  Bytes are sequences; the   *)
(* codes of kinds, encodings and compressions, and the characters of       *)
(* names, stand for themselves.                                            *)
(***************************************************************************)
EXTENDS SchemaTrees

CONSTANT NoLayout  \* a nested encoding that was not captured

Layout(encoding, compression, children) ==
    [encoding |-> encoding, compression |-> compression, children |-> children]

LayoutTree(kind, name, layouts, children) ==
    [kind |-> kind, name |-> name, layouts |-> layouts, children |-> children]

(* Little-endian integers.                                                 *)
Uint16(n) == <<n % 256, (n \div 256) % 256>>
Uint32(n) == Uint16(n) \o Uint16(n \div 65536)
ReadUint16(bytes, pos) == bytes[pos] + 256 * bytes[pos + 1]
ReadUint32(bytes, pos) ==
    ReadUint16(bytes, pos) + 65536 * ReadUint16(bytes, pos + 2)

(* EncodingLayout::serialize: two codes, the number of children, two bytes *)
(* of nothing, and per child a flag and its bytes.                         *)
RECURSIVE SerializeLayout(_)
SerializeLayout(l) ==
    <<l.encoding, l.compression, Len(l.children), 0, 0>> \o
    Concat([i \in DOMAIN l.children |->
                  IF l.children[i] = NoLayout THEN <<0>>
                  ELSE <<1>> \o SerializeLayout(l.children[i])])

(* EncodingLayout::create, from a position on: the layout and its end.     *)
RECURSIVE CreateLayout(_, _)
RECURSIVE CreateLayouts(_, _, _)

CreateLayouts(bytes, pos, count) ==
    IF count = 0 THEN [children |-> <<>>, next |-> pos]
    ELSE LET child == IF bytes[pos] > 0 THEN CreateLayout(bytes, pos + 1)
                      ELSE [layout |-> NoLayout, next |-> pos + 1]
             rest == CreateLayouts(bytes, child.next, count - 1)
         IN  [children |-> <<child.layout>> \o rest.children,
              next |-> rest.next]

CreateLayout(bytes, pos) ==
    LET nested == CreateLayouts(bytes, pos + 5, bytes[pos + 2])
    IN  [layout |-> Layout(bytes[pos], bytes[pos + 1], nested.children),
         next |-> nested.next]

(* EncodingLayoutTree::serialize.  The map of layouts is walked in any      *)
(* order; the order of the identifiers is one of them.                     *)
RECURSIVE SerializeTree(_)
SerializeTree(t) ==
    LET layout(id) == SerializeLayout(t.layouts[id])
        ids == SetToSortSeq(DOMAIN t.layouts, LAMBDA a, b : a < b)
    IN  <<t.kind>> \o Uint16(Len(t.name)) \o t.name
          \o <<Cardinality(DOMAIN t.layouts)>>
          \o Concat([i \in DOMAIN ids |->
                <<ids[i]>> \o Uint16(Len(layout(ids[i]))) \o layout(ids[i])])
          \o Uint32(Len(t.children))
          \o Concat([i \in DOMAIN t.children |->
                           SerializeTree(t.children[i])])

(* createInternal: a tree and its end.                                     *)
RECURSIVE CreateTree(_, _)
RECURSIVE CreateTrees(_, _, _)
RECURSIVE ReadLayouts(_, _, _)

CreateTrees(bytes, pos, count) ==
    IF count = 0 THEN [trees |-> <<>>, next |-> pos]
    ELSE LET first == CreateTree(bytes, pos)
             rest == CreateTrees(bytes, first.next, count - 1)
         IN  [trees |-> <<first.tree>> \o rest.trees, next |-> rest.next]

(* the (identifier, layout) pairs; each must end where its length says *)
ReadLayouts(bytes, pos, count) ==
    IF count = 0 THEN [pairs |-> {}, next |-> pos, ok |-> TRUE]
    ELSE LET length == ReadUint16(bytes, pos + 1)
             layout == CreateLayout(bytes, pos + 3)
             rest == ReadLayouts(bytes, layout.next, count - 1)
         IN  [pairs |-> {<<bytes[pos], layout.layout>>} \union rest.pairs,
              next |-> rest.next,
              ok |-> layout.next = pos + 3 + length /\ rest.ok]

CreateTree(bytes, pos) ==
    LET size == ReadUint16(bytes, pos + 1)
        start == pos + 3 + size
        read == ReadLayouts(bytes, start + 1, bytes[start])
        below == CreateTrees(bytes, read.next + 4,
                             ReadUint32(bytes, read.next))
        ids == {p[1] : p \in read.pairs}
        layouts == [id \in ids |->
                      (CHOOSE p \in read.pairs : p[1] = id)[2]]
    IN  [tree |-> IF read.ok
                  THEN LayoutTree(bytes[pos], SubSeq(bytes, pos + 3, start - 1),
                                  layouts, below.trees)
                  ELSE Error,
         next |-> below.next]

-----------------------------------------------------------------------------
(* initializeEncodingLayouts: the kinds must agree and so must the numbers *)
(* of children; a map may have become a flat map or the other way round,   *)
(* and is left without layouts.                                            *)

Evolved(t, tree) == {t.kind, tree.kind} = {"Map", "FlatMap"}

(* How many children the captured node must have, if it has any.           *)
ChildrenExpected(kind) == IF kind = "Array" THEN 1 ELSE 2

(* The pairs of types and captured trees the recursion goes on with.  The  *)
(* children of a flat map wait until their keys arrive.                    *)
LayoutPairs(t, tree) ==
    IF t.kind \in {"Scalar", "FlatMap"} THEN {}
    ELSE {<<t.children[i], tree.children[i]>> :
            i \in DOMAIN t.children \intersect DOMAIN tree.children}

RECURSIVE Compatible(_, _)
Compatible(t, tree) ==
    \/ Evolved(t, tree)
    \/ /\ t.kind = tree.kind
       /\ \/ t.kind \in {"Scalar", "FlatMap", "Row"}
          \/ Len(tree.children) \in {0, ChildrenExpected(t.kind)}
       /\ \A p \in LayoutPairs(t, tree) : Compatible(p[1], p[2])

(* The layouts given to streams, as pairs of an offset and a layout.       *)
RECURSIVE InitializeEncodingLayouts(_, _)
InitializeEncodingLayouts(t, tree) ==
    IF Evolved(t, tree) THEN {}
    ELSE {<<t.offsets[id + 1], tree.layouts[id]>> :
            id \in DOMAIN tree.layouts \intersect (0..(Len(t.offsets) - 1))}
         \union UNION {InitializeEncodingLayouts(p[1], p[2]) :
                         p \in LayoutPairs(t, tree)}

(* The captured trees of the keys of a flat map: of equal keys the first.  *)
KeyEncodings(tree) ==
    LET names == {c.name : c \in Range(tree.children)}
        first(n) == CHOOSE i \in DOMAIN tree.children :
                      /\ tree.children[i].name = n
                      /\ \A j \in 1..(i - 1) : tree.children[j].name # n
    IN  [n \in names |-> tree.children[first(n)]]
=============================================================================
