--------------------------- MODULE FlatMapsProofs ---------------------------
(***************************************************************************)
(* Proofs about FlatMaps: whenever a key is first seen and wherever the    *)
(* streams are cut, they hold the maps of every key whose contract callers *)
(* kept, and the readers deliver them through any selection.               *)
(*                                                                         *)
(* The invariant follows each key: its in-map stream has a flag for every  *)
(* map that is not null, or is still empty because no map had the key; its *)
(* value stream has taken the values of the maps that have it.             *)
(***************************************************************************)
EXTENDS FlatMaps, SequenceFacts

CallerMaps == (UNION {MapsAt(n) : n \in 1..MaxRows}) \ {Null}

Values ==
    {Null} \cup 1..MaxRows
      \cup UNION {UNION {{map[k][i] : i \in DOMAIN map[k]} : k \in DOMAIN map} :
                  map \in CallerMaps}

MapSet == UNION {[D -> Values] : D \in SUBSET Keys}
RowSet == {Null} \cup MapSet

(* Which maps have a key, and the values of those that do.                 *)
Has(maps, k) == [i \in DOMAIN maps |-> k \in DOMAIN maps[i]]
CellsOf(maps, k) ==
    [i \in DOMAIN maps |-> IF k \in DOMAIN maps[i] THEN <<maps[i][k]>> ELSE <<>>]
ValuesOf(maps, k) == FlattenSeq(CellsOf(maps, k))

AllHave(maps, k) == \A i \in DOMAIN maps : k \in DOMAIN maps[i]
NoneHas(maps, k) == \A i \in DOMAIN maps : k \notin DOMAIN maps[i]

-----------------------------------------------------------------------------
(* More about sequences                                                    *)

Mapped(g, q) == [i \in DOMAIN q |-> g[q[i]]]

(* A sequence mapped in two parts.                                         *)
LEMMA MapConcat ==
    ASSUME NEW X, NEW g, NEW p \in Seq(X), NEW q \in Seq(X)
    PROVE  Mapped(g, p \o q) = Mapped(g, p) \o Mapped(g, q)
<1> DEFINE Y == {g[x] : x \in X}
           w == p \o q
           mp == [i \in 1..Len(p) |-> g[p[i]]]
           mq == [i \in 1..Len(q) |-> g[q[i]]]
           mw == [i \in 1..Len(w) |-> g[w[i]]]
           n == Len(p)
           m == Len(q)
<1>1. /\ n \in Nat /\ m \in Nat
      /\ w \in Seq(X) /\ Len(w) = n + m
      /\ DOMAIN w = 1..Len(w) /\ DOMAIN p = 1..n /\ DOMAIN q = 1..m
      /\ \A i \in 1..n : w[i] = p[i]
      /\ \A i \in 1..m : w[n + i] = q[i]
  OBVIOUS
<1>2. /\ \A i \in 1..n : p[i] \in X
      /\ \A i \in 1..m : q[i] \in X
      /\ \A i \in 1..Len(w) : w[i] \in X
  BY <1>1
<1> HIDE DEF w, n, m
<1>3. mp \in [1..n -> Y] /\ mq \in [1..m -> Y] /\ mw \in [1..Len(w) -> Y]
  BY <1>2 DEF n, m
<1>4. /\ \A i \in 1..n : mw[i] = mp[i]
      /\ \A i \in 1..m : mw[n + i] = mq[i]
  BY <1>1 DEF n, m
<1> HIDE DEF mp, mq, mw, Y
<1>5. /\ mp \in Seq(Y) /\ Len(mp) = n /\ mq \in Seq(Y) /\ Len(mq) = m
      /\ mw \in Seq(Y) /\ Len(mw) = n + m
  BY <1>1, <1>3
<1>6. mw = mp \o mq
  <2> DEFINE c == mp \o mq
  <2>1. /\ c \in Seq(Y) /\ Len(c) = n + m
        /\ \A i \in 1..n : c[i] = mp[i]
        /\ \A i \in 1..m : c[n + i] = mq[i]
    BY <1>5, ConcatElements
  <2> HIDE DEF c
  <2>2. ASSUME NEW i \in 1..(n + m) PROVE c[i] = mw[i]
    <3>1. CASE i \in 1..n
      BY <1>4, <2>1, <3>1
    <3>2. CASE i \notin 1..n
      <4>1. i - n \in 1..m /\ n + (i - n) = i
        BY <1>1, <3>2
      <4> QED  BY <1>4, <2>1, <4>1
    <3> QED  BY <3>1, <3>2
  <2>3. c = mw
    BY <1>5, <2>1, <2>2
  <2> QED  BY <2>3 DEF c
<1>. QED  BY <1>1, <1>5, <1>6 DEF mp, mq, mw, w, n, m, Mapped

(* Mapping rows so that just the null ones become null maps those that are *)
(* not null.                                                               *)
LEMMA WithoutMap ==
    ASSUME NEW X, NEW g, NEW null, \A x \in X : g[x] = null <=> x = null,
           NEW q \in Seq(X)
    PROVE  Without(Mapped(g, q), null) = Mapped(g, Without(q, null))
<1> DEFINE T == {r \in Seq(X) : Without(Mapped(g, r), null) = Mapped(g, Without(r, null))}
           Y == {g[x] : x \in X}
<1>1. <<>> \in Seq(X)
  OBVIOUS
<1>2. ASSUME NEW r \in Seq(X), NEW x \in X
      PROVE  /\ Mapped(g, r) \in Seq(Y) /\ g[x] \in Y
             /\ Mapped(g, Append(r, x)) = Append(Mapped(g, r), g[x])
  <2> DEFINE p == Mapped(g, r)
             y == g[x]
  <2>1. y \in Y /\ Len(r) \in Nat /\ DOMAIN r = 1..Len(r) /\ \A i \in 1..Len(r) : g[r[i]] \in Y
    OBVIOUS
  <2>2. p \in [1..Len(r) -> Y]
    BY <2>1 DEF Mapped
  <2>3. Mapped(g, r \o <<x>>) = p \o Mapped(g, <<x>>)
    <3> DEFINE s == <<x>>
    <3>1. s \in Seq(X)
      OBVIOUS
    <3> HIDE DEF s
    <3>2. Mapped(g, r \o s) = Mapped(g, r) \o Mapped(g, s)
      BY <3>1, MapConcat
    <3> QED  BY <3>2 DEF s
  <2>4. Mapped(g, <<x>>) = <<y>>
    BY DEF Mapped
  <2>5. Append(r, x) = r \o <<x>>
    OBVIOUS
  <2> HIDE DEF p, y, Y
  <2>6. p \in Seq(Y)
    BY <2>1, <2>2
  <2>7. p \o <<y>> = Append(p, y)
    BY <2>1, <2>6
  <2> QED  BY <2>1, <2>3, <2>4, <2>5, <2>6, <2>7 DEF p, y
<1> HIDE DEF Y
<1>3. <<>> \in T
  <2>1. Mapped(g, <<>>) = <<>>
    BY DEF Mapped
  <2>2. Without(<<>>, null) = <<>>
    BY WithoutEmpty
  <2> QED  BY <1>1, <2>1, <2>2
<1>4. ASSUME NEW r \in Seq(X), NEW x \in X, r \in T PROVE Append(r, x) \in T
  <2> DEFINE more == Append(r, x)
             w == Without(r, null)
  <2>1. w \in Seq(X) /\ more \in Seq(X)
    BY WithoutType
  <2>2. Without(more, null) = IF x # null THEN Append(w, x) ELSE w
    BY WithoutAppend
  <2>3. Mapped(g, r) \in Seq(Y) /\ Mapped(g, more) = Append(Mapped(g, r), g[x]) /\ g[x] \in Y
    BY <1>2
  <2>4. w \in Seq(X) => Mapped(g, Append(w, x)) = Append(Mapped(g, w), g[x])
    BY <1>2
  <2>5. Without(Mapped(g, r), null) = Mapped(g, w)
    BY <1>4
  <2> HIDE DEF more, w
  <2>6. Without(Mapped(g, more), null) =
          IF g[x] # null THEN Append(Without(Mapped(g, r), null), g[x])
          ELSE Without(Mapped(g, r), null)
    <3> DEFINE p == Mapped(g, r)
               y == g[x]
    <3>1. p \in Seq(Y) /\ y \in Y /\ Mapped(g, more) = Append(p, y)
      BY <2>3
    <3> HIDE DEF p, y
    <3>2. Without(Append(p, y), null) = IF y # null THEN Append(Without(p, null), y)
                                        ELSE Without(p, null)
      BY ONLY <3>1, WithoutAppend
    <3> QED  BY <3>1, <3>2 DEF p, y
  <2>7. Without(Mapped(g, more), null) = Mapped(g, Without(more, null))
    BY <2>1, <2>2, <2>4, <2>5, <2>6
  <2> QED  BY <2>1, <2>7 DEF more
<1>5. Seq(X) \subseteq T
  <2> HIDE DEF T
  <2> QED  BY <1>3, <1>4, SeqClimb
<1>. QED  BY <1>5

(* Flattening two parts.                                                   *)
LEMMA FlattenConcat ==
    ASSUME NEW S, NEW a \in Seq(Seq(S)), NEW b \in Seq(Seq(S))
    PROVE  FlattenSeq(a \o b) = FlattenSeq(a) \o FlattenSeq(b)
<1> DEFINE T == {q \in Seq(Seq(S)) :
                   FlattenSeq(a \o q) = FlattenSeq(a) \o FlattenSeq(q)}
           fa == FlattenSeq(a)
<1>1. fa \in Seq(S)
  BY FlattenType
<1>2. <<>> \in T
  <2> HIDE DEF fa
  <2>1. a \o <<>> = a /\ fa \o <<>> = fa /\ <<>> \in Seq(Seq(S))
    BY <1>1
  <2> QED  BY <2>1, FlattenEmpty DEF fa
<1>3. ASSUME NEW q \in Seq(Seq(S)), NEW x \in Seq(S), q \in T PROVE Append(q, x) \in T
  <2> DEFINE w == a \o q
             fq == FlattenSeq(q)
  <2>1. w \in Seq(Seq(S)) /\ a \o Append(q, x) = Append(w, x) /\ Append(q, x) \in Seq(Seq(S))
    BY AppendConcat
  <2>2. FlattenSeq(w) = fa \o fq
    BY <1>3
  <2>3. fq \in Seq(S) /\ FlattenSeq(Append(q, x)) = fq \o x
    BY FlattenType, FlattenAppend
  <2> HIDE DEF w, fq, fa
  <2>4. FlattenSeq(Append(w, x)) = FlattenSeq(w) \o x
    BY <2>1, FlattenAppend
  <2>5. (fa \o fq) \o x = fa \o (fq \o x)
    BY <1>1, <2>3, SMTT(30)
  <2> QED  BY <2>1, <2>2, <2>3, <2>4, <2>5 DEF fa
<1>4. Seq(Seq(S)) \subseteq T
  <2> HIDE DEF T
  <2> QED  BY <1>2, <1>3, SeqClimb
<1>. QED  BY <1>4

(* Flattening sequences of at most one element leaves out the empty ones.  *)
LEMMA FlattenSingles ==
    ASSUME NEW V, NEW q \in Seq({<<>>} \cup {<<v>> : v \in V})
    PROVE  /\ FlattenSeq(q) \in Seq(V)
           /\ Len(FlattenSeq(q)) = Len(Without(q, <<>>))
           /\ \A j \in 1..Len(FlattenSeq(q)) : Without(q, <<>>)[j] = <<FlattenSeq(q)[j]>>
<1> DEFINE X == {<<>>} \cup {<<v>> : v \in V}
           Good(r) == /\ Len(FlattenSeq(r)) = Len(Without(r, <<>>))
                      /\ \A j \in 1..Len(FlattenSeq(r)) :
                           Without(r, <<>>)[j] = <<FlattenSeq(r)[j]>>
           T == {r \in Seq(X) : Good(r)}
<1>1. /\ \A x \in X : x \in Seq(V) /\ (x # <<>> => x = <<x[1]>> /\ x[1] \in V)
      /\ <<>> \in Seq(X)
  <2>1. ASSUME NEW x \in X, x # <<>> PROVE x \in Seq(V) /\ x = <<x[1]>> /\ x[1] \in V
    <3>1. PICK v \in V : x = <<v>>
      BY <2>1
    <3>2. <<v>> \in Seq(V) /\ <<v>>[1] = v
      OBVIOUS
    <3> QED  BY <3>1, <3>2
  <2>2. <<>> \in Seq(V) /\ <<>> \in Seq(X)
    OBVIOUS
  <2> QED  BY <2>1, <2>2
<1>2. Seq(X) \subseteq Seq(Seq(V))
  <2>1. X \subseteq Seq(V)
    BY <1>1
  <2> HIDE DEF X
  <2> QED  BY <2>1
<1>3. <<>> \in T
  <2>1. Len(<<>>) = 0 /\ 1..0 = {}
    OBVIOUS
  <2>2. Without(<<>>, <<>>) = <<>>
    BY WithoutEmpty
  <2> QED  BY <1>1, <2>1, <2>2, FlattenEmpty
<1>4. ASSUME NEW r \in Seq(X), NEW x \in X, r \in T PROVE Append(r, x) \in T
  <2> DEFINE more == Append(r, x)
             w == Without(r, <<>>)
             f == FlattenSeq(r)
  <2> HIDE DEF X
  <2>1. w \in Seq(X) /\ more \in Seq(X)
    BY WithoutType
  <2>2. Without(more, <<>>) = IF x # <<>> THEN Append(w, x) ELSE w
    BY WithoutAppend
  <2>3. x \in Seq(V) /\ r \in Seq(Seq(V))
    BY <1>1, <1>2
  <2>4. f \in Seq(V) /\ FlattenSeq(more) = f \o x
    BY <2>3, FlattenType, FlattenAppend
  <2>5. Len(f) = Len(w) /\ \A j \in 1..Len(f) : w[j] = <<f[j]>>
    BY <1>4
  <2>6. CASE x = <<>>
    <3> HIDE DEF w, f, more
    <3>1. f \o x = f
      BY <2>4, <2>6
    <3>2. Good(more)
      BY <2>2, <2>4, <2>5, <2>6, <3>1
    <3> HIDE DEF Good
    <3> QED  BY <2>1, <3>2 DEF more
  <2>7. CASE x # <<>>
    <3> HIDE DEF w, f, more
    <3>1. x = <<x[1]>> /\ x[1] \in V
      BY <1>1, <2>7
    <3>2. f \o x = Append(f, x[1])
      <4> DEFINE y == x[1]
      <4> HIDE DEF y
      <4>1. x = <<y>>
        BY <3>1 DEF y
      <4>2. f \o <<y>> = Append(f, y)
        BY <2>4
      <4> QED  BY <4>1, <4>2 DEF y
    <3>3. Without(more, <<>>) = Append(w, x)
      BY <2>2, <2>7
    <3>4. /\ Len(Append(f, x[1])) = Len(f) + 1 /\ Len(f) \in Nat
          /\ Append(f, x[1])[Len(f) + 1] = x[1]
          /\ \A j \in 1..Len(f) : Append(f, x[1])[j] = f[j]
      BY <2>4, <3>1
    <3>5. /\ Len(Append(w, x)) = Len(f) + 1
          /\ Append(w, x)[Len(f) + 1] = x
          /\ \A j \in 1..Len(f) : Append(w, x)[j] = w[j]
      BY <2>1, <2>5
    <3>6. ASSUME NEW j \in 1..(Len(f) + 1) PROVE Append(w, x)[j] = <<Append(f, x[1])[j]>>
      <4>1. CASE j = Len(f) + 1
        BY <3>1, <3>4, <3>5, <4>1
      <4>2. CASE j # Len(f) + 1
        <5>1. j \in 1..Len(f)
          BY <3>4, <4>2
        <5> QED  BY <2>5, <3>4, <3>5, <5>1
      <4> QED  BY <4>1, <4>2
    <3>7. Good(more)
      BY <2>4, <3>2, <3>3, <3>4, <3>5, <3>6
    <3> HIDE DEF Good
    <3> QED  BY <2>1, <3>7 DEF more
  <2> QED  BY <2>6, <2>7
<1>5. Seq(X) \subseteq T
  <2> HIDE DEF T, X
  <2> QED  BY <1>3, <1>4, SeqClimb
<1>6. FlattenSeq(q) \in Seq(V)
  <2> HIDE DEF X
  <2> QED  BY <1>2, FlattenType DEF X
<1>. QED  BY <1>5, <1>6

-----------------------------------------------------------------------------
(* The maps that have a key, and its values                                *)

(* Which of the maps have a key: a flag per map.                           *)
LEMMA HasFacts ==
    ASSUME NEW S, NEW maps \in Seq(S), NEW k
    PROVE  /\ Has(maps, k) \in Seq(BOOLEAN) /\ Len(Has(maps, k)) = Len(maps)
           /\ \A i \in 1..Len(maps) : Has(maps, k)[i] = (k \in DOMAIN maps[i])
<1> DEFINE h == Has(maps, k)
<1>1. Len(maps) \in Nat /\ DOMAIN maps = 1..Len(maps)
  OBVIOUS
<1>2. h \in [1..Len(maps) -> BOOLEAN]
  BY <1>1 DEF Has
<1>3. \A i \in 1..Len(maps) : h[i] = (k \in DOMAIN maps[i])
  BY <1>1, Zenon DEF Has
<1> HIDE DEF h
<1>4. h \in Seq(BOOLEAN) /\ Len(h) = Len(maps)
  BY <1>1, <1>2
<1>. QED  BY <1>3, <1>4 DEF h

(* The same of maps in two parts.                                          *)
LEMMA HasConcat ==
    ASSUME NEW S, NEW a \in Seq(S), NEW b \in Seq(S), NEW k
    PROVE  Has(a \o b, k) = Has(a, k) \o Has(b, k)
<1> DEFINE g == [m \in S |-> k \in DOMAIN m]
<1>1. \A m \in S : g[m] = (k \in DOMAIN m)
  BY Zenon
<1>2. g \in [S -> BOOLEAN] /\ \A m \in S : g[m] = (k \in DOMAIN m)
  BY <1>1
<1> HIDE DEF g
<1>3. ASSUME NEW q \in Seq(S) PROVE Has(q, k) = Mapped(g, q)
  <2>1. \A i \in DOMAIN q : q[i] \in S
    OBVIOUS
  <2>2. \A i \in DOMAIN q : g[q[i]] = (k \in DOMAIN q[i])
    BY <1>2, <2>1
  <2> QED  BY <2>2, Zenon DEF Has, Mapped
<1>4. a \o b \in Seq(S)
  BY ConcatType
<1>5. Mapped(g, a \o b) = Mapped(g, a) \o Mapped(g, b)
  BY MapConcat
<1>. QED  BY <1>3, <1>4, <1>5

Singles == {<<>>} \cup {<<v>> : v \in Values}

(* The values of a key, none or one per map, before they are put together. *)
LEMMA CellsFacts ==
    ASSUME NEW maps \in Seq(MapSet), NEW k
    PROVE  /\ CellsOf(maps, k) \in Seq(Singles)
           /\ Len(CellsOf(maps, k)) = Len(maps)
           /\ Present(CellsOf(maps, k), <<>>) = Has(maps, k)
           /\ \A i \in 1..Len(maps) : k \in DOMAIN maps[i] =>
                CellsOf(maps, k)[i] = <<maps[i][k]>> /\ maps[i][k] \in Values
<1> DEFINE c == CellsOf(maps, k)
<1>1. Len(maps) \in Nat /\ DOMAIN maps = 1..Len(maps) /\ \A i \in 1..Len(maps) : maps[i] \in MapSet
  OBVIOUS
<1>2. ASSUME NEW i \in 1..Len(maps)
      PROVE  /\ c[i] = IF k \in DOMAIN maps[i] THEN <<maps[i][k]>> ELSE <<>>
             /\ c[i] \in Singles
             /\ (c[i] # <<>>) = (k \in DOMAIN maps[i])
             /\ k \in DOMAIN maps[i] => maps[i][k] \in Values
  <2>1. c[i] = IF k \in DOMAIN maps[i] THEN <<maps[i][k]>> ELSE <<>>
    BY <1>1 DEF CellsOf
  <2>2. k \in DOMAIN maps[i] => maps[i][k] \in Values
    <3>1. maps[i] \in MapSet
      BY <1>1
    <3>2. PICK D \in SUBSET Keys : maps[i] \in [D -> Values]
      BY <3>1 DEF MapSet
    <3> QED  BY <3>2
  <2> HIDE DEF c
  <2>3. CASE k \in DOMAIN maps[i]
    <3> DEFINE v == maps[i][k]
    <3>1. v \in Values /\ c[i] = <<v>>
      BY <2>1, <2>2, <2>3
    <3> HIDE DEF v
    <3>2. <<v>> # <<>> /\ <<v>> \in Singles
      BY <3>1 DEF Singles
    <3> QED  BY <2>1, <2>2, <2>3, <3>1, <3>2
  <2>4. CASE k \notin DOMAIN maps[i]
    <3>1. c[i] = <<>> /\ <<>> \in Singles
      BY <2>1, <2>4 DEF Singles
    <3> QED  BY <2>1, <2>4, <3>1
  <2> QED  BY <2>3, <2>4
<1>3. DOMAIN c = 1..Len(maps)
  BY <1>1 DEF CellsOf
<1>4. c \in [1..Len(maps) -> Singles]
  BY <1>1, <1>2 DEF CellsOf
<1>5. Present(c, <<>>) = Has(maps, k)
  <2> HIDE DEF c
  <2>1. \A i \in 1..Len(maps) : (c[i] # <<>>) = (k \in DOMAIN maps[i])
    BY <1>2
  <2>2. [i \in 1..Len(maps) |-> c[i] # <<>>] = [i \in 1..Len(maps) |-> k \in DOMAIN maps[i]]
    BY <2>1, Zenon
  <2> QED  BY <1>1, <1>3, <2>2 DEF Present, Has
<1> HIDE DEF c
<1>6. c \in Seq(Singles) /\ Len(c) = Len(maps)
  BY <1>1, <1>4
<1>7. \A i \in 1..Len(maps) : k \in DOMAIN maps[i] =>
        c[i] = <<maps[i][k]>> /\ maps[i][k] \in Values
  BY <1>2
<1>. QED  BY <1>5, <1>6, <1>7 DEF c

(* They are sequences.                                                     *)
LEMMA SinglesSeqs ==
    ASSUME NEW q \in Seq(Singles)
    PROVE  q \in Seq(Seq(Values))
<1>1. Singles \subseteq Seq(Values)
  <2> SUFFICES ASSUME NEW x \in Singles PROVE x \in Seq(Values)
    OBVIOUS
  <2>1. CASE x = <<>>
    BY <2>1
  <2>2. CASE \E v \in Values : x = <<v>>
    BY <2>2
  <2> QED  BY <2>1, <2>2 DEF Singles
<1>. QED  BY <1>1

(* The value of a map that has the key is where the rank of the map says.  *)
LEMMA ValuesFacts ==
    ASSUME NEW maps \in Seq(MapSet), NEW k
    PROVE  /\ ValuesOf(maps, k) \in Seq(Values)
           /\ Len(ValuesOf(maps, k)) = Rank(Has(maps, k), Len(maps))
           /\ \A i \in 1..Len(maps) : k \in DOMAIN maps[i] =>
                /\ Rank(Has(maps, k), i) \in 1..Len(ValuesOf(maps, k))
                /\ ValuesOf(maps, k)[Rank(Has(maps, k), i)] = maps[i][k]
<1> DEFINE c == CellsOf(maps, k)
           v == ValuesOf(maps, k)
           w == Without(c, <<>>)
           h == Has(maps, k)
<1>1. /\ c \in Seq(Singles) /\ Len(c) = Len(maps) /\ Present(c, <<>>) = h
      /\ \A i \in 1..Len(maps) : k \in DOMAIN maps[i] => c[i] = <<maps[i][k]>>
  BY CellsFacts
<1>2. v \in Seq(Values) /\ Len(v) = Len(w) /\ \A j \in 1..Len(v) : w[j] = <<v[j]>>
  BY <1>1, FlattenSingles DEF Singles, ValuesOf
<1>3. /\ Len(w) = Rank(Present(c, <<>>), Len(c))
      /\ \A i \in 1..Len(c) : c[i] # <<>> =>
           /\ Rank(Present(c, <<>>), i) \in 1..Len(w)
           /\ w[Rank(Present(c, <<>>), i)] = c[i]
  BY <1>1, WithoutRank
<1> HIDE DEF c, v, w, h
<1>4. ASSUME NEW i \in 1..Len(maps), k \in DOMAIN maps[i]
      PROVE  Rank(h, i) \in 1..Len(v) /\ v[Rank(h, i)] = maps[i][k]
  <2> DEFINE x == maps[i][k]
  <2>1. c[i] = <<x>> /\ i \in 1..Len(c)
    BY <1>1, <1>4
  <2> HIDE DEF x
  <2>2. c[i] # <<>>
    BY <2>1
  <2>3. Rank(h, i) \in 1..Len(v) /\ w[Rank(h, i)] = <<x>>
    BY <1>1, <1>2, <1>3, <2>1, <2>2
  <2>4. w[Rank(h, i)] = <<v[Rank(h, i)]>>
    BY <1>2, <2>3
  <2> QED  BY <2>3, <2>4 DEF x
<1>. QED  BY <1>1, <1>2, <1>3, <1>4 DEF v, h

(* The values of a key in maps in two parts.                               *)
LEMMA ValuesConcat ==
    ASSUME NEW a \in Seq(MapSet), NEW b \in Seq(MapSet), NEW k
    PROVE  ValuesOf(a \o b, k) = ValuesOf(a, k) \o ValuesOf(b, k)
<1> DEFINE g == [m \in MapSet |-> IF k \in DOMAIN m THEN <<m[k]>> ELSE <<>>]
<1>1. \A m \in MapSet : g[m] = IF k \in DOMAIN m THEN <<m[k]>> ELSE <<>>
  OBVIOUS
<1>2. ASSUME NEW m \in MapSet PROVE g[m] \in Seq(Values)
  <2>1. PICK D \in SUBSET Keys : m \in [D -> Values]
    BY DEF MapSet
  <2>2. CASE k \in DOMAIN m
    <3> DEFINE x == m[k]
    <3>1. x \in Values /\ g[m] = <<x>>
      BY <1>1, <2>1, <2>2
    <3> HIDE DEF x, g
    <3> QED  BY <3>1
  <2>3. CASE k \notin DOMAIN m
    BY <1>1, <2>3
  <2> QED  BY <2>2, <2>3
<1>3. g \in [MapSet -> Seq(Values)]
  BY <1>2
<1> HIDE DEF g
<1>4. ASSUME NEW q \in Seq(MapSet) PROVE CellsOf(q, k) = Mapped(g, q)
  <2>1. \A i \in DOMAIN q : q[i] \in MapSet
    OBVIOUS
  <2> QED  BY <1>1, <2>1 DEF CellsOf, Mapped
<1>5. a \o b \in Seq(MapSet)
  BY ConcatType
<1>6. Mapped(g, a \o b) = Mapped(g, a) \o Mapped(g, b)
  BY MapConcat
<1>7. CellsOf(a \o b, k) = CellsOf(a, k) \o CellsOf(b, k)
  BY <1>4, <1>5, <1>6
<1>8. CellsOf(a, k) \in Seq(Seq(Values)) /\ CellsOf(b, k) \in Seq(Seq(Values))
  BY CellsFacts, SinglesSeqs
<1>. QED  BY <1>7, <1>8, FlattenConcat DEF ValuesOf

(* A key no map has.                                                       *)
LEMMA NoneHasFacts ==
    ASSUME NEW maps \in Seq(MapSet), NEW k, NoneHas(maps, k)
    PROVE  ValuesOf(maps, k) = <<>>
<1>1. Len(maps) \in Nat /\ DOMAIN maps = 1..Len(maps)
  OBVIOUS
<1>2. \A i \in 1..Len(maps) : ~Has(maps, k)[i]
  BY <1>1, HasFacts DEF NoneHas
<1>3. Rank(Has(maps, k), Len(maps)) = 0
  BY <1>1, <1>2, RankNone
<1> DEFINE v == ValuesOf(maps, k)
<1>4. v \in Seq(Values) /\ Len(v) = 0
  BY <1>3, ValuesFacts
<1> HIDE DEF v
<1>. QED  BY <1>4 DEF v

(* A key all maps have.                                                    *)
LEMMA AllHaveFacts ==
    ASSUME NEW maps \in Seq(MapSet), NEW k, AllHave(maps, k)
    PROVE  /\ Has(maps, k) = AllTrue(Len(maps))
           /\ ValuesOf(maps, k) = [i \in DOMAIN maps |-> maps[i][k]]
<1> DEFINE n == Len(maps)
           h == Has(maps, k)
           v == ValuesOf(maps, k)
<1>1. n \in Nat /\ DOMAIN maps = 1..n
  OBVIOUS
<1>2. h \in Seq(BOOLEAN) /\ Len(h) = n /\ \A i \in 1..n : h[i] = TRUE
  BY <1>1, HasFacts, Zenon DEF AllHave
<1>3. h = AllTrue(n)
  <2> HIDE DEF h, n
  <2> QED  BY <1>1, <1>2 DEF AllTrue
<1>4. \A i \in 1..n : Rank(h, i) = i
  <2> HIDE DEF h, n
  <2> SUFFICES ASSUME NEW i \in 1..n PROVE Rank(h, i) = i
    OBVIOUS
  <2>1. i \in Nat /\ \A j \in 1..i : h[j]
    BY <1>1, <1>2
  <2> QED  BY <2>1, RankAll
<1>5. /\ v \in Seq(Values) /\ Len(v) = Rank(h, n)
      /\ \A i \in 1..n : v[Rank(h, i)] = maps[i][k]
  BY <1>1, ValuesFacts DEF AllHave
<1>6. Rank(h, n) = n
  <2> HIDE DEF h, n
  <2> QED  BY <1>1, <1>2, RankAll
<1>7. v = [i \in 1..n |-> maps[i][k]]
  <2>1. v \in Seq(Values) /\ Len(v) = n /\ \A i \in 1..n : v[i] = maps[i][k]
    BY <1>4, <1>5, <1>6
  <2> HIDE DEF v, h
  <2> QED  BY <1>1, <2>1
<1>. QED  BY <1>1, <1>3, <1>7

-----------------------------------------------------------------------------
(* What callers write                                                      *)

(* The maps among rows.                                                    *)
LEMMA NonNullsIn ==
    ASSUME NEW M, NEW q \in Seq({Null} \cup M)
    PROVE  NonNulls(q) \in Seq(M)
<1> DEFINE w == NonNulls(q)
<1>1. w \in Seq({Null} \cup M)
  BY WithoutType DEF NonNulls
<1>2. \A j \in 1..Len(w) : \E i \in 1..Len(q) : q[i] # Null /\ w[j] = q[i]
  BY WithoutElement DEF NonNulls
<1> HIDE DEF w
<1>3. \A j \in 1..Len(w) : w[j] \in M
  BY <1>2
<1>4. w \in [1..Len(w) -> M] /\ Len(w) \in Nat
  BY <1>1, <1>3
<1>. QED  BY <1>4 DEF w

(* A caller's map as a row: its keys, and a value for each of them.        *)
LEMMA CallerMapFacts ==
    ASSUME NEW m \in CallerMaps
    PROVE  /\ DOMAIN m \subseteq Keys
           /\ \A k \in DOMAIN m : m[k] \in Seq(Values) /\ Len(m[k]) >= 1
           /\ FirstValues(m) \in MapSet /\ FirstValues(m) # Null
           /\ DOMAIN FirstValues(m) = DOMAIN m
           /\ \A k \in DOMAIN m : FirstValues(m)[k] = m[k][1]
<1>1. PICK n \in 1..MaxRows : m \in MapsAt(n) \ {Null}
  BY DEF CallerMaps
<1>2. /\ DOMAIN m \subseteq Keys
      /\ FirstValues(m) # Null
      /\ \A k \in DOMAIN m :
              /\ m[k] \in Seq({m[k][i] : i \in DOMAIN m[k]})
              /\ m[k] # <<>>
  BY <1>1, FlatMapAssumption
<1>3. ASSUME NEW k \in DOMAIN m PROVE m[k] \in Seq(Values) /\ Len(m[k]) >= 1
  <2> DEFINE W == {m[k][i] : i \in DOMAIN m[k]}
             v == m[k]
  <2>1. v \in Seq(W) /\ v # <<>>
    BY <1>2
  <2>2. W \subseteq Values
    <3>1. W \in {{m[j][i] : i \in DOMAIN m[j]} : j \in DOMAIN m}
      OBVIOUS
    <3>2. W \subseteq UNION {{m[j][i] : i \in DOMAIN m[j]} : j \in DOMAIN m}
      BY <3>1
    <3>3. UNION {{m[j][i] : i \in DOMAIN m[j]} : j \in DOMAIN m} \in
            {UNION {{map[j][i] : i \in DOMAIN map[j]} : j \in DOMAIN map} : map \in CallerMaps}
      OBVIOUS
    <3> QED  BY <3>2, <3>3 DEF Values
  <2> HIDE DEF W, v
  <2>3. v \in Seq(Values) /\ Len(v) >= 1
    BY <2>1, <2>2
  <2> QED  BY <2>3 DEF v
<1>4. /\ DOMAIN FirstValues(m) = DOMAIN m
      /\ \A k \in DOMAIN m : FirstValues(m)[k] = m[k][1]
  BY DEF FirstValues
<1>5. FirstValues(m) \in [DOMAIN m -> Values]
  <2>1. ASSUME NEW k \in DOMAIN m PROVE m[k][1] \in Values
    <3> DEFINE v == m[k]
    <3>1. v \in Seq(Values) /\ Len(v) >= 1
      BY <1>3
    <3> HIDE DEF v
    <3>2. v[1] \in Values
      BY <3>1
    <3> QED  BY <3>2 DEF v
  <2> QED  BY <2>1 DEF FirstValues
<1>6. FirstValues(m) \in MapSet
  BY <1>2, <1>5 DEF MapSet
<1>. QED  BY <1>2, <1>3, <1>4, <1>6

(* The rows the maps of a batch stand for.                                 *)
RowsFor(batch) ==
    [i \in DOMAIN batch |->
        IF batch[i] = Null THEN Null ELSE FirstValues(batch[i])]

(* The rows a batch of callers' maps stands for.                           *)
LEMMA CallerRows ==
    ASSUME NEW batch \in Seq({Null} \cup CallerMaps)
    PROVE  /\ RowsFor(batch) \in Seq(RowSet) /\ Len(RowsFor(batch)) = Len(batch)
           /\ \A i \in 1..Len(batch) :
                NotNull(RowsFor(batch)[i]) = NotNull(batch[i])
           /\ NonNulls(batch) \in Seq(CallerMaps)
           /\ NonNulls(RowsFor(batch)) \in Seq(MapSet)
           /\ Len(NonNulls(RowsFor(batch))) = Len(NonNulls(batch))
           /\ \A i \in 1..Len(NonNulls(batch)) :
                NonNulls(RowsFor(batch))[i] = FirstValues(NonNulls(batch)[i])
<1> DEFINE X == {Null} \cup CallerMaps
           g == [x \in X |-> IF x = Null THEN Null ELSE FirstValues(x)]
           more == RowsFor(batch)
           maps == NonNulls(batch)
           new == NonNulls(more)
<1>1. \A x \in X : g[x] = IF x = Null THEN Null ELSE FirstValues(x)
  OBVIOUS
<1>2. \A x \in X : x # Null => FirstValues(x) # Null /\ FirstValues(x) \in MapSet
  BY CallerMapFacts
<1>3. g \in [X -> RowSet]
  BY <1>2 DEF RowSet
<1>4. \A x \in X : g[x] = Null <=> x = Null
  BY <1>1, <1>2
<1>5. batch \in Seq(X) /\ Len(batch) \in Nat /\ DOMAIN batch = 1..Len(batch)
  OBVIOUS
<1>6. \A i \in 1..Len(batch) : batch[i] \in X
  BY <1>5
<1> HIDE DEF g, X
<1>7. more = Mapped(g, batch)
  BY <1>1, <1>5, <1>6 DEF RowsFor, Mapped
<1>8. more \in [1..Len(batch) -> RowSet] /\ \A i \in 1..Len(batch) : more[i] = g[batch[i]]
  BY <1>3, <1>5, <1>6, <1>7 DEF Mapped
<1>9. \A i \in 1..Len(batch) : NotNull(more[i]) = NotNull(batch[i])
  <2> HIDE DEF more
  <2> QED  BY <1>4, <1>6, <1>8 DEF NotNull
<1>10. more \in Seq(RowSet) /\ Len(more) = Len(batch)
  <2> HIDE DEF more
  <2> QED  BY <1>5, <1>8
<1>11. maps \in Seq(CallerMaps)
  BY <1>5, NonNullsIn DEF X
<1>12. new \in Seq(MapSet)
  <2> HIDE DEF more
  <2> QED  BY <1>10, NonNullsIn DEF RowSet
<1>13. new = Mapped(g, maps)
  <2> HIDE DEF more
  <2> QED  BY <1>3, <1>4, <1>5, <1>7, WithoutMap DEF NonNulls
<1> HIDE DEF more, maps, new
<1>14. /\ DOMAIN maps = 1..Len(maps)
       /\ \A i \in 1..Len(maps) : maps[i] \in CallerMaps /\ Len(maps) \in Nat
  BY <1>11
<1>15. CallerMaps \subseteq X \ {Null}
  BY DEF X, CallerMaps
<1>16. DOMAIN new = 1..Len(maps) /\ \A i \in 1..Len(maps) : new[i] = FirstValues(maps[i])
  BY <1>1, <1>13, <1>14, <1>15 DEF Mapped
<1>17. Len(new) = Len(maps)
  BY <1>11, <1>12, <1>16
<1>. QED  BY <1>9, <1>10, <1>11, <1>12, <1>16, <1>17 DEF more, maps, new

(* A batch has fewer maps than rows unless none is null.                   *)
LEMMA CountNulls ==
    ASSUME NEW S, NEW q \in Seq(S)
    PROVE  /\ Len(NonNulls(q)) <= Len(q) /\ Len(NonNulls(q)) \in Nat
           /\ Len(NonNulls(q)) < Len(q) \/ NoNulls(q)
<1>1. Len(NonNulls(q)) = Rank(Present(q, Null), Len(q))
  BY WithoutRank DEF NonNulls
<1>2. Len(q) \in Nat /\ DOMAIN q = 1..Len(q)
  OBVIOUS
<1>3. \A i \in 1..Len(q) : Present(q, Null)[i] = (q[i] # Null)
  BY PresentType
<1>4. /\ Rank(Present(q, Null), Len(q)) \in 0..Len(q)
      /\ Rank(Present(q, Null), Len(q)) = Len(q) =>
           \A i \in 1..Len(q) : Present(q, Null)[i]
  BY <1>2, RankFull
<1>5. Rank(Present(q, Null), Len(q)) = Len(q) => NoNulls(q)
  BY <1>2, <1>3, <1>4 DEF NoNulls
<1>. QED  BY <1>1, <1>2, <1>4, <1>5

(* To the stream of nulls rows are what is null of them.                   *)
LEMMA SameNulls ==
    ASSUME NEW d, NEW may, NEW p, NEW q, DOMAIN p = DOMAIN q, Len(p) = Len(q),
           \A i \in DOMAIN q : NotNull(p[i]) = NotNull(q[i])
    PROVE  WriteField(d, p, may) = WriteField(d, q, may)
<1>1. [i \in DOMAIN p |-> NotNull(p[i])] = [i \in DOMAIN q |-> NotNull(q[i])]
  BY Zenon
<1>. QED  BY <1>1 DEF WriteField

(* What a key that nobody doubles brings to its streams.                   *)
LEMMA CallerValues ==
    ASSUME NEW batch \in Seq({Null} \cup CallerMaps), NEW k,
           \A i \in DOMAIN NonNulls(batch) :
             k \in DOMAIN NonNulls(batch)[i] => ~(Len(NonNulls(batch)[i][k]) > 1)
    PROVE  LET maps == NonNulls(batch)
           IN  FlattenSeq([i \in DOMAIN maps |->
                             IF k \in DOMAIN maps[i] THEN maps[i][k] ELSE <<>>])
                 = ValuesOf(NonNulls(RowsFor(batch)), k)
<1> DEFINE maps == NonNulls(batch)
           new == NonNulls(RowsFor(batch))
<1>1. /\ maps \in Seq(CallerMaps) /\ new \in Seq(MapSet) /\ Len(new) = Len(maps)
      /\ \A i \in 1..Len(maps) : new[i] = FirstValues(maps[i])
  BY CallerRows
<1>2. \A i \in DOMAIN maps : k \in DOMAIN maps[i] => ~(Len(maps[i][k]) > 1)
  OBVIOUS
<1> HIDE DEF maps, new
<1>3. /\ DOMAIN maps = 1..Len(maps) /\ DOMAIN new = 1..Len(maps)
      /\ \A i \in 1..Len(maps) : maps[i] \in CallerMaps
  BY <1>1
<1>4. ASSUME NEW i \in 1..Len(maps)
      PROVE  (IF k \in DOMAIN maps[i] THEN maps[i][k] ELSE <<>>) =
               (IF k \in DOMAIN new[i] THEN <<new[i][k]>> ELSE <<>>)
  <2> DEFINE m == maps[i]
  <2>1. /\ m \in CallerMaps /\ new[i] = FirstValues(m)
        /\ k \in DOMAIN m => ~(Len(m[k]) > 1)
    BY <1>1, <1>2, <1>3
  <2> HIDE DEF m
  <2>2. /\ DOMAIN new[i] = DOMAIN m
        /\ k \in DOMAIN m => /\ m[k] \in Seq(Values) /\ Len(m[k]) >= 1
                             /\ new[i][k] = m[k][1]
    BY <2>1, CallerMapFacts
  <2>3. CASE k \in DOMAIN m
    <3> DEFINE v == m[k]
    <3>1. v \in Seq(Values) /\ Len(v) >= 1 /\ ~(Len(v) > 1) /\ new[i][k] = v[1]
      BY <2>1, <2>2, <2>3
    <3> HIDE DEF v
    <3>2. v = <<v[1]>>
      <4>1. Len(v) \in Nat /\ v \in Seq(Values)
        BY <3>1
      <4> DEFINE l == Len(v)
      <4>2. l \in Nat /\ l >= 1 /\ ~(l > 1)
        BY <3>1, <4>1
      <4> HIDE DEF l
      <4>3. l = 1
        BY ONLY <4>2
      <4>4. Len(v) = 1 /\ v \in Seq(Values)
        BY <4>1, <4>3 DEF l
      <4> QED  BY ONLY <4>4
    <3>3. v = <<new[i][k]>>
      BY <3>1, <3>2
    <3> QED  BY <2>2, <2>3, <3>3 DEF v, m
  <2>4. CASE k \notin DOMAIN m
    BY <2>2, <2>4 DEF m
  <2> QED  BY <2>3, <2>4
<1>5. [i \in DOMAIN maps |-> IF k \in DOMAIN maps[i] THEN maps[i][k] ELSE <<>>] =
        CellsOf(new, k)
  BY <1>3, <1>4 DEF CellsOf
<1>. QED  BY <1>5 DEF ValuesOf, maps, new

(* The in-map flags that a batch brings to a key.                          *)
LEMMA CallerFlags ==
    ASSUME NEW batch \in Seq({Null} \cup CallerMaps), NEW k
    PROVE  LET maps == NonNulls(batch)
           IN  [i \in DOMAIN maps |-> k \in DOMAIN maps[i]]
                 = Has(NonNulls(RowsFor(batch)), k)
<1> DEFINE maps == NonNulls(batch)
           new == NonNulls(RowsFor(batch))
<1>1. /\ maps \in Seq(CallerMaps) /\ new \in Seq(MapSet) /\ Len(new) = Len(maps)
      /\ \A i \in 1..Len(maps) : new[i] = FirstValues(maps[i])
  BY CallerRows
<1> HIDE DEF maps, new
<1>2. /\ DOMAIN maps = 1..Len(maps) /\ DOMAIN new = DOMAIN maps
      /\ \A i \in 1..Len(maps) : maps[i] \in CallerMaps
  BY <1>1
<1>3. \A i \in DOMAIN maps : DOMAIN new[i] = DOMAIN maps[i]
  BY <1>1, <1>2, CallerMapFacts
<1>4. \A i \in DOMAIN maps : (k \in DOMAIN maps[i]) = (k \in DOMAIN new[i])
  BY <1>3
<1>5. [i \in DOMAIN maps |-> k \in DOMAIN maps[i]] = [i \in DOMAIN new |-> k \in DOMAIN new[i]]
  BY <1>2, <1>4, Zenon
<1>. QED  BY <1>5 DEF Has, maps, new

-----------------------------------------------------------------------------
(* The streams of a flat map                                               *)

(* The streams of a flat map are different from each other.                *)
LEMMA StreamNames ==
    /\ Nulls \in Streams
    /\ \A k \in Keys : /\ InMap(k) \in Streams /\ Value(k) \in Streams
                       /\ InMap(k) # Nulls /\ Value(k) # Nulls
                       /\ InMap(k)[2] = k /\ Value(k)[2] = k
                       /\ Value(k) # InMap(k)
<1>1. \A k \in Keys : InMap(k)[2] = k /\ Value(k)[2] = k
  BY DEF InMap, Value
<1>2. \A k \in Keys : InMap(k)[1] = "inMap" /\ Value(k)[1] = "value" /\ Nulls[1] = "nulls"
  BY DEF InMap, Value, Nulls
<1>3. Nulls \in Streams /\ \A k \in Keys : InMap(k) \in Streams /\ Value(k) \in Streams
  BY DEF Streams
<1>. QED  BY <1>1, <1>2, <1>3

(* What a function over the streams that is defined by cases is of each.   *)
LEMMA WrittenFacts ==
    ASSUME NEW batch, NEW may, NEW fields, NEW k \in Keys
    PROVE  LET w == Written(batch, may, fields)
           IN  /\ w[Nulls] = WriteField(data[Nulls], batch, may)
               /\ w[InMap(k)] = IF k \in DOMAIN fields THEN fields[k].InMap
                                ELSE data[InMap(k)]
               /\ w[Value(k)] = IF k \in DOMAIN fields THEN fields[k].Value
                                ELSE data[Value(k)]
<1> DEFINE w == Written(batch, may, fields)
<1>1. w[Nulls] = WriteField(data[Nulls], batch, may)
  BY StreamNames DEF Written
<1> DEFINE s == InMap(k)
           t == Value(k)
<1>2. s \in Streams /\ s # Nulls /\ s[2] = k
  BY StreamNames
<1>3. t \in Streams /\ t # Nulls /\ t[2] = k /\ t # InMap(k)
  BY StreamNames
<1> HIDE DEF t
<1>4. w[t] = IF k \in DOMAIN fields THEN fields[k].Value ELSE data[t]
  BY <1>3 DEF Written
<1>5. s = InMap(k)
  OBVIOUS
<1> HIDE DEF s
<1>6. w[s] = IF k \in DOMAIN fields THEN fields[k].InMap ELSE data[s]
  BY <1>2, <1>5 DEF Written
<1>. QED  BY <1>1, <1>4, <1>6 DEF s, t

(* The in-map stream, which has flags and no nulls, has taken `flags`.     *)
FlagsHold(d, content, flags) ==
    /\ d.values \in Seq(BOOLEAN) /\ d = Data(<<>>, FALSE, 0, d.values)
    /\ content \in Seq(ChunkSet(FALSE, BOOLEAN))
    /\ content # <<>> => StreamRows(content) # <<>>
    /\ flags = StreamRows(content) \o d.values

(* Only the values of the data of an in-map stream ever change.            *)
LEMMA FlagsData ==
    ASSUME NEW v, NEW x
    PROVE  [Data(<<>>, FALSE, 0, v) EXCEPT !.values = x] = Data(<<>>, FALSE, 0, x)
<1> DEFINE nn == <<>>
           h == FALSE
           z == 0
<1> HIDE DEF nn, h, z
<1>1. [Data(nn, h, z, v) EXCEPT !.values = x] = Data(nn, h, z, x)
  BY DEF Data
<1>. QED  BY <1>1, Zenon DEF nn, h, z

(* What an in-map stream buffers, as a chunk.                              *)
LEMMA FlagsChunk ==
    ASSUME NEW v \in Seq(BOOLEAN)
    PROVE  /\ Chunk(FALSE, Data(<<>>, FALSE, 0, v)) \in ChunkSet(FALSE, BOOLEAN)
           /\ ChunkRows(Chunk(FALSE, Data(<<>>, FALSE, 0, v))) = v
<1> DEFINE ch == Chunk(FALSE, Data(<<>>, FALSE, 0, v))
<1>1. ch = [nullable |-> FALSE, nonNulls |-> <<>>, values |-> v]
  BY DEF Chunk, Data
<1> HIDE DEF ch
<1>2. ChunkRows(ch) = v
  BY <1>1 DEF ChunkRows
<1>3. ch \in [nullable : BOOLEAN, nonNulls : Seq(BOOLEAN), values : Seq(BOOLEAN)]
  BY <1>1
<1>4. ch.nullable = FALSE
  BY <1>1
<1>5. ch \in ChunkSet(FALSE, BOOLEAN)
  BY <1>2, <1>3, <1>4 DEF ChunkSet, Cell
<1>. QED  BY <1>2, <1>5 DEF ch

(* The flags of an in-map stream are Booleans, whichever part is flushed.  *)
LEMMA FlagsType ==
    ASSUME NEW d, NEW content, NEW flags, FlagsHold(d, content, flags)
    PROVE  StreamRows(content) \in Seq(BOOLEAN) /\ flags \in Seq(BOOLEAN)
<1> DEFINE c == [i \in DOMAIN content |-> ChunkRows(content[i])]
           r == StreamRows(content)
<1>1. content \in Seq(ChunkSet(FALSE, BOOLEAN))
  BY DEF FlagsHold
<1>2. \A ch \in ChunkSet(FALSE, BOOLEAN) : ChunkRows(ch) \in Seq(BOOLEAN)
  BY DEF ChunkSet, Cell
<1>3. \A i \in DOMAIN content : content[i] \in ChunkSet(FALSE, BOOLEAN)
  <2> DEFINE X == ChunkSet(FALSE, BOOLEAN)
  <2> HIDE DEF X
  <2>1. content \in Seq(X)
    BY <1>1 DEF X
  <2>2. \A i \in DOMAIN content : content[i] \in X
    BY <2>1
  <2> QED  BY <2>2 DEF X
<1>4. DOMAIN content = 1..Len(content) /\ Len(content) \in Nat
  BY <1>1
<1>5. c \in [1..Len(content) -> Seq(BOOLEAN)]
  BY <1>2, <1>3, <1>4
<1>6. c \in Seq(Seq(BOOLEAN))
  <2> HIDE DEF c
  <2> QED  BY <1>4, <1>5
<1>7. r \in Seq(BOOLEAN)
  BY <1>6, FlattenType DEF StreamRows
<1> HIDE DEF r
<1>8. d.values \in Seq(BOOLEAN) /\ flags = r \o d.values
  BY DEF FlagsHold, r
<1>. QED  BY <1>7, <1>8 DEF r

(* A stream nothing was written to takes its first flags.                  *)
LEMMA FlagsStart ==
    ASSUME NEW f \in Seq(BOOLEAN)
    PROVE  /\ FlagsHold([EmptyData EXCEPT !.values = f], <<>>, f)
           /\ FlagsHold(EmptyData, <<>>, <<>>)
<1>1. ASSUME NEW g \in Seq(BOOLEAN) PROVE FlagsHold(Data(<<>>, FALSE, 0, g), <<>>, g)
  <2>1. <<>> \in Seq(ChunkSet(FALSE, BOOLEAN)) /\ <<>> \o g = g
    OBVIOUS
  <2>2. Data(<<>>, FALSE, 0, g).values = g
    BY DEF Data
  <2> QED  BY <2>1, <2>2, StreamRowsEmpty DEF FlagsHold
<1>2. /\ [EmptyData EXCEPT !.values = f] = Data(<<>>, FALSE, 0, f)
      /\ EmptyData = Data(<<>>, FALSE, 0, <<>>)
  <2>1. EmptyData = Data(<<>>, FALSE, 0, <<>>)
    BY DEF EmptyData, Data
  <2>2. [Data(<<>>, FALSE, 0, <<>>) EXCEPT !.values = f] = Data(<<>>, FALSE, 0, f)
    BY FlagsData, Zenon
  <2> QED  BY <2>1, <2>2
<1>3. <<>> \in Seq(BOOLEAN)
  OBVIOUS
<1>. QED  BY <1>1, <1>2, <1>3

(* More flags.                                                             *)
LEMMA FlagsWrite ==
    ASSUME NEW d, NEW content, NEW flags, FlagsHold(d, content, flags),
           NEW f \in Seq(BOOLEAN)
    PROVE  FlagsHold([d EXCEPT !.values = d.values \o f], content, flags \o f)
<1> DEFINE v == d.values
           r == StreamRows(content)
           e == Data(<<>>, FALSE, 0, v \o f)
<1>1. /\ v \in Seq(BOOLEAN) /\ d = Data(<<>>, FALSE, 0, v)
      /\ content \in Seq(ChunkSet(FALSE, BOOLEAN)) /\ flags = r \o v
      /\ content # <<>> => r # <<>>
  BY DEF FlagsHold
<1>2. r \in Seq(BOOLEAN)
  BY FlagsType
<1> HIDE DEF v, r
<1>3. [d EXCEPT !.values = v \o f] = e
  <2> DEFINE x == v \o f
  <2> HIDE DEF x
  <2>1. [Data(<<>>, FALSE, 0, v) EXCEPT !.values = x] = Data(<<>>, FALSE, 0, x)
    BY FlagsData, Zenon
  <2> QED  BY <1>1, <2>1 DEF x
<1>4. e.values = v \o f
  BY DEF Data
<1> HIDE DEF e
<1>5. v \o f \in Seq(BOOLEAN) /\ (r \o v) \o f = r \o (v \o f)
  BY <1>1, <1>2
<1>6. FlagsHold(e, content, flags \o f)
  BY <1>1, <1>4, <1>5 DEF FlagsHold, e, r
<1>. QED  BY <1>3, <1>6 DEF v

(* The flags become a chunk.                                               *)
LEMMA FlagsEncode ==
    ASSUME NEW d, NEW content, NEW flags, FlagsHold(d, content, flags), d.values # <<>>
    PROVE  /\ FlagsHold(EmptyData, Append(content, Chunk(FALSE, d)), flags)
           /\ StreamRows(Append(content, Chunk(FALSE, d))) = flags
<1> DEFINE v == d.values
           ch == Chunk(FALSE, d)
           more == Append(content, ch)
           X == ChunkSet(FALSE, BOOLEAN)
<1>1. /\ v \in Seq(BOOLEAN) /\ d = Data(<<>>, FALSE, 0, v)
      /\ content \in Seq(X) /\ flags = StreamRows(content) \o v /\ v # <<>>
  BY DEF FlagsHold
<1>2. flags \in Seq(BOOLEAN) /\ StreamRows(content) \in Seq(BOOLEAN)
  BY FlagsType
<1> HIDE DEF v
<1>3. ch \in X /\ ChunkRows(ch) = v
  BY <1>1, FlagsChunk
<1> HIDE DEF ch
<1>4. StreamRows(more) = StreamRows(content) \o ChunkRows(ch)
  BY <1>1, <1>3, StreamRowsAppend
<1>5. more \in Seq(X)
  <2> HIDE DEF X
  <2> QED  BY <1>1, <1>3
<1> HIDE DEF more
<1>6. flags \o <<>> = flags /\ <<>> \in Seq(BOOLEAN)
  BY <1>2
<1>7. EmptyData = Data(<<>>, FALSE, 0, <<>>) /\ EmptyData.values = <<>>
  BY DEF EmptyData, Data
<1>8. flags # <<>>
  <2> DEFINE r == StreamRows(content)
  <2> HIDE DEF r
  <2>1. r \in Seq(BOOLEAN) /\ flags = r \o v
    BY <1>1, <1>2 DEF r
  <2> QED  BY <1>1, <2>1
<1>9. FlagsHold(EmptyData, more, flags)
  BY <1>1, <1>3, <1>4, <1>5, <1>6, <1>7, <1>8 DEF FlagsHold
<1>. QED  BY <1>1, <1>3, <1>4, <1>9 DEF more, ch

(* No chunk without flags.                                                 *)
LEMMA FlagsDue ==
    ASSUME NEW d, NEW content, NEW flags, FlagsHold(d, content, flags),
           NEW last \in BOOLEAN, IsDue(FALSE, 1, d, content, last)
    PROVE  d.values # <<>>
<1> DEFINE min == IF last THEN 0 ELSE MinStreamChunkRawSize
<1>1. min \in Nat
  BY MinSizeAssumption
<1>2. d.nonNulls = <<>>
  BY DEF FlagsHold, Data
<1>3. Len(d.values) * 1 > min
  <2>1. ~(Len(d.nonNulls) > 0)
    BY <1>2
  <2> QED  BY <2>1 DEF IsDue
<1> HIDE DEF min
<1>4. SUFFICES ASSUME d.values = <<>> PROVE FALSE
  OBVIOUS
<1>5. Len(d.values) = 0
  BY <1>4
<1>. QED  BY <1>1, <1>3, <1>5

(* The last chunk of a stripe: no flag stays behind.                       *)
LEMMA FlagsEnd ==
    ASSUME NEW d, NEW content, NEW flags, FlagsHold(d, content, flags)
    PROVE  StreamRows(IF IsDue(FALSE, 1, d, content, TRUE)
                      THEN Append(content, Chunk(FALSE, d)) ELSE content) = flags
<1>1. CASE IsDue(FALSE, 1, d, content, TRUE)
  BY <1>1, FlagsDue, FlagsEncode
<1>2. CASE ~IsDue(FALSE, 1, d, content, TRUE)
  <2> DEFINE v == d.values
             r == StreamRows(content)
  <2>1. v \in Seq(BOOLEAN) /\ flags = r \o v /\ r \in Seq(BOOLEAN)
    BY FlagsType DEF FlagsHold
  <2>2. ~(Len(v) * 1 > 0)
    BY <1>2 DEF IsDue
  <2> HIDE DEF v, r
  <2>3. Len(v) = 0
    BY <2>1, <2>2
  <2>4. v = <<>> /\ r \o <<>> = r
    BY <2>1, <2>3
  <2> QED  BY <1>2, <2>1, <2>4 DEF r
<1>. QED  BY <1>1, <1>2

-----------------------------------------------------------------------------
(* The invariant of the writer                                             *)

(* The streams of a key in use have taken its part of the maps.  The       *)
(* in-map stream of a key of flattened maps stays empty as long as no map  *)
(* of the stripe has the key.                                              *)
KeyHeld(k, ds, chs, current, maps) ==
    /\ \E flags \in Seq(BOOLEAN) :
         /\ FlagsHold(ds[InMap(k)], chs[InMap(k)], flags)
         /\ \/ flags = Has(maps, k) /\ (k \in current \/ AllHave(maps, k))
            \/ flags = <<>> /\ NoneHas(maps, k) /\ k \notin current
    /\ StreamHolds(FALSE, Values, ds[Value(k)], chs[Value(k)], ValuesOf(maps, k))

(* A key that is not in use has no part in the stripe.                     *)
Untouched(k, ds, chs, maps) ==
    /\ ds[InMap(k)] = EmptyData /\ chs[InMap(k)] = <<>>
    /\ ds[Value(k)] = EmptyData /\ chs[Value(k)] = <<>>
    /\ NoneHas(maps, k)

(* Maps and flattened maps do not mix.                                     *)
WriterState ==
    {w \in [current : SUBSET Keys, all : SUBSET Keys, passthrough : SUBSET Keys,
            count : Nat] :
       w.current \subseteq w.all /\ (w.all = {} \/ w.passthrough = {})}

Used(w) == w.current \cup w.passthrough

StripeHeld(rs, ds, chs, w, dam) ==
    /\ rs \in Seq(RowSet)
    /\ w \in WriterState
    /\ w.passthrough = {} => w.count = Len(NonNulls(rs))
    /\ dam \subseteq Used(w)
    /\ StreamHolds(TRUE, RowSet, ds[Nulls], chs[Nulls], rs)
    /\ \A k \in Keys \ Used(w) : Untouched(k, ds, chs, NonNulls(rs))
    /\ \A k \in Used(w) \ dam : KeyHeld(k, ds, chs, w.current, NonNulls(rs))

WriterInv ==
    ~reading /\ ~failed => StripeHeld(rows, data, streams, writer, damaged)

(* Without maps no key has a flag or a value.                              *)
LEMMA NoMaps ==
    ASSUME NEW k
    PROVE  /\ NonNulls(<<>>) = <<>> /\ Has(<<>>, k) = <<>> /\ ValuesOf(<<>>, k) = <<>>
           /\ AllHave(<<>>, k) /\ NoneHas(<<>>, k)
<1>1. NonNulls(<<>>) = <<>>
  BY WithoutEmpty DEF NonNulls
<1>2. Has(<<>>, k) = <<>>
  BY DEF Has
<1>3. CellsOf(<<>>, k) = <<>>
  BY DEF CellsOf
<1>4. AllHave(<<>>, k) /\ NoneHas(<<>>, k)
  BY DEF AllHave, NoneHas
<1>. QED  BY <1>1, <1>2, <1>3, <1>4, FlattenEmpty DEF ValuesOf

(* Before the first row of a stripe.                                       *)
LEMMA EmptyStripe ==
    ASSUME NEW ds, NEW chs, \A s \in Streams : ds[s] = EmptyData /\ chs[s] = <<>>,
           NEW w \in WriterState, w.count = 0
    PROVE  StripeHeld(<<>>, ds, chs, w, {})
<1>1. \A k \in Keys : /\ ds[InMap(k)] = EmptyData /\ chs[InMap(k)] = <<>>
                      /\ ds[Value(k)] = EmptyData /\ chs[Value(k)] = <<>>
  BY StreamNames
<1>2. ds[Nulls] = EmptyData /\ chs[Nulls] = <<>>
  BY StreamNames
<1>3. NonNulls(<<>>) = <<>> /\ Len(<<>>) = 0 /\ <<>> \in Seq(RowSet)
  BY NoMaps
<1>4. StreamHolds(TRUE, RowSet, EmptyData, <<>>, <<>>)
  BY HeldEmpty
<1>5. ASSUME NEW k \in Keys PROVE Untouched(k, ds, chs, <<>>)
  BY <1>1, NoMaps DEF Untouched
<1>6. ASSUME NEW k \in Keys PROVE KeyHeld(k, ds, chs, w.current, <<>>)
  <2>1. <<>> \in Seq(BOOLEAN)
    OBVIOUS
  <2>2. FlagsHold(EmptyData, <<>>, <<>>)
    BY <2>1, FlagsStart
  <2>3. StreamHolds(FALSE, Values, EmptyData, <<>>, <<>>)
    BY HeldEmpty
  <2> QED  BY <1>1, <2>1, <2>2, <2>3, NoMaps DEF KeyHeld
<1>7. Used(w) \subseteq Keys
  BY DEF Used, WriterState
<1>. QED  BY <1>2, <1>3, <1>4, <1>5, <1>6, <1>7 DEF StripeHeld

(* The value stream takes what maps bring.                                 *)
LEMMA ValuesGrow ==
    ASSUME NEW maps \in Seq(MapSet), NEW new \in Seq(MapSet), NEW k, NEW d, NEW content,
           StreamHolds(FALSE, Values, d, content, ValuesOf(maps, k)),
           NEW may \in BOOLEAN, may \/ NoNulls(ValuesOf(new, k))
    PROVE  StreamHolds(FALSE, Values,
                       IF ValuesOf(new, k) = <<>> THEN d
                       ELSE WriteColumn(d, ValuesOf(new, k), may),
                       content, ValuesOf(maps \o new, k))
<1> DEFINE v == ValuesOf(maps, k)
           u == ValuesOf(new, k)
<1>1. v \in Seq(Values) /\ u \in Seq(Values) /\ ValuesOf(maps \o new, k) = v \o u
  BY ValuesFacts, ValuesConcat
<1>2. StreamHolds(FALSE, Values, d, content, v) /\ (may \/ NoNulls(u))
  OBVIOUS
<1> HIDE DEF v, u
<1>3. CASE u = <<>>
  <2>1. v \o u = v
    BY <1>1, <1>3
  <2> QED  BY <1>1, <1>2, <1>3, <2>1 DEF u
<1>4. CASE u # <<>>
  <2>1. StreamHolds(FALSE, Values,
             IF FALSE THEN WriteField(d, u, may) ELSE WriteColumn(d, u, may),
             content, v \o u)
    BY <1>1, <1>2, HeldWrite
  <2> QED  BY <1>1, <1>4, <2>1 DEF u
<1>. QED  BY <1>3, <1>4

(* The rows of a call of write, behind those before.                       *)
LEMMA RowsGrow ==
    ASSUME NEW rs \in Seq(RowSet), NEW more \in Seq(RowSet)
    PROVE  /\ rs \o more \in Seq(RowSet)
           /\ NonNulls(rs) \in Seq(MapSet) /\ NonNulls(more) \in Seq(MapSet)
           /\ NonNulls(rs \o more) = NonNulls(rs) \o NonNulls(more)
           /\ NonNulls(rs) \o NonNulls(more) \in Seq(MapSet)
           /\ Len(NonNulls(rs \o more)) = Len(NonNulls(rs)) + Len(NonNulls(more))
<1>1. NonNulls(rs) \in Seq(MapSet) /\ NonNulls(more) \in Seq(MapSet)
  BY NonNullsIn DEF RowSet
<1>2. NonNulls(rs \o more) = NonNulls(rs) \o NonNulls(more)
  BY WithoutConcat DEF NonNulls
<1>. QED  BY <1>1, <1>2, ConcatType

(* The stream of nulls takes them.                                         *)
LEMMA NullsGrow ==
    ASSUME NEW rs \in Seq(RowSet), NEW more \in Seq(RowSet), NEW d, NEW content,
           StreamHolds(TRUE, RowSet, d, content, rs)
    PROVE  StreamHolds(TRUE, RowSet, WriteField(d, more, Len(NonNulls(more)) < Len(more)),
                       content, rs \o more)
<1> DEFINE may == Len(NonNulls(more)) < Len(more)
<1>1. may \in BOOLEAN /\ (may \/ NoNulls(more))
  BY CountNulls
<1> HIDE DEF may
<1>2. StreamHolds(TRUE, RowSet,
           IF TRUE THEN WriteField(d, more, may) ELSE WriteColumn(d, more, may),
           content, rs \o more)
  BY <1>1, HeldWrite
<1>. QED  BY <1>2 DEF may

(* Which maps have a key, in two parts.                                    *)
LEMMA HaveConcat ==
    ASSUME NEW S, NEW a \in Seq(S), NEW b \in Seq(S), NEW k
    PROVE  /\ AllHave(a \o b, k) <=> AllHave(a, k) /\ AllHave(b, k)
           /\ NoneHas(a \o b, k) <=> NoneHas(a, k) /\ NoneHas(b, k)
<1> DEFINE w == a \o b
           n == Len(a)
           m == Len(b)
<1>1. /\ w \in Seq(S) /\ Len(w) = n + m /\ n \in Nat /\ m \in Nat
      /\ \A i \in 1..n : w[i] = a[i]
      /\ \A i \in 1..m : w[n + i] = b[i]
  BY ConcatElements
<1>2. DOMAIN a = 1..n /\ DOMAIN b = 1..m
  OBVIOUS
<1>3. DOMAIN w = 1..(n + m)
  BY <1>1
<1> HIDE DEF w, n, m
<1>4. \A j \in 1..n : \E i \in 1..(n + m) : w[i] = a[j]
  <2>1. \A j \in 1..n : j \in 1..(n + m)
    BY <1>1
  <2> QED  BY <1>1, <2>1
<1>5. \A j \in 1..m : \E i \in 1..(n + m) : w[i] = b[j]
  <2>1. \A j \in 1..m : n + j \in 1..(n + m)
    BY <1>1
  <2> QED  BY <1>1, <2>1
<1>6. ASSUME NEW i \in 1..(n + m), i \notin 1..n PROVE \E j \in 1..m : w[i] = b[j]
  <2>1. i - n \in 1..m /\ i = n + (i - n)
    BY <1>1, <1>6
  <2> QED  BY <1>1, <2>1
<1>7. AllHave(w, k) <=> AllHave(a, k) /\ AllHave(b, k)
  <2>1. ASSUME AllHave(w, k) PROVE AllHave(a, k) /\ AllHave(b, k)
    BY <1>2, <1>3, <1>4, <1>5, <2>1 DEF AllHave
  <2>2. ASSUME AllHave(a, k), AllHave(b, k) PROVE AllHave(w, k)
    BY <1>1, <1>2, <1>3, <1>6, <2>2 DEF AllHave
  <2> QED  BY <2>1, <2>2
<1>8. NoneHas(w, k) <=> NoneHas(a, k) /\ NoneHas(b, k)
  <2>1. ASSUME NoneHas(w, k) PROVE NoneHas(a, k) /\ NoneHas(b, k)
    BY <1>2, <1>3, <1>4, <1>5, <2>1 DEF NoneHas
  <2>2. ASSUME NoneHas(a, k), NoneHas(b, k) PROVE NoneHas(w, k)
    BY <1>1, <1>2, <1>3, <1>6, <2>2 DEF NoneHas
  <2> QED  BY <2>1, <2>2
<1>. QED  BY <1>7, <1>8 DEF w

-----------------------------------------------------------------------------
(* Calls of write                                                          *)

(* The parts of the invariant, while a stripe is being written.            *)
LEMMA HeldFields ==
    ASSUME WriterInv, ~reading, ~failed
    PROVE  /\ rows \in Seq(RowSet) /\ writer \in WriterState
           /\ writer.passthrough = {} => writer.count = Len(NonNulls(rows))
           /\ damaged \subseteq Used(writer)
           /\ StreamHolds(TRUE, RowSet, data[Nulls], streams[Nulls], rows)
           /\ \A k \in Keys \ Used(writer) : Untouched(k, data, streams, NonNulls(rows))
           /\ \A k \in Used(writer) \ damaged :
                KeyHeld(k, data, streams, writer.current, NonNulls(rows))
BY DEF WriterInv, StripeHeld

(* A key of the batch: its in-map stream is first filled up to the batch   *)
(* if the key is new, and `new` are the maps of the batch.                 *)
LEMMA IngestKey ==
    ASSUME WriterInv, ~reading, ~failed, writer.passthrough = {},
           NEW new \in Seq(MapSet), NEW k \in Keys \ damaged, NEW may \in BOOLEAN,
           may \/ NoNulls(ValuesOf(new, k)), NEW ds, NEW current, k \in current,
           LET w == WriteKey(k, Backfill(k), Has(new, k), ValuesOf(new, k), may)
           IN  ds[InMap(k)] = w.InMap /\ ds[Value(k)] = w.Value
    PROVE  KeyHeld(k, ds, streams, current, NonNulls(rows) \o new)
<1> DEFINE old == NonNulls(rows)
           all == old \o new
           d == data[InMap(k)]
           g == Has(new, k)
           h == Has(old, k)
           v == ValuesOf(new, k)
<1>1. old \in Seq(MapSet) /\ Len(old) = writer.count /\ Len(old) \in Nat
  <2>1. rows \in Seq(RowSet) /\ writer.count = Len(old)
    BY HeldFields
  <2> QED  BY <2>1, NonNullsIn DEF RowSet
<1>2. /\ g \in Seq(BOOLEAN) /\ h \in Seq(BOOLEAN) /\ Len(h) = Len(old)
      /\ \A i \in 1..Len(old) : h[i] = (k \in DOMAIN old[i])
      /\ Has(all, k) = h \o g
  BY <1>1, HasFacts, HasConcat
<1>3. /\ ds[InMap(k)] = [d EXCEPT !.values = Backfill(k) \o g]
      /\ ds[Value(k)] = IF v = <<>> THEN data[Value(k)] ELSE WriteColumn(data[Value(k)], v, may)
  BY DEF WriteKey
<1>4. k \in current => \A f \in Seq(BOOLEAN) :
        /\ FlagsHold(ds[InMap(k)], streams[InMap(k)], f) /\ f = Has(all, k)
        /\ StreamHolds(FALSE, Values, ds[Value(k)], streams[Value(k)], ValuesOf(all, k))
        => KeyHeld(k, ds, streams, current, all)
  BY DEF KeyHeld
<1>5. h \o g \in Seq(BOOLEAN)
  BY <1>2, ConcatType
<1>6. StreamHolds(FALSE, Values, data[Value(k)], streams[Value(k)], ValuesOf(old, k)) =>
        StreamHolds(FALSE, Values, ds[Value(k)], streams[Value(k)], ValuesOf(all, k))
  <2> DEFINE e == data[Value(k)]
             c == streams[Value(k)]
  <2>1. ds[Value(k)] = IF v = <<>> THEN e ELSE WriteColumn(e, v, may)
    BY <1>3
  <2>2. may \/ NoNulls(v)
    OBVIOUS
  <2> HIDE DEF e, c, old
  <2>3. StreamHolds(FALSE, Values, e, c, ValuesOf(old, k)) =>
          StreamHolds(FALSE, Values, IF v = <<>> THEN e ELSE WriteColumn(e, v, may), c,
                      ValuesOf(old \o new, k))
    BY <1>1, <2>2, ValuesGrow
  <2> HIDE DEF v
  <2> QED  BY <2>1, <2>3 DEF e, c
<1>7. CASE k \in writer.current
  <2>1. KeyHeld(k, data, streams, writer.current, old)
    BY <1>7, HeldFields DEF Used
  <2>2. FlagsHold(d, streams[InMap(k)], h)
    BY <1>7, <2>1 DEF KeyHeld
  <2>3. Backfill(k) = d.values
    BY <1>7 DEF Backfill
  <2>4. FlagsHold(ds[InMap(k)], streams[InMap(k)], h \o g)
    <3> HIDE DEF d, h, g
    <3> QED  BY <1>2, <1>3, <2>2, <2>3, FlagsWrite
  <2>5. StreamHolds(FALSE, Values, data[Value(k)], streams[Value(k)], ValuesOf(old, k))
    BY <2>1 DEF KeyHeld
  <2>6. StreamHolds(FALSE, Values, ds[Value(k)], streams[Value(k)], ValuesOf(all, k))
    BY <1>6, <2>5
  <2> QED  BY <1>2, <1>4, <1>5, <2>4, <2>6
<1>8. CASE k \notin writer.current
  <2>1. Untouched(k, data, streams, old)
    BY <1>8, HeldFields DEF Used
  <2>2. d = EmptyData /\ streams[InMap(k)] = <<>> /\ NoneHas(old, k)
    BY <2>1 DEF Untouched
  <2>3. Backfill(k) = h
    <3>1. d.values = <<>> /\ Len(<<>>) = 0
      BY <2>2 DEF EmptyData
    <3>2. \A i \in 1..Len(old) : h[i] = FALSE
      BY <1>1, <1>2, <2>2 DEF NoneHas
    <3>3. Backfill(k) = [i \in 1..writer.count |-> i <= Len(d.values) /\ d.values[i]]
      BY <1>8 DEF Backfill
    <3>4. \A i \in 1..Len(old) : (i <= Len(d.values) /\ d.values[i]) = FALSE
      BY <1>1, <3>1
    <3> HIDE DEF d, h, old
    <3>5. [i \in 1..Len(old) |-> i <= Len(d.values) /\ d.values[i]] = [i \in 1..Len(old) |-> FALSE]
      BY <3>4, Zenon
    <3>6. h = [i \in 1..Len(old) |-> FALSE]
      BY <1>1, <1>2, <3>2
    <3> QED  BY <1>1, <3>3, <3>5, <3>6
  <2>4. FlagsHold(ds[InMap(k)], streams[InMap(k)], h \o g)
    <3> HIDE DEF d, h, g
    <3>1. ds[InMap(k)] = [EmptyData EXCEPT !.values = h \o g]
      BY <1>3, <2>2, <2>3
    <3> QED  BY <1>5, <2>2, <3>1, FlagsStart
  <2>5. StreamHolds(FALSE, Values, data[Value(k)], streams[Value(k)], ValuesOf(old, k))
    <3>1. ValuesOf(old, k) = <<>>
      BY <1>1, <2>2, NoneHasFacts
    <3>2. data[Value(k)] = EmptyData /\ streams[Value(k)] = <<>>
      BY <2>1 DEF Untouched
    <3> QED  BY <3>1, <3>2, HeldEmpty
  <2>6. StreamHolds(FALSE, Values, ds[Value(k)], streams[Value(k)], ValuesOf(all, k))
    BY <1>6, <2>5
  <2> QED  BY <1>2, <1>4, <1>5, <2>4, <2>6
<1>. QED  BY <1>7, <1>8

(* ingestMap: a batch of map vectors, for all keys and the stream of       *)
(* nulls.                                                                  *)
LEMMA IngestMapStep ==
    ASSUME WriterInv, NEW batch \in Seq({Null} \cup CallerMaps), IngestMap(batch)
    PROVE  WriterInv'
<1> DEFINE maps == NonNulls(batch)
           keys == UNION {DOMAIN maps[i] : i \in DOMAIN maps}
           fields == IF maps = <<>> THEN {} ELSE writer.current \cup keys
           doubled == {k \in keys : \E i \in DOMAIN maps :
                         k \in DOMAIN maps[i] /\ Len(maps[i][k]) > 1}
           values(k) == FlattenSeq([i \in DOMAIN maps |->
                          IF k \in DOMAIN maps[i] THEN maps[i][k] ELSE <<>>])
           present(k) == [i \in DOMAIN maps |-> k \in DOMAIN maps[i]]
           nullValues == \E k \in keys : \E i \in DOMAIN values(k) :
                           values(k)[i] = Null
           throws == writer.passthrough # {} \/ \E k \in doubled : Backfill(k) # <<>>
           written == [k \in fields |->
                         WriteKey(k, Backfill(k), present(k), values(k), nullValues)]
           more == RowsFor(batch)
           new == NonNulls(more)
           old == NonNulls(rows)
<1>1. ~reading /\ ~failed
  BY DEF IngestMap, CanWrite
<1>2. CASE throws
  <2>1. Throw
    BY <1>2 DEF IngestMap
  <2> QED  BY <2>1 DEF Throw, WriterInv
<1>3. CASE ~throws
  <2>1. /\ data' = Written(batch, Len(maps) < Len(batch), written)
        /\ writer' = [writer EXCEPT !.current = @ \cup keys,
                                    !.all = @ \cup keys,
                                    !.count = @ + Len(maps)]
        /\ rows' = rows \o more
        /\ damaged' = damaged \cup doubled
        /\ UNCHANGED <<streams, failed, reading>>
    BY <1>3 DEF IngestMap, RowsFor
  <2>2. writer.passthrough = {}
    BY <1>3
  <2>3. /\ more \in Seq(RowSet) /\ Len(more) = Len(batch)
        /\ \A i \in 1..Len(batch) : NotNull(more[i]) = NotNull(batch[i])
        /\ maps \in Seq(CallerMaps) /\ new \in Seq(MapSet) /\ Len(new) = Len(maps)
        /\ \A i \in 1..Len(maps) : new[i] = FirstValues(maps[i])
    BY CallerRows
  <2>4. \A k : present(k) = Has(new, k)
    BY CallerFlags
  <2>5. \A k : k \notin doubled => values(k) = ValuesOf(new, k)
    <3>1. ASSUME NEW k, k \notin doubled PROVE values(k) = ValuesOf(new, k)
      <4>1. \A i \in DOMAIN maps : k \in DOMAIN maps[i] => ~(Len(maps[i][k]) > 1)
        BY <3>1
      <4> QED  BY <4>1, CallerValues
    <3> QED  BY <3>1
  <2>6. DOMAIN written = fields /\ \A k \in fields :
          written[k] = WriteKey(k, Backfill(k), present(k), values(k), nullValues)
    OBVIOUS
  <2>7. \A k : k \in keys <=> \E i \in 1..Len(maps) : k \in DOMAIN maps[i]
    <3>1. DOMAIN maps = 1..Len(maps)
      BY <2>3
    <3> QED  BY <3>1
  <2>8. nullValues \in BOOLEAN /\ \A k \in keys : nullValues \/ NoNulls(values(k))
    BY DEF NoNulls
  <2>9. fields = IF maps = <<>> THEN {} ELSE writer.current \cup keys
    OBVIOUS
  <2>10. doubled \subseteq keys
    OBVIOUS
  <2> HIDE DEF written, nullValues, values, present, doubled, fields, keys, more, new
  <2>11. \A i \in 1..Len(maps) : DOMAIN new[i] = DOMAIN maps[i] /\ DOMAIN maps[i] \subseteq Keys
    <3>1. \A i \in 1..Len(maps) : maps[i] \in CallerMaps
      BY <2>3
    <3> QED  BY <2>3, <3>1, CallerMapFacts
  <2> HIDE DEF maps
  <2>12. keys \subseteq Keys
    BY <2>7, <2>11
  <2>13. /\ rows \in Seq(RowSet) /\ writer \in WriterState /\ writer.count = Len(old)
         /\ damaged \subseteq Used(writer) /\ Used(writer) = writer.current
    BY <1>1, <2>2, HeldFields DEF Used
  <2>14. /\ writer'.current = writer.current \cup keys /\ writer'.all = writer.all \cup keys
         /\ writer'.count = writer.count + Len(maps) /\ writer'.passthrough = {}
         /\ writer' \in [current : SUBSET Keys, all : SUBSET Keys,
                         passthrough : SUBSET Keys, count : Nat]
    <3>1. writer \in [current : SUBSET Keys, all : SUBSET Keys,
                      passthrough : SUBSET Keys, count : Nat]
      BY <2>13 DEF WriterState
    <3>2. Len(maps) \in Nat
      BY <2>3
    <3> DEFINE n == Len(maps)
    <3> HIDE DEF n
    <3>3. writer' = [writer EXCEPT !.current = @ \cup keys, !.all = @ \cup keys,
                                   !.count = @ + n]
      BY <2>1 DEF n
    <3>4. /\ writer'.current = writer.current \cup keys /\ writer'.all = writer.all \cup keys
          /\ writer'.count = writer.count + n /\ writer'.passthrough = writer.passthrough
      BY <3>1, <3>3
    <3>5. /\ writer.current \cup keys \in SUBSET Keys /\ writer.all \cup keys \in SUBSET Keys
          /\ writer.count + n \in Nat
      BY <2>12, <3>1, <3>2 DEF n
    <3>6. writer' \in [current : SUBSET Keys, all : SUBSET Keys,
                       passthrough : SUBSET Keys, count : Nat]
      BY <3>1, <3>3, <3>5
    <3> QED  BY <2>2, <3>4, <3>6 DEF n
  <2>15. writer' \in WriterState /\ Used(writer') = writer.current \cup keys
    BY <2>13, <2>14 DEF WriterState, Used
  <2>16. /\ rows' \in Seq(RowSet) /\ old \in Seq(MapSet) /\ NonNulls(rows') = old \o new
         /\ Len(NonNulls(rows')) = Len(old) + Len(new)
    BY <2>1, <2>3, <2>13, RowsGrow DEF new
  <2>17. writer'.count = Len(NonNulls(rows'))
    BY <2>3, <2>13, <2>14, <2>16
  <2>18. damaged' \subseteq Used(writer')
    BY <2>1, <2>10, <2>13, <2>15
  <2>19. StreamHolds(TRUE, RowSet, data'[Nulls], streams'[Nulls], rows')
    <3>1. data'[Nulls] = WriteField(data[Nulls], batch, Len(maps) < Len(batch))
      BY <2>1, StreamNames DEF Written
    <3>2. DOMAIN more = DOMAIN batch /\ \A i \in DOMAIN batch : NotNull(more[i]) = NotNull(batch[i])
      BY <2>3
    <3>3. data'[Nulls] = WriteField(data[Nulls], more, Len(new) < Len(more))
      BY <2>3, <3>1, <3>2, SameNulls
    <3>4. StreamHolds(TRUE, RowSet, data[Nulls], streams[Nulls], rows)
      BY <1>1, HeldFields
    <3> QED  BY <2>1, <2>3, <2>13, <3>3, <3>4, NullsGrow DEF new
  <2>20. ASSUME NEW k \in Keys
         PROVE  /\ k \notin fields => /\ data'[InMap(k)] = data[InMap(k)]
                                      /\ data'[Value(k)] = data[Value(k)]
                /\ k \in fields => /\ data'[InMap(k)] = written[k].InMap
                                   /\ data'[Value(k)] = written[k].Value
    BY <2>1, <2>6, WrittenFacts
  <2>21. ASSUME NEW k \in Keys, k \notin keys PROVE NoneHas(new, k)
    <3>1. DOMAIN new = 1..Len(maps)
      BY <2>3
    <3> QED  BY <2>7, <2>11, <2>21, <3>1 DEF NoneHas
  <2>22. ASSUME NEW k \in Keys \ Used(writer')
         PROVE  Untouched(k, data', streams', NonNulls(rows'))
    <3>1. k \notin keys /\ k \notin writer.current /\ k \notin fields
      BY <2>9, <2>15
    <3>2. Untouched(k, data, streams, old)
      BY <1>1, <2>13, <3>1, HeldFields
    <3>3. NoneHas(old \o new, k)
      BY <2>3, <2>16, <2>21, <3>1, <3>2, HaveConcat DEF Untouched
    <3> QED  BY <2>1, <2>16, <2>20, <3>1, <3>2, <3>3 DEF Untouched
  <2>23. ASSUME NEW k \in Used(writer') \ damaged'
         PROVE  KeyHeld(k, data', streams', writer'.current, NonNulls(rows'))
    <3>1. k \in Keys \ damaged /\ k \notin doubled /\ k \in writer'.current
      BY <2>1, <2>12, <2>13, <2>14, <2>15, <2>23 DEF WriterState
    <3>2. CASE maps = <<>>
      <4>1. Len(maps) = 0 /\ keys = {} /\ fields = {}
        BY <2>7, <2>9, <3>2
      <4>2. new = <<>>
        BY <2>3, <4>1
      <4>3. old \o new = old
        BY <2>16, <4>2
      <4>4. k \in writer.current /\ writer'.current = writer.current
        BY <2>14, <3>1, <4>1
      <4>5. KeyHeld(k, data, streams, writer.current, old)
        BY <1>1, <2>13, <3>1, <4>4, HeldFields
      <4> QED  BY <2>1, <2>16, <2>20, <3>1, <4>1, <4>3, <4>4, <4>5 DEF KeyHeld
    <3>3. CASE maps # <<>>
      <4>1. k \in fields
        BY <2>9, <2>14, <3>1, <3>3
      <4>2. written[k] = WriteKey(k, Backfill(k), Has(new, k), ValuesOf(new, k), nullValues)
        BY <2>4, <2>5, <2>6, <3>1, <4>1
      <4>3. nullValues \/ NoNulls(ValuesOf(new, k))
        <5>1. CASE k \in keys
          BY <2>5, <2>8, <3>1, <5>1
        <5>2. CASE k \notin keys
          <6>1. ValuesOf(new, k) = <<>>
            BY <2>3, <2>21, <3>1, <5>2, NoneHasFacts
          <6> QED  BY <6>1 DEF NoNulls
        <5> QED  BY <5>1, <5>2
      <4>4. KeyHeld(k, data', streams, writer'.current, old \o new)
        <5>1. LET w == WriteKey(k, Backfill(k), Has(new, k), ValuesOf(new, k), nullValues)
              IN  data'[InMap(k)] = w.InMap /\ data'[Value(k)] = w.Value
          BY <2>20, <3>1, <4>1, <4>2
        <5> HIDE DEF old
        <5>2. KeyHeld(k, data', streams, writer'.current, NonNulls(rows) \o new)
          BY <1>1, <2>2, <2>3, <2>8, <3>1, <4>3, <5>1, IngestKey
        <5> QED  BY <5>2 DEF old
      <4> QED  BY <2>1, <2>16, <4>4
    <3> QED  BY <3>2, <3>3
  <2>24. StripeHeld(rows', data', streams', writer', damaged')
    BY <2>15, <2>16, <2>17, <2>18, <2>19, <2>22, <2>23 DEF StripeHeld
  <2> QED  BY <2>24 DEF WriterInv
<1>. QED  BY <1>2, <1>3

(* The keys that harm is done to: some maps have them, others do not.      *)
LEMMA LeftOutFacts ==
    ASSUME NEW rs \in Seq(RowSet), NEW k \in Keys
    PROVE  k \in LeftOut(rs) <=> ~AllHave(NonNulls(rs), k) /\ ~NoneHas(NonNulls(rs), k)
<1> DEFINE w == NonNulls(rs)
<1>1. \A j \in 1..Len(w) : \E i \in 1..Len(rs) : rs[i] # Null /\ w[j] = rs[i]
  BY WithoutElement DEF NonNulls
<1>2. \A i \in 1..Len(rs) : rs[i] # Null => \E j \in 1..Len(w) : w[j] = rs[i]
  BY WithoutRank DEF NonNulls
<1>3. w \in Seq(MapSet) /\ DOMAIN rs = 1..Len(rs)
  BY NonNullsIn DEF RowSet
<1>4. DOMAIN w = 1..Len(w)
  BY <1>3
<1> HIDE DEF w
<1>5. AllHave(w, k) <=> \A i \in DOMAIN rs : rs[i] # Null => k \in DOMAIN rs[i]
  BY <1>1, <1>2, <1>3, <1>4 DEF AllHave
<1>6. NoneHas(w, k) <=> \A i \in DOMAIN rs : rs[i] # Null => k \notin DOMAIN rs[i]
  BY <1>1, <1>2, <1>3, <1>4 DEF NoneHas
<1>7. k \in LeftOut(rs) <=> \E i, j \in DOMAIN rs : /\ rs[i] # Null /\ k \in DOMAIN rs[i]
                                                   /\ rs[j] # Null /\ k \notin DOMAIN rs[j]
  BY DEF LeftOut
<1>. QED  BY <1>5, <1>6, <1>7 DEF w

(* Flattened maps are rows, and every one has all columns.                 *)
LEMMA FlattenedRows ==
    ASSUME NEW columns \in SUBSET Keys, NEW batch \in Seq({Null} \cup [columns -> Values])
    PROVE  /\ batch \in Seq(RowSet) /\ NonNulls(batch) \in Seq([columns -> Values])
           /\ NonNulls(batch) \in Seq(MapSet)
           /\ \A i \in DOMAIN NonNulls(batch) : DOMAIN NonNulls(batch)[i] = columns
<1>1. [columns -> Values] \subseteq MapSet
  BY DEF MapSet
<1> DEFINE M == [columns -> Values]
           maps == NonNulls(batch)
<1>2. M \subseteq MapSet /\ {Null} \cup M \subseteq RowSet
  BY <1>1 DEF RowSet
<1>3. \A m \in M : DOMAIN m = columns
  OBVIOUS
<1>4. batch \in Seq({Null} \cup M)
  OBVIOUS
<1> HIDE DEF M
<1>5. maps \in Seq(M)
  BY <1>4, NonNullsIn
<1> DEFINE X == {Null} \cup M
<1>6. batch \in Seq(X) /\ X \subseteq RowSet
  BY <1>2, <1>4
<1> HIDE DEF maps, X
<1>7. maps \in Seq(MapSet) /\ \A i \in DOMAIN maps : DOMAIN maps[i] = columns
  BY <1>2, <1>3, <1>5
<1>8. batch \in Seq(RowSet)
  BY <1>6
<1>. QED  BY <1>5, <1>7, <1>8 DEF maps, M

(* No maps is what all of them having a key and none having it amounts to. *)
LEMMA AllAndNone ==
    ASSUME NEW maps \in Seq(MapSet), NEW k, AllHave(maps, k), NoneHas(maps, k)
    PROVE  maps = <<>> /\ Has(maps, k) = <<>>
<1>1. DOMAIN maps = 1..Len(maps) /\ Len(maps) \in Nat
  OBVIOUS
<1>2. 1 \notin DOMAIN maps
  BY DEF AllHave, NoneHas
<1>3. Len(maps) = 0
  BY <1>1, <1>2
<1>4. maps = <<>>
  BY <1>3
<1>. QED  BY <1>4, NoMaps

(* A column of a batch of flattened maps, which all of its maps have.      *)
LEMMA IngestColumn ==
    ASSUME NEW old \in Seq(MapSet), NEW new \in Seq(MapSet), NEW k \in Keys,
           AllHave(old, k), AllHave(new, k), NEW ds,
           \/ Untouched(k, data, streams, old)
           \/ KeyHeld(k, data, streams, {}, old),
           LET values == [i \in DOMAIN new |-> new[i][k]]
               w == WriteKey(k, data[InMap(k)].values, AllTrue(Len(new)), values,
                             \E i \in DOMAIN new : new[i][k] = Null)
           IN  ds[InMap(k)] = w.InMap /\ ds[Value(k)] = w.Value
    PROVE  KeyHeld(k, ds, streams, {}, old \o new)
<1> DEFINE d == data[InMap(k)]
           e == data[Value(k)]
           c == streams[Value(k)]
           h == Has(old, k)
           g == Has(new, k)
           v == ValuesOf(new, k)
           may == \E i \in DOMAIN new : new[i][k] = Null
<1>1. g = AllTrue(Len(new)) /\ v = [i \in DOMAIN new |-> new[i][k]]
  BY AllHaveFacts
<1>2. /\ ds[InMap(k)] = [d EXCEPT !.values = d.values \o g]
      /\ ds[Value(k)] = IF v = <<>> THEN e ELSE WriteColumn(e, v, may)
  BY <1>1 DEF WriteKey
<1>3. may \in BOOLEAN /\ (may \/ NoNulls(v))
  BY <1>1 DEF NoNulls
<1> HIDE DEF may
<1>4. /\ g \in Seq(BOOLEAN) /\ h \in Seq(BOOLEAN) /\ Has(old \o new, k) = h \o g
      /\ h \o g \in Seq(BOOLEAN)
  <2>1. g \in Seq(BOOLEAN) /\ h \in Seq(BOOLEAN)
    BY HasFacts
  <2> HIDE DEF g, h
  <2>2. h \o g \in Seq(BOOLEAN)
    BY <2>1, ConcatType
  <2> QED  BY <2>1, <2>2, HasConcat DEF g, h
<1>5. /\ FlagsHold(d, streams[InMap(k)], h)
      /\ StreamHolds(FALSE, Values, e, c, ValuesOf(old, k))
  <2>1. CASE Untouched(k, data, streams, old)
    <3>1. NoneHas(old, k) /\ d = EmptyData /\ streams[InMap(k)] = <<>> /\ e = EmptyData /\ c = <<>>
      BY <2>1 DEF Untouched
    <3>2. h = <<>> /\ ValuesOf(old, k) = <<>>
      BY <3>1, AllAndNone, NoneHasFacts
    <3>3. <<>> \in Seq(BOOLEAN)
      OBVIOUS
    <3>4. FlagsHold(EmptyData, <<>>, <<>>) /\ StreamHolds(FALSE, Values, EmptyData, <<>>, <<>>)
      BY <3>3, FlagsStart, HeldEmpty
    <3> QED  BY <3>1, <3>2, <3>4
  <2>2. CASE KeyHeld(k, data, streams, {}, old)
    <3>1. PICK flags \in Seq(BOOLEAN) :
            /\ FlagsHold(d, streams[InMap(k)], flags)
            /\ flags = h \/ (flags = <<>> /\ NoneHas(old, k))
      BY <2>2 DEF KeyHeld
    <3>2. flags = h
      BY <3>1, AllAndNone
    <3> QED  BY <2>2, <3>1, <3>2 DEF KeyHeld
  <2> QED  BY <2>1, <2>2
<1>6. FlagsHold(ds[InMap(k)], streams[InMap(k)], h \o g)
  <2> DEFINE f == streams[InMap(k)]
  <2> HIDE DEF d, h, g, f
  <2>1. FlagsHold(d, f, h)
    BY <1>5 DEF f
  <2>2. FlagsHold([d EXCEPT !.values = d.values \o g], f, h \o g)
    BY <1>4, <2>1, FlagsWrite
  <2> QED  BY <1>2, <2>2 DEF f
<1>7. StreamHolds(FALSE, Values, ds[Value(k)], c, ValuesOf(old \o new, k))
  <2> HIDE DEF e, c
  <2>1. StreamHolds(FALSE, Values, IF v = <<>> THEN e ELSE WriteColumn(e, v, may), c,
                    ValuesOf(old \o new, k))
    BY <1>3, <1>5, ValuesGrow
  <2> HIDE DEF v
  <2> QED  BY <1>2, <2>1
<1>8. AllHave(old \o new, k)
  BY HaveConcat
<1>. QED  BY <1>4, <1>6, <1>7, <1>8 DEF KeyHeld

(* ingestFlattenedMap: a batch of row vectors.                             *)
LEMMA IngestFlattenedMapStep ==
    ASSUME WriterInv, NEW columns \in (SUBSET Keys) \ {{}},
           NEW batch \in Seq({Null} \cup [columns -> Values]),
           IngestFlattenedMap(columns, batch)
    PROVE  WriterInv'
<1> DEFINE maps == NonNulls(batch)
           values(k) == [i \in DOMAIN maps |-> maps[i][k]]
           hasNull(k) == \E i \in DOMAIN maps : maps[i][k] = Null
           throws == \/ writer.all # {}
                     \/ /\ maps # <<>> /\ writer.passthrough # {}
                        /\ ~(columns \subseteq writer.passthrough)
           fields == IF maps = <<>> THEN {} ELSE columns
           written == [k \in fields |->
                         WriteKey(k, data[InMap(k)].values, AllTrue(Len(maps)), values(k),
                                  hasNull(k))]
           old == NonNulls(rows)
<1>1. ~reading /\ ~failed
  BY DEF IngestFlattenedMap, CanWrite
<1>2. CASE throws
  <2>1. Throw
    BY <1>2 DEF IngestFlattenedMap
  <2> QED  BY <2>1 DEF Throw, WriterInv
<1>3. CASE ~throws
  <2>1. /\ data' = Written(batch, Len(maps) < Len(batch), written)
        /\ writer' = [writer EXCEPT !.passthrough = @ \cup fields]
        /\ rows' = rows \o batch
        /\ damaged' = damaged \cup LeftOut(rows \o batch)
        /\ UNCHANGED <<streams, failed, reading>>
    <3>1. writer' = [writer EXCEPT !.passthrough = IF maps = <<>> THEN @ ELSE @ \cup columns]
      BY <1>3 DEF IngestFlattenedMap
    <3>2. (IF maps = <<>> THEN writer.passthrough ELSE writer.passthrough \cup columns)
            = writer.passthrough \cup fields
      OBVIOUS
    <3> QED  BY <1>3, <3>1, <3>2 DEF IngestFlattenedMap
  <2>2. /\ batch \in Seq(RowSet) /\ maps \in Seq(MapSet)
        /\ \A i \in DOMAIN maps : DOMAIN maps[i] = columns
    BY FlattenedRows
  <2>3. /\ rows \in Seq(RowSet) /\ writer \in WriterState /\ writer.all = {}
        /\ writer.current = {} /\ Used(writer) = writer.passthrough
        /\ damaged \subseteq writer.passthrough
    BY <1>1, <1>3, HeldFields DEF WriterState, Used
  <2>4. fields \subseteq Keys
    OBVIOUS
  <2>5. maps = <<>> => fields = {}
    OBVIOUS
  <2>6. maps # <<>> => fields = columns /\ columns # {} /\ ~(DOMAIN maps = {})
    BY <2>2
  <2>7. DOMAIN written = fields /\ \A k \in fields :
          written[k] = WriteKey(k, data[InMap(k)].values, AllTrue(Len(maps)), values(k), hasNull(k))
    OBVIOUS
  <2> HIDE DEF written, fields
  <2>8. /\ writer' \in WriterState /\ writer'.current = {}
        /\ writer'.passthrough = writer.passthrough \cup fields
        /\ writer'.count = writer.count /\ Used(writer') = writer.passthrough \cup fields
    <3>1. writer \in [current : SUBSET Keys, all : SUBSET Keys,
                      passthrough : SUBSET Keys, count : Nat]
      BY <2>3 DEF WriterState
    <3>2. /\ writer'.current = writer.current /\ writer'.all = writer.all
          /\ writer'.passthrough = writer.passthrough \cup fields /\ writer'.count = writer.count
      BY <2>1, <3>1
    <3>3. writer.passthrough \cup fields \in SUBSET Keys
      BY <2>4, <3>1
    <3>4. writer' \in [current : SUBSET Keys, all : SUBSET Keys,
                       passthrough : SUBSET Keys, count : Nat]
      BY <2>1, <3>1, <3>3
    <3> QED  BY <2>3, <3>2, <3>4 DEF WriterState, Used
  <2>9. /\ rows' \in Seq(RowSet) /\ old \in Seq(MapSet) /\ NonNulls(rows') = old \o maps
        /\ Len(NonNulls(rows')) = Len(old) + Len(maps)
    BY <2>1, <2>2, <2>3, RowsGrow
  <2>10. StreamHolds(TRUE, RowSet, data'[Nulls], streams'[Nulls], rows')
    <3>1. data'[Nulls] = WriteField(data[Nulls], batch, Len(maps) < Len(batch))
      BY <2>1, StreamNames DEF Written
    <3>2. StreamHolds(TRUE, RowSet, data[Nulls], streams[Nulls], rows)
      BY <1>1, HeldFields
    <3> DEFINE d == data[Nulls]
               c == streams[Nulls]
    <3> HIDE DEF d, c
    <3>3. StreamHolds(TRUE, RowSet, WriteField(d, batch, Len(maps) < Len(batch)), c, rows \o batch)
      BY <2>2, <2>3, <3>2, NullsGrow DEF d, c
    <3> QED  BY <2>1, <3>1, <3>3 DEF d, c
  <2>11. writer'.passthrough = {} => writer'.count = Len(NonNulls(rows'))
    <3> SUFFICES ASSUME writer'.passthrough = {} PROVE writer'.count = Len(NonNulls(rows'))
      OBVIOUS
    <3>1. writer.passthrough = {} /\ fields = {}
      BY <2>8
    <3>2. maps = <<>>
      BY <2>6, <3>1
    <3>3. writer.count = Len(old)
      BY <1>1, <3>1, HeldFields
    <3>4. Len(old) \in Nat /\ Len(maps) = 0
      BY <2>9, <3>2
    <3> QED  BY <2>8, <2>9, <3>3, <3>4
  <2>12. ASSUME NEW k \in Keys
         PROVE  /\ k \notin fields => /\ data'[InMap(k)] = data[InMap(k)]
                                      /\ data'[Value(k)] = data[Value(k)]
                /\ k \in fields => /\ data'[InMap(k)] = written[k].InMap
                                   /\ data'[Value(k)] = written[k].Value
    BY <2>1, <2>7, WrittenFacts
  <2>13. \A k : /\ k \in fields => AllHave(maps, k)
                /\ k \notin fields => NoneHas(maps, k)
    <3>1. maps = <<>> => \A k : NoneHas(maps, k)
      BY NoMaps
    <3>2. \A k : (k \in columns => AllHave(maps, k)) /\ (k \notin columns => NoneHas(maps, k))
      BY <2>2 DEF AllHave, NoneHas
    <3> QED  BY <2>5, <2>6, <3>1, <3>2
  <2>14. \A k \in Keys : AllHave(maps, k) /\ NoneHas(maps, k) => maps = <<>>
    BY <2>2, AllAndNone
  <2>15. \A k \in Keys :
           /\ AllHave(old \o maps, k) <=> AllHave(old, k) /\ AllHave(maps, k)
           /\ NoneHas(old \o maps, k) <=> NoneHas(old, k) /\ NoneHas(maps, k)
    BY <2>2, <2>9, HaveConcat
  <2>16. ASSUME NEW k \in Keys \ Used(writer')
         PROVE  Untouched(k, data', streams', NonNulls(rows'))
    <3>1. k \notin fields /\ Untouched(k, data, streams, old)
      BY <1>1, <2>3, <2>8, HeldFields
    <3>2. NoneHas(old \o maps, k)
      BY <2>13, <2>15, <3>1 DEF Untouched
    <3> QED  BY <2>1, <2>9, <2>12, <3>1, <3>2 DEF Untouched
  <2>17. \A k \in Keys : k \in LeftOut(rows \o batch) <=>
                           ~AllHave(old \o maps, k) /\ ~NoneHas(old \o maps, k)
    BY <2>1, <2>9, LeftOutFacts
  <2>18. damaged' \subseteq Used(writer')
    <3>1. LeftOut(rows \o batch) \subseteq Keys
      BY DEF LeftOut
    <3>2. \A k \in Keys \ Used(writer') : NoneHas(old \o maps, k)
      BY <2>9, <2>16 DEF Untouched
    <3> QED  BY <2>1, <2>3, <2>8, <2>17, <3>1, <3>2
  <2> HIDE DEF maps
  <2>19. ASSUME NEW k \in Used(writer') \ damaged'
         PROVE  KeyHeld(k, data', streams', writer'.current, NonNulls(rows'))
    <3>1. /\ k \in Keys /\ k \notin damaged
          /\ AllHave(old \o maps, k) \/ NoneHas(old \o maps, k)
      BY <2>1, <2>8, <2>17, <2>19 DEF WriterState
    <3>2. CASE k \in fields
      <4>1. AllHave(maps, k) /\ maps # <<>>
        BY <2>5, <2>13, <3>2
      <4>2. AllHave(old, k)
        BY <2>14, <2>15, <3>1, <4>1
      <4>3. \/ Untouched(k, data, streams, old)
            \/ KeyHeld(k, data, streams, {}, old)
        <5>1. CASE k \in Used(writer)
          BY <1>1, <2>3, <3>1, <5>1, HeldFields
        <5>2. CASE k \notin Used(writer)
          BY <1>1, <3>1, <5>2, HeldFields
        <5> QED  BY <5>1, <5>2
      <4>4. LET vs == [i \in DOMAIN maps |-> maps[i][k]]
                w == WriteKey(k, data[InMap(k)].values, AllTrue(Len(maps)), vs,
                              \E i \in DOMAIN maps : maps[i][k] = Null)
            IN  data'[InMap(k)] = w.InMap /\ data'[Value(k)] = w.Value
        BY <2>7, <2>12, <3>1, <3>2
      <4> HIDE DEF old
      <4>5. KeyHeld(k, data', streams, {}, old \o maps)
        BY <2>2, <2>9, <3>1, <4>1, <4>2, <4>3, <4>4, IngestColumn
      <4> QED  BY <2>1, <2>8, <2>9, <4>5
    <3>3. CASE k \notin fields
      <4>1. k \in Used(writer) \ damaged
        BY <2>3, <2>8, <3>1, <3>3
      <4>2. KeyHeld(k, data, streams, {}, old)
        BY <1>1, <2>3, <4>1, HeldFields
      <4>3. NoneHas(maps, k)
        BY <2>13, <3>3
      <4>4. CASE maps = <<>>
        <5>1. old \o maps = old
          BY <2>9, <4>4
        <5> QED  BY <2>1, <2>8, <2>9, <2>12, <3>1, <3>3, <4>2, <5>1 DEF KeyHeld
      <4>5. CASE maps # <<>>
        <5>1. NoneHas(old \o maps, k) /\ NoneHas(old, k)
          BY <2>14, <2>15, <3>1, <4>3, <4>5
        <5>2. PICK flags \in Seq(BOOLEAN) :
                /\ FlagsHold(data[InMap(k)], streams[InMap(k)], flags)
                /\ (flags = Has(old, k) /\ AllHave(old, k)) \/ flags = <<>>
          BY <4>2 DEF KeyHeld
        <5>3. flags = <<>>
          BY <2>9, <5>1, <5>2, AllAndNone
        <5>4. old \o maps \in Seq(MapSet)
          BY <2>2, <2>9, ConcatType
        <5>5. ValuesOf(old, k) = <<>> /\ ValuesOf(old \o maps, k) = <<>>
          BY <2>9, <5>1, <5>4, NoneHasFacts
        <5>6. StreamHolds(FALSE, Values, data[Value(k)], streams[Value(k)], ValuesOf(old, k))
          BY <4>2 DEF KeyHeld
        <5> QED  BY <2>1, <2>8, <2>9, <2>12, <3>1, <3>3, <5>1, <5>2, <5>3, <5>5, <5>6 DEF KeyHeld
      <4> QED  BY <4>4, <4>5
    <3> QED  BY <3>2, <3>3
  <2>20. StripeHeld(rows', data', streams', writer', damaged')
    BY <2>8, <2>9, <2>10, <2>11, <2>16, <2>18, <2>19 DEF StripeHeld
  <2> QED  BY <2>20 DEF WriterInv
<1>. QED  BY <1>2, <1>3

(* What callers pass, as sequences.                                        *)
LEMMA BatchTypes ==
    ASSUME WriterInv, NEW n \in Nat, NEW batch, CanWrite(batch)
    PROVE  /\ batch \in Batches(MapsAt, n) => batch \in Seq({Null} \cup CallerMaps)
           /\ \A columns \in SUBSET Keys :
                batch \in Batches(LAMBDA r : FlattenedAt(columns, r), n) =>
                  batch \in Seq({Null} \cup [columns -> Values])
<1>1. ~reading /\ ~failed
  BY DEF CanWrite
<1>2. rows \in Seq(RowSet)
  BY <1>1, HeldFields
<1> DEFINE r == Len(rows)
<1>3. r \in Nat /\ r + Len(batch) <= MaxRows /\ MaxRows \in Nat
  BY <1>2, FlatMapAssumption DEF CanWrite
<1> HIDE DEF r
<1>4. ASSUME DOMAIN batch = 1..n, batch = [i \in 1..n |-> batch[i]],
             NEW X, \A i \in 1..n : r + i \in 1..MaxRows => batch[i] \in X
      PROVE  batch \in Seq(X)
  <2>1. Len(batch) = n
    BY <1>4
  <2>2. \A i \in 1..n : r + i \in 1..MaxRows
    BY <1>3, <2>1
  <2>3. \A i \in 1..n : batch[i] \in X
    BY <1>4, <2>2
  <2>4. batch \in [1..n -> X]
    BY <1>4, <2>3
  <2> QED  BY <2>4
<1>5. ASSUME batch \in Batches(MapsAt, n) PROVE batch \in Seq({Null} \cup CallerMaps)
  <2>1. /\ batch \in [1..n -> UNION {MapsAt(Len(rows) + i) : i \in 1..n}]
        /\ \A i \in 1..n : batch[i] \in MapsAt(Len(rows) + i)
    BY <1>5 DEF Batches
  <2>2. DOMAIN batch = 1..n /\ batch = [i \in 1..n |-> batch[i]]
    BY <2>1
  <2>3. \A i \in 1..n : r + i \in 1..MaxRows => batch[i] \in {Null} \cup CallerMaps
    BY <2>1 DEF r, CallerMaps
  <2> QED  BY <1>4, <2>2, <2>3
<1>6. ASSUME NEW columns \in SUBSET Keys,
             batch \in Batches(LAMBDA m : FlattenedAt(columns, m), n)
      PROVE  batch \in Seq({Null} \cup [columns -> Values])
  <2>1. /\ batch \in [1..n -> UNION {FlattenedAt(columns, Len(rows) + i) : i \in 1..n}]
        /\ \A i \in 1..n : batch[i] \in FlattenedAt(columns, Len(rows) + i)
    BY <1>6 DEF Batches
  <2>2. DOMAIN batch = 1..n /\ batch = [i \in 1..n |-> batch[i]]
    BY <2>1
  <2>3. \A m \in 1..MaxRows : {m, Null} \subseteq Values
    BY DEF Values
  <2>4. \A m \in 1..MaxRows : FlattenedAt(columns, m) \subseteq {Null} \cup [columns -> Values]
    BY <2>3 DEF FlattenedAt
  <2>5. \A i \in 1..n : r + i \in 1..MaxRows => batch[i] \in {Null} \cup [columns -> Values]
    BY <2>1, <2>4 DEF r
  <2> QED  BY <1>4, <2>2, <2>5
<1>. QED  BY <1>5, <1>6

-----------------------------------------------------------------------------
(* Chunks and stripes                                                      *)

(* What is encoded of a stream that is not the stream of nulls, and of     *)
(* that one.                                                               *)
LEMMA EncodedFacts ==
    ASSUME NEW last \in BOOLEAN, NEW s \in Streams
    PROVE  /\ s \in Due(last) <=> IsDue(s = Nulls, SizeOf(s), data[s], streams[s], last)
           /\ Encoded(Due(last))[s] =
                IF s \in Due(last) THEN Append(streams[s], Chunk(s = Nulls, data[s]))
                ELSE streams[s]
BY DEF Due, Encoded

(* The sizes of a row of the two streams of a key.                         *)
LEMMA Sizes ==
    ASSUME NEW k \in Keys
    PROVE  /\ SizeOf(InMap(k)) = 1 /\ SizeOf(Value(k)) = ValueSize
           /\ ValueSize \in Nat \ {0}
<1>1. InMap(k)[1] = "inMap" /\ Value(k)[1] = "value"
  BY DEF InMap, Value
<1>. QED  BY <1>1, FlatMapAssumption DEF SizeOf

(* writeChunk: some streams become chunks, others stay buffered.           *)
LEMMA FlushChunkStep ==
    ASSUME WriterInv, FlushChunk
    PROVE  WriterInv'
<1>1. /\ ~reading /\ ~failed
      /\ streams' = Encoded(Due(FALSE))
      /\ data' = [s \in Streams |-> IF s \in Due(FALSE) THEN EmptyData ELSE data[s]]
      /\ UNCHANGED <<writer, rows, damaged, failed, reading>>
  BY DEF FlushChunk
<1> DEFINE maps == NonNulls(rows)
<1>2. /\ rows \in Seq(RowSet) /\ writer \in WriterState /\ maps \in Seq(MapSet)
      /\ damaged \subseteq Used(writer)
  BY <1>1, HeldFields, NonNullsIn DEF RowSet
<1>3. ASSUME NEW s \in Streams
      PROVE  /\ s \in Due(FALSE) =>
                  /\ streams'[s] = Append(streams[s], Chunk(s = Nulls, data[s]))
                  /\ data'[s] = EmptyData
             /\ s \notin Due(FALSE) => streams'[s] = streams[s] /\ data'[s] = data[s]
  BY <1>1, EncodedFacts
<1>4. ASSUME NEW s \in Streams, NEW isNulls \in BOOLEAN, isNulls = (s = Nulls),
             NEW S, NEW taken \in Seq(S),
             StreamHolds(isNulls, S, data[s], streams[s], taken)
      PROVE  StreamHolds(isNulls, S, data'[s], streams'[s], taken)
  <2>1. CASE s \in Due(FALSE)
    <3> DEFINE d == data[s]
               c == streams[s]
    <3>1. data'[s] = EmptyData /\ streams'[s] = Append(c, Chunk(isNulls, d))
      BY <1>3, <1>4, <2>1
    <3> HIDE DEF d, c
    <3>2. StreamHolds(isNulls, S, d, c, taken)
      BY <1>4 DEF d, c
    <3>3. StreamHolds(isNulls, S, EmptyData, Append(c, Chunk(isNulls, d)), taken)
      BY <3>2, HeldEncode
    <3> QED  BY <3>1, <3>3
  <2>2. CASE s \notin Due(FALSE)
    BY <1>3, <1>4, <2>2
  <2> QED  BY <2>1, <2>2
<1>5. StreamHolds(TRUE, RowSet, data'[Nulls], streams'[Nulls], rows)
  <2>1. StreamHolds(TRUE, RowSet, data[Nulls], streams[Nulls], rows)
    BY <1>1, HeldFields
  <2>2. Nulls \in Streams /\ TRUE = (Nulls = Nulls) /\ TRUE \in BOOLEAN
    BY StreamNames
  <2> QED  BY <1>2, <1>4, <2>1, <2>2
<1>6. ASSUME NEW k \in Keys, Untouched(k, data, streams, maps)
      PROVE  Untouched(k, data', streams', maps)
  <2>1. Len(EmptyData.values) = 0
    BY DEF EmptyData
  <2>2. ASSUME NEW size \in Nat PROVE ~IsDue(FALSE, size, EmptyData, <<>>, FALSE)
    <3>1. ~(Len(EmptyData.values) * size > MinStreamChunkRawSize)
      BY <2>1, MinSizeAssumption
    <3> QED  BY <3>1 DEF IsDue
  <2>3. ASSUME NEW s \in Streams, s # Nulls, SizeOf(s) \in Nat,
               data[s] = EmptyData, streams[s] = <<>>
        PROVE  s \notin Due(FALSE)
    <3>1. s \in Due(FALSE) <=> IsDue(s = Nulls, SizeOf(s), data[s], streams[s], FALSE)
      BY EncodedFacts
    <3>2. (s = Nulls) = FALSE
      BY <2>3
    <3> QED  BY <2>2, <2>3, <3>1, <3>2
  <2>4. InMap(k) \notin Due(FALSE) /\ Value(k) \notin Due(FALSE)
    <3>1. SizeOf(InMap(k)) \in Nat /\ SizeOf(Value(k)) \in Nat
      BY Sizes
    <3>2. /\ data[InMap(k)] = EmptyData /\ streams[InMap(k)] = <<>>
          /\ data[Value(k)] = EmptyData /\ streams[Value(k)] = <<>>
      BY <1>6 DEF Untouched
    <3>3. /\ InMap(k) \in Streams /\ InMap(k) # Nulls
          /\ Value(k) \in Streams /\ Value(k) # Nulls
      BY StreamNames
    <3> QED  BY <2>3, <3>1, <3>2, <3>3
  <2> QED  BY <1>3, <1>6, <2>4, StreamNames DEF Untouched
<1>7. ASSUME NEW k \in Keys, KeyHeld(k, data, streams, writer.current, maps)
      PROVE  KeyHeld(k, data', streams', writer.current, maps)
  <2>1. PICK flags \in Seq(BOOLEAN) :
          /\ FlagsHold(data[InMap(k)], streams[InMap(k)], flags)
          /\ \/ flags = Has(maps, k) /\ (k \in writer.current \/ AllHave(maps, k))
             \/ flags = <<>> /\ NoneHas(maps, k) /\ k \notin writer.current
    BY <1>7 DEF KeyHeld
  <2>2. FlagsHold(data'[InMap(k)], streams'[InMap(k)], flags)
    <3> DEFINE s == InMap(k)
    <3>1. s \in Streams /\ (s = Nulls) = FALSE
      BY StreamNames
    <3>2. CASE s \in Due(FALSE)
      <4>1. data'[s] = EmptyData /\ streams'[s] = Append(streams[s], Chunk(FALSE, data[s]))
        BY <1>3, <3>1, <3>2
      <4> DEFINE d == data[s]
                 c == streams[s]
      <4>2. FlagsHold(d, c, flags)
        BY <2>1
      <4>3. IsDue(FALSE, 1, d, c, FALSE)
        BY <3>1, <3>2, EncodedFacts, Sizes
      <4> HIDE DEF d, c
      <4>4. d.values # <<>>
        BY <4>2, <4>3, FlagsDue
      <4>5. FlagsHold(EmptyData, Append(c, Chunk(FALSE, d)), flags)
        BY <2>1, <4>2, <4>4, FlagsEncode
      <4> QED  BY <4>1, <4>5 DEF d, c
    <3>3. CASE s \notin Due(FALSE)
      BY <1>3, <2>1, <3>1, <3>3
    <3> QED  BY <3>2, <3>3
  <2>3. StreamHolds(FALSE, Values, data'[Value(k)], streams'[Value(k)], ValuesOf(maps, k))
    <3> DEFINE s == Value(k)
               u == ValuesOf(maps, k)
               f == FALSE
    <3>1. s \in Streams /\ f = (s = Nulls) /\ f \in BOOLEAN
      BY StreamNames
    <3>2. StreamHolds(f, Values, data[s], streams[s], u)
      BY <1>7 DEF KeyHeld
    <3>3. u \in Seq(Values)
      BY <1>2, ValuesFacts
    <3> HIDE DEF u, s, f
    <3>4. StreamHolds(f, Values, data'[s], streams'[s], u)
      BY <1>4, <3>1, <3>2, <3>3
    <3> QED  BY <3>4 DEF u, s, f
  <2> QED  BY <2>1, <2>2, <2>3 DEF KeyHeld
<1>8. Used(writer) \subseteq Keys
  BY <1>2 DEF Used, WriterState
<1>9. StripeHeld(rows, data', streams', writer, damaged)
  BY <1>1, <1>2, <1>5, <1>6, <1>7, <1>8, HeldFields DEF StripeHeld
<1>. QED  BY <1>1, <1>9 DEF WriterInv

(* writeStripe: the writer goes on with an empty stripe.                   *)
LEMMA NextStripeStep ==
    ASSUME WriterInv, NextStripe
    PROVE  WriterInv'
<1>1. /\ ~reading /\ ~failed /\ data' = ResetData /\ streams' = NoChunks
      /\ writer' = [writer EXCEPT !.current = {}, !.count = 0]
      /\ rows' = <<>> /\ damaged' = {} /\ UNCHANGED <<failed, reading>>
  BY DEF NextStripe
<1>2. /\ writer \in WriterState
      /\ \A k \in Keys \ Used(writer) : Untouched(k, data, streams, NonNulls(rows))
  BY <1>1, HeldFields
<1>3. writer' \in WriterState /\ writer'.count = 0
  BY <1>1, <1>2 DEF WriterState
<1>4. ASSUME NEW s \in Streams PROVE data'[s] = EmptyData /\ streams'[s] = <<>>
  <2>1. data'[s] = IF s = Nulls \/ s[2] \in Used(writer) THEN EmptyData ELSE data[s]
    BY <1>1 DEF ResetData, Used
  <2>2. CASE s # Nulls /\ s[2] \notin Used(writer)
    <3>1. PICK k \in Keys : s = InMap(k) \/ s = Value(k)
      BY <2>2 DEF Streams
    <3>2. s[2] = k
      BY <3>1, StreamNames
    <3>3. data[s] = EmptyData
      BY <1>2, <2>2, <3>1, <3>2 DEF Untouched
    <3> QED  BY <1>1, <2>1, <3>3 DEF NoChunks
  <2> QED  BY <1>1, <2>1, <2>2 DEF NoChunks
<1>5. StripeHeld(<<>>, data', streams', writer', {})
  BY <1>3, <1>4, EmptyStripe
<1>. QED  BY <1>1, <1>5 DEF WriterInv

(* Before the first call.                                                  *)
LEMMA InitHeld ==
    Init => WriterInv
<1> SUFFICES ASSUME Init PROVE StripeHeld(<<>>, data, streams, writer, {})
  BY DEF Init, WriterInv
<1>1. \A s \in Streams : data[s] = EmptyData /\ streams[s] = <<>>
  BY DEF Init, NoData, NoChunks
<1>2. writer \in WriterState /\ writer.count = 0
  BY DEF Init, NewWriter, WriterState
<1>. QED  BY <1>1, <1>2, EmptyStripe

-----------------------------------------------------------------------------
(* What the streams say of the maps                                        *)

(* All rows of a stream, flushed or buffered, are the rows it has taken.   *)
LEMMA HeldTells ==
    ASSUME NEW S, NEW isNulls \in BOOLEAN, NEW d, NEW content,
           NEW taken \in Seq(S), StreamHolds(isNulls, S, d, content, taken)
    PROVE  StreamRows(content) \o ChunkRows(Chunk(isNulls, d)) = StreamTells(isNulls, taken)
<1>1. PICK P, B \in Seq(S) : taken = P \o B /\ HeldAt(isNulls, S, d, content, P, B)
  BY PartsHeld
<1>2. PICK h \in BOOLEAN : d = DataOf(isNulls, h, B) /\ (h \/ NoNulls(B))
  BY <1>1 DEF HeldAt
<1> DEFINE ch == Chunk(isNulls, d)
<1>3. ch \in ChunkSet(isNulls, S)
  BY <1>2, ChunkTells
<1>4. content \in Seq(ChunkSet(isNulls, S))
  BY <1>1 DEF HeldAt
<1>5. StreamRows(Append(content, ch)) = StreamTells(isNulls, taken)
  BY EncodeTells
<1> HIDE DEF ch
<1>6. StreamRows(Append(content, ch)) = StreamRows(content) \o ChunkRows(ch)
  BY <1>3, <1>4, StreamRowsAppend
<1>. QED  BY <1>5, <1>6 DEF ch

(* The flags of an in-map stream, flushed or buffered.                     *)
LEMMA FlagsTell ==
    ASSUME NEW d, NEW content, NEW flags, FlagsHold(d, content, flags)
    PROVE  StreamRows(content) \o ChunkRows(Chunk(FALSE, d)) = flags
<1> DEFINE v == d.values
<1>1. v \in Seq(BOOLEAN) /\ d = Data(<<>>, FALSE, 0, v) /\ flags = StreamRows(content) \o v
  BY DEF FlagsHold
<1> HIDE DEF v
<1>2. ChunkRows(Chunk(FALSE, d)) = v
  BY <1>1, FlagsChunk
<1>. QED  BY <1>1, <1>2

(* The map of a row that is not null is where the rank of the row says.    *)
LEMMA MapOfRow ==
    ASSUME NEW rs \in Seq(RowSet)
    PROVE  LET maps == NonNulls(rs)
               flags == Present(rs, Null)
           IN  /\ maps \in Seq(MapSet) /\ Len(maps) = Rank(flags, Len(rs))
               /\ flags \in Seq(BOOLEAN) /\ Len(flags) = Len(rs)
               /\ \A i \in 1..Len(rs) : flags[i] = (rs[i] # Null)
               /\ \A i \in 1..Len(rs) : rs[i] # Null =>
                    Rank(flags, i) \in 1..Len(maps) /\ maps[Rank(flags, i)] = rs[i]
<1>1. NonNulls(rs) \in Seq(MapSet)
  BY NonNullsIn DEF RowSet
<1>2. /\ Present(rs, Null) \in Seq(BOOLEAN) /\ Len(Present(rs, Null)) = Len(rs)
      /\ \A i \in 1..Len(rs) : Present(rs, Null)[i] = (rs[i] # Null)
  BY PresentType
<1>. QED  BY <1>1, <1>2, WithoutRank DEF NonNulls

(* The streams of a key, put together with the stream of nulls.            *)
LEMMA KeyTells ==
    ASSUME rows \in Seq(RowSet), NEW k, NEW inMap,
           \/ inMap = Has(NonNulls(rows), k)
           \/ inMap = <<>> /\ NoneHas(NonNulls(rows), k)
    PROVE  KeyHolds(k, Present(rows, Null), inMap, ValuesOf(NonNulls(rows), k))
<1> DEFINE maps == NonNulls(rows)
           flags == Present(rows, Null)
           values == ValuesOf(maps, k)
           h == Has(maps, k)
           n == Len(rows)
<1>1. /\ maps \in Seq(MapSet) /\ Len(maps) = Rank(flags, n)
      /\ Len(flags) = n /\ DOMAIN rows = 1..n
      /\ \A i \in 1..n : flags[i] = (rows[i] # Null)
      /\ \A i \in 1..n : rows[i] # Null =>
           Rank(flags, i) \in 1..Len(maps) /\ maps[Rank(flags, i)] = rows[i]
  BY MapOfRow
<1>2. /\ h \in Seq(BOOLEAN) /\ Len(h) = Len(maps)
      /\ \A j \in 1..Len(maps) : h[j] = (k \in DOMAIN maps[j])
  BY <1>1, HasFacts
<1>3. /\ Len(values) = Rank(h, Len(maps))
      /\ \A j \in 1..Len(maps) : k \in DOMAIN maps[j] => values[Rank(h, j)] = maps[j][k]
  BY <1>1, ValuesFacts
<1>4. NoneHas(maps, k) => values = <<>>
  BY <1>1, NoneHasFacts
<1>5. DOMAIN maps = 1..Len(maps) /\ Len(maps) \in Nat
  BY <1>1
<1>6. inMap = h \/ (inMap = <<>> /\ NoneHas(maps, k))
  OBVIOUS
<1> SUFFICES KeyHolds(k, flags, inMap, values)
  OBVIOUS
<1> HIDE DEF maps, flags, values, h, n
<1>7. CASE inMap = h
  <2>1. Len(inMap) = Rank(flags, Len(flags)) /\ Len(values) = Rank(inMap, Len(inMap))
    BY <1>1, <1>2, <1>3, <1>7
  <2>2. ASSUME NEW i \in 1..n, flags[i]
        PROVE  /\ k \in DOMAIN rows[i] <=> inMap # <<>> /\ inMap[Rank(flags, i)]
               /\ k \in DOMAIN rows[i] => rows[i][k] = values[Rank(inMap, Rank(flags, i))]
    <3> DEFINE j == Rank(flags, i)
    <3>1. j \in 1..Len(maps) /\ maps[j] = rows[i]
      BY <1>1, <2>2
    <3> HIDE DEF j
    <3>2. inMap # <<>>
      BY <1>2, <1>5, <1>7, <3>1
    <3> QED  BY <1>2, <1>3, <1>7, <3>1, <3>2 DEF j
  <2> QED  BY <1>1, <2>1, <2>2 DEF KeyHolds
<1>8. CASE inMap = <<>> /\ NoneHas(maps, k)
  <2>1. Len(inMap) = 0 /\ Len(values) = 0
    BY <1>4, <1>8
  <2>2. Rank(inMap, 0) = 0
    BY RankZero
  <2>3. \A i \in 1..n : flags[i] => k \notin DOMAIN rows[i]
    <3>1. ASSUME NEW i \in 1..n, flags[i] PROVE k \notin DOMAIN rows[i]
      <4>1. Rank(flags, i) \in DOMAIN maps /\ maps[Rank(flags, i)] = rows[i]
        BY <1>1, <1>5, <3>1
      <4> QED  BY <1>8, <4>1 DEF NoneHas
    <3> QED  BY <3>1
  <2> QED  BY <1>1, <1>8, <2>1, <2>2, <2>3 DEF KeyHolds
<1>. QED  BY <1>6, <1>7, <1>8

(* What the invariant says of the streams of a key, in use or not.         *)
LEMMA KeyStreams ==
    ASSUME WriterInv, ~reading, ~failed, NEW k \in Keys \ damaged
    PROVE  LET maps == NonNulls(rows)
           IN  /\ \E flags \in Seq(BOOLEAN) :
                    /\ FlagsHold(data[InMap(k)], streams[InMap(k)], flags)
                    /\ flags = Has(maps, k) \/ (flags = <<>> /\ NoneHas(maps, k))
               /\ StreamHolds(FALSE, Values, data[Value(k)], streams[Value(k)],
                              ValuesOf(maps, k))
<1> DEFINE maps == NonNulls(rows)
<1>1. CASE k \in Used(writer)
  <2>1. KeyHeld(k, data, streams, writer.current, maps)
    BY <1>1, HeldFields
  <2> QED  BY <2>1 DEF KeyHeld
<1>2. CASE k \notin Used(writer)
  <2>1. Untouched(k, data, streams, maps)
    BY <1>2, HeldFields
  <2>2. <<>> \in Seq(BOOLEAN)
    OBVIOUS
  <2>3. FlagsHold(EmptyData, <<>>, <<>>)
    BY <2>2, FlagsStart
  <2>4. maps \in Seq(MapSet)
    BY HeldFields, NonNullsIn DEF RowSet
  <2>5. ValuesOf(maps, k) = <<>>
    BY <2>1, <2>4, NoneHasFacts DEF Untouched
  <2> QED  BY <2>1, <2>2, <2>3, <2>5, HeldEmpty DEF Untouched
<1>. QED  BY <1>1, <1>2

(* The invariant implies the property the run checks.                      *)
LEMMA HeldStreams ==
    WriterInv => StreamsHoldMaps
<1> SUFFICES ASSUME WriterInv, ~reading, ~failed
             PROVE  /\ Len(Held(Nulls)) = Len(rows)
                    /\ \A i \in DOMAIN rows : Held(Nulls)[i] <=> rows[i] # Null
                    /\ \A k \in Keys \ damaged :
                         KeyHolds(k, Held(Nulls), Held(InMap(k)), Held(Value(k)))
  BY DEF StreamsHoldMaps
<1> DEFINE maps == NonNulls(rows)
<1>1. rows \in Seq(RowSet) /\ StreamHolds(TRUE, RowSet, data[Nulls], streams[Nulls], rows)
  BY HeldFields
<1>2. Held(Nulls) = Present(rows, Null)
  <2> DEFINE d == data[Nulls]
             c == streams[Nulls]
             t == TRUE
  <2>1. StreamHolds(t, RowSet, d, c, rows) /\ t \in BOOLEAN
    BY <1>1
  <2>2. Held(Nulls) = StreamRows(c) \o ChunkRows(Chunk(t, d))
    BY DEF Held
  <2> HIDE DEF d, c, t
  <2>3. StreamRows(c) \o ChunkRows(Chunk(t, d)) = StreamTells(t, rows)
    BY <1>1, <2>1, HeldTells
  <2> QED  BY <2>2, <2>3 DEF StreamTells, t
<1>3. /\ maps \in Seq(MapSet) /\ Len(Present(rows, Null)) = Len(rows)
      /\ DOMAIN rows = 1..Len(rows)
      /\ \A i \in 1..Len(rows) : Present(rows, Null)[i] = (rows[i] # Null)
  BY <1>1, MapOfRow
<1>4. ASSUME NEW k \in Keys \ damaged
      PROVE  KeyHolds(k, Held(Nulls), Held(InMap(k)), Held(Value(k)))
  <2> DEFINE a == InMap(k)
             b == Value(k)
  <2>1. (a = Nulls) = FALSE /\ (b = Nulls) = FALSE
    BY StreamNames
  <2>2. /\ Held(a) = StreamRows(streams[a]) \o ChunkRows(Chunk(FALSE, data[a]))
        /\ Held(b) = StreamRows(streams[b]) \o ChunkRows(Chunk(FALSE, data[b]))
    BY <2>1 DEF Held
  <2>3. \E flags \in Seq(BOOLEAN) :
          /\ FlagsHold(data[a], streams[a], flags)
          /\ flags = Has(maps, k) \/ (flags = <<>> /\ NoneHas(maps, k))
    BY KeyStreams
  <2>4. StreamHolds(FALSE, Values, data[b], streams[b], ValuesOf(maps, k))
    BY KeyStreams
  <2>5. Held(a) = Has(maps, k) \/ (Held(a) = <<>> /\ NoneHas(maps, k))
    <3>1. PICK flags \in Seq(BOOLEAN) :
            /\ FlagsHold(data[a], streams[a], flags)
            /\ flags = Has(maps, k) \/ (flags = <<>> /\ NoneHas(maps, k))
      BY <2>3
    <3>2. Held(a) = flags
      <4> DEFINE d == data[a]
                 c == streams[a]
      <4> HIDE DEF d, c
      <4>1. FlagsHold(d, c, flags) /\ Held(a) = StreamRows(c) \o ChunkRows(Chunk(FALSE, d))
        BY <2>2, <3>1 DEF d, c
      <4> QED  BY <4>1, FlagsTell
    <3> QED  BY <3>1, <3>2
  <2>6. Held(b) = ValuesOf(maps, k)
    <3> DEFINE d == data[b]
               c == streams[b]
               u == ValuesOf(maps, k)
               f == FALSE
    <3>1. u \in Seq(Values)
      BY <1>3, ValuesFacts
    <3>2. /\ StreamHolds(f, Values, d, c, u) /\ f \in BOOLEAN
          /\ Held(b) = StreamRows(c) \o ChunkRows(Chunk(f, d))
      BY <2>2, <2>4
    <3> HIDE DEF d, c, u, f
    <3>3. Held(b) = StreamTells(f, u)
      BY <3>1, <3>2, HeldTells
    <3> QED  BY <3>3 DEF StreamTells, f, u
  <2> QED  BY <1>1, <1>2, <2>5, <2>6, KeyTells
<1>. QED  BY <1>2, <1>3, <1>4

-----------------------------------------------------------------------------
(* The readers                                                             *)

(* What the streams of a key tell of the maps once the stripe is finished. *)
KeyEnded(k, chs, maps) ==
    IF chs[InMap(k)] = <<>> THEN NoneHas(maps, k)
    ELSE /\ StreamRows(chs[InMap(k)]) = Has(maps, k)
         /\ Ended(FALSE, Values, chs[Value(k)], ValuesOf(maps, k))

StripeEnded(rs, chs, selection) ==
    /\ rs \in Seq(RowSet)
    /\ Ended(TRUE, RowSet, chs[Nulls], rs)
    /\ selection \in Selections
    /\ \A k \in Keys : Projects(selection, k) => KeyEnded(k, chs, NonNulls(rs))

(* The decoders of a node are behind what the rows before took of them.    *)
ReaderState ==
    [selection : Selections, row : Nat, inMap : [Keys -> Nat], value : [Keys -> Nat]]

Positioned(r, rs, nodes) ==
    /\ r \in ReaderState /\ r.row \in 0..Len(rs)
    /\ \A k \in nodes :
         /\ r.inMap[k] = Rank(Present(rs, Null), r.row)
         /\ r.value[k] = Rank(Has(NonNulls(rs), k), r.inMap[k])

ReaderInv ==
    reading => StripeEnded(rows, streams, reader.selection) /\ Positioned(reader, rows, Nodes)

IInv == WriterInv /\ ReaderInv

(* A reader that has read nothing stands at the start of every stream.     *)
LEMMA AtStart ==
    ASSUME NEW selection \in Selections, NEW rs \in Seq(RowSet), NEW nodes \in SUBSET Keys
    PROVE  Positioned([NewReader EXCEPT !.selection = selection], rs, nodes)
<1> DEFINE r == [NewReader EXCEPT !.selection = selection]
           zero == [k \in Keys |-> 0]
<1>1. zero \in [Keys -> Nat] /\ \A k \in Keys : zero[k] = 0
  OBVIOUS
<1>2. r = [selection |-> selection, row |-> 0, inMap |-> zero, value |-> zero]
  BY DEF NewReader
<1> HIDE DEF r, zero
<1>3. r \in ReaderState /\ r.row = 0 /\ r.inMap = zero /\ r.value = zero
  BY <1>1, <1>2 DEF ReaderState
<1>4. 0 \in 0..Len(rs)
  OBVIOUS
<1>5. Positioned(r, rs, nodes)
  BY <1>1, <1>3, <1>4, RankZero DEF Positioned
<1>. QED  BY <1>5 DEF r

(* The stripe ends, and one of the two readers is made for it.             *)
LEMMA OpenStripeStep ==
    ASSUME WriterInv, NEW selection \in Selections, OpenStripe(selection)
    PROVE  ReaderInv'
<1>1. /\ ~reading /\ ~failed /\ streams' = Encoded(Due(TRUE))
      /\ ~\E k \in damaged : Projects(selection, k)
      /\ reader' = [NewReader EXCEPT !.selection = selection]
      /\ rows' = rows
  BY DEF OpenStripe
<1> DEFINE maps == NonNulls(rows)
<1>2. /\ rows \in Seq(RowSet) /\ maps \in Seq(MapSet)
      /\ StreamHolds(TRUE, RowSet, data[Nulls], streams[Nulls], rows)
  BY <1>1, HeldFields, NonNullsIn DEF RowSet
<1>3. reader'.selection = selection
  BY <1>1 DEF NewReader
<1>4. ASSUME NEW s \in Streams, NEW isNulls \in BOOLEAN, isNulls = (s = Nulls)
      PROVE  streams'[s] = IF IsDue(isNulls, SizeOf(s), data[s], streams[s], TRUE)
                           THEN Append(streams[s], Chunk(isNulls, data[s])) ELSE streams[s]
  BY <1>1, <1>4, EncodedFacts
<1>5. ASSUME NEW s \in Streams, NEW isNulls \in BOOLEAN, isNulls = (s = Nulls),
             SizeOf(s) \in Nat \ {0}, NEW S, NEW taken \in Seq(S),
             StreamHolds(isNulls, S, data[s], streams[s], taken)
      PROVE  Ended(isNulls, S, streams'[s], taken)
  <2> DEFINE d == data[s]
             c == streams[s]
             z == SizeOf(s)
  <2>1. streams'[s] = IF IsDue(isNulls, z, d, c, TRUE) THEN Append(c, Chunk(isNulls, d)) ELSE c
    BY <1>4, <1>5
  <2>2. StreamHolds(isNulls, S, d, c, taken) /\ z \in Nat \ {0}
    BY <1>5
  <2> HIDE DEF d, c, z
  <2>3. Ended(isNulls, S, IF IsDue(isNulls, z, d, c, TRUE) THEN Append(c, Chunk(isNulls, d)) ELSE c,
              taken)
    BY <1>5, <2>2, HeldEnds
  <2> QED  BY <2>1, <2>3
<1>6. Ended(TRUE, RowSet, streams'[Nulls], rows)
  <2>1. SizeOf(Nulls) \in Nat \ {0}
    <3>1. Nulls[1] = "nulls"
      BY DEF Nulls
    <3> QED  BY <3>1 DEF SizeOf
  <2>2. Nulls \in Streams /\ TRUE = (Nulls = Nulls) /\ TRUE \in BOOLEAN
    BY StreamNames
  <2> QED  BY <1>2, <1>5, <2>1, <2>2
<1>7. ASSUME NEW k \in Keys, Projects(selection, k) PROVE KeyEnded(k, streams', maps)
  <2> DEFINE a == InMap(k)
             b == Value(k)
             u == ValuesOf(maps, k)
  <2>1. k \in Keys \ damaged
    BY <1>1, <1>7
  <2>2. a \in Streams /\ FALSE = (a = Nulls) /\ b \in Streams /\ FALSE = (b = Nulls)
    BY StreamNames
  <2>3. PICK flags \in Seq(BOOLEAN) :
          /\ FlagsHold(data[a], streams[a], flags)
          /\ flags = Has(maps, k) \/ (flags = <<>> /\ NoneHas(maps, k))
    BY <1>1, <2>1, KeyStreams
  <2>4. StreamRows(streams'[a]) = flags
    <3> DEFINE d == data[a]
               c == streams[a]
    <3>1. streams'[a] = IF IsDue(FALSE, 1, d, c, TRUE) THEN Append(c, Chunk(FALSE, d)) ELSE c
      <4>1. SizeOf(a) = 1
        BY Sizes
      <4> QED  BY <1>4, <2>2, <4>1
    <3>2. FlagsHold(d, c, flags)
      BY <2>3
    <3> HIDE DEF d, c
    <3> QED  BY <3>1, <3>2, FlagsEnd
  <2>5. streams'[a] # <<>> => flags # <<>>
    <3>1. CASE IsDue(FALSE, 1, data[a], streams[a], TRUE)
      <4>1. data[a].values # <<>>
        BY <2>3, <3>1, FlagsDue
      <4> DEFINE v == data[a].values
                 r == StreamRows(streams[a])
      <4>2. v \in Seq(BOOLEAN) /\ r \in Seq(BOOLEAN) /\ flags = r \o v
        BY <2>3, FlagsType DEF FlagsHold
      <4>3. v # <<>>
        BY <4>1
      <4> HIDE DEF v, r
      <4> QED  BY <4>2, <4>3
    <3>2. CASE ~IsDue(FALSE, 1, data[a], streams[a], TRUE)
      <4>1. streams'[a] = streams[a]
        <5>1. SizeOf(a) = 1
          BY Sizes
        <5> QED  BY <1>4, <2>2, <3>2, <5>1
      <4>2. streams[a] # <<>> => StreamRows(streams[a]) # <<>>
        BY <2>3 DEF FlagsHold
      <4> QED  BY <2>4, <4>1, <4>2
    <3> QED  BY <3>1, <3>2
  <2>6. Ended(FALSE, Values, streams'[b], u)
    <3> DEFINE f == FALSE
    <3>1. u \in Seq(Values)
      BY <1>2, ValuesFacts
    <3>2. StreamHolds(f, Values, data[b], streams[b], u)
      BY <1>1, <2>1, KeyStreams
    <3>3. SizeOf(b) \in Nat \ {0}
      BY Sizes
    <3>4. f = (b = Nulls) /\ f \in BOOLEAN
      BY <2>2
    <3> HIDE DEF f, u, b
    <3>5. Ended(f, Values, streams'[b], u)
      BY <1>5, <2>2, <3>1, <3>2, <3>3, <3>4
    <3> QED  BY <3>5 DEF f
  <2>7. CASE streams'[a] = <<>>
    <3>1. flags = <<>>
      BY <2>4, <2>7, StreamRowsEmpty
    <3>2. flags = Has(maps, k) => NoneHas(maps, k)
      <4>1. ASSUME flags = Has(maps, k) PROVE NoneHas(maps, k)
        <5>1. Len(maps) = Len(flags) /\ Len(flags) = 0
          BY <1>2, <3>1, <4>1, HasFacts
        <5>2. DOMAIN maps = {}
          BY <1>2, <5>1
        <5> QED  BY <5>2 DEF NoneHas
      <4> QED  BY <4>1
    <3> QED  BY <2>3, <2>7, <3>2 DEF KeyEnded
  <2>8. CASE streams'[a] # <<>>
    BY <2>3, <2>4, <2>5, <2>6, <2>8 DEF KeyEnded
  <2> QED  BY <2>7, <2>8
<1>8. StripeEnded(rows', streams', reader'.selection)
  BY <1>1, <1>2, <1>3, <1>6, <1>7 DEF StripeEnded
<1>9. Positioned(reader', rows', Nodes')
  <2>1. Nodes' \in SUBSET Keys
    BY DEF Nodes
  <2> QED  BY <1>1, <1>2, <2>1, AtStart
<1>. QED  BY <1>8, <1>9 DEF ReaderInv

(* What an open reader knows of the stripe.                                *)
LEMMA ReaderFields ==
    ASSUME ReaderInv, reading
    PROVE  /\ rows \in Seq(RowSet) /\ Ended(TRUE, RowSet, streams[Nulls], rows)
           /\ reader \in ReaderState /\ reader.selection \in Selections
           /\ reader.row \in 0..Len(rows) /\ reader.row \in Nat /\ Len(rows) \in Nat
           /\ \A k \in Keys : Projects(reader.selection, k) =>
                KeyEnded(k, streams, NonNulls(rows))
           /\ \A k \in Nodes :
                /\ k \in Keys /\ Projects(reader.selection, k) /\ streams[InMap(k)] # <<>>
                /\ reader.inMap[k] = Rank(Present(rows, Null), reader.row)
                /\ reader.value[k] = Rank(Has(NonNulls(rows), k), reader.inMap[k])
<1>1. StripeEnded(rows, streams, reader.selection) /\ Positioned(reader, rows, Nodes)
  BY DEF ReaderInv
<1>2. /\ rows \in Seq(RowSet) /\ Ended(TRUE, RowSet, streams[Nulls], rows)
      /\ reader.selection \in Selections
      /\ \A k \in Keys : Projects(reader.selection, k) => KeyEnded(k, streams, NonNulls(rows))
  BY <1>1 DEF StripeEnded
<1>3. /\ reader \in ReaderState /\ reader.row \in 0..Len(rows)
      /\ \A k \in Nodes :
           /\ reader.inMap[k] = Rank(Present(rows, Null), reader.row)
           /\ reader.value[k] = Rank(Has(NonNulls(rows), k), reader.inMap[k])
  BY <1>1 DEF Positioned
<1>4. reader.row \in Nat /\ Len(rows) \in Nat
  BY <1>2, <1>3
<1>5. \A k \in Nodes : k \in Keys /\ Projects(reader.selection, k) /\ streams[InMap(k)] # <<>>
  BY DEF Nodes
<1>. QED  BY <1>2, <1>3, <1>4, <1>5

(* The null flags of the next n rows.                                      *)
LEMMA LoadNullsFacts ==
    ASSUME ReaderInv, NEW n \in Nat, CanRead(n)
    PROVE  LET present == Present(rows, Null)
           IN  /\ LoadNulls(n) = SubSeq(present, reader.row + 1, reader.row + n)
               /\ LoadNulls(n) \in Seq(BOOLEAN) /\ Len(LoadNulls(n)) = n
               /\ \A i \in 1..n : LoadNulls(n)[i] = (rows[reader.row + i] # Null)
               /\ \A i \in 0..n : Rank(LoadNulls(n), i) =
                                    Rank(present, reader.row + i) - Rank(present, reader.row)
<1> DEFINE p == Present(rows, Null)
           a == reader.row
           s == SubSeq(p, a + 1, a + n)
<1>1. /\ reading /\ a + n <= Len(rows) /\ rows \in Seq(RowSet)
      /\ Ended(TRUE, RowSet, streams[Nulls], rows) /\ a \in Nat /\ Len(rows) \in Nat
  BY ReaderFields DEF CanRead
<1>2. /\ p \in Seq(BOOLEAN) /\ Len(p) = Len(rows)
      /\ \A i \in 1..Len(rows) : p[i] = (rows[i] # Null)
  BY <1>1, PresentType
<1> HIDE DEF p, a
<1>3. /\ a \in 0..Len(p) /\ a + n \in a..Len(p) /\ (a + n) - a = n
      /\ n \in 0..(Len(p) - a)
  BY <1>1, <1>2
<1>4. s \in Seq(BOOLEAN) /\ Len(s) = n /\ \A i \in 1..n : s[i] = p[a + i]
  BY <1>2, <1>3, SliceFacts
<1>5. \A i \in 1..n : a + i \in 1..Len(rows)
  BY <1>1
<1>6. \A i \in 1..n : s[i] = (rows[a + i] # Null)
  BY <1>2, <1>4, <1>5
<1>7. \A i \in 0..n : Rank(s, i) = Rank(p, a + i) - Rank(p, a)
  BY <1>2, <1>3, RankSlice
<1>8. LoadNulls(n) = s
  <2>1. CASE streams[Nulls] = <<>>
    <3>1. NoNulls(rows)
      BY <1>1, <2>1 DEF Ended
    <3>2. \A i \in 1..n : rows[a + i] # Null
      BY <1>1, <1>5, <3>1 DEF NoNulls
    <3>3. LoadNulls(n) = AllTrue(n)
      BY <2>1 DEF LoadNulls
    <3>4. \A i \in 1..n : s[i] = TRUE
      BY <1>6, <3>2
    <3> HIDE DEF s
    <3>5. s = [i \in 1..n |-> TRUE]
      BY <1>4, <3>4
    <3> QED  BY <3>3, <3>5 DEF AllTrue
  <2>2. CASE streams[Nulls] # <<>>
    <3>1. StreamRows(streams[Nulls]) = p
      BY <1>1, <2>2 DEF Ended, StreamTells, p
    <3> QED  BY <2>2, <3>1 DEF LoadNulls, Taken, a
  <2> QED  BY <2>1, <2>2
<1>. QED  BY <1>4, <1>6, <1>7, <1>8 DEF p, a

(* The in-map flags of the next n rows, and the values that go with them.  *)
LEMMA ReadInMapFacts ==
    ASSUME ReaderInv, NEW n \in Nat, CanRead(n), NEW k \in Nodes
    PROVE  LET maps == NonNulls(rows)
               present == Present(rows, Null)
               h == Has(maps, k)
               nonNull == Rank(LoadNulls(n), n)
               p == reader.inMap[k]
               inMap == ReadInMapData(k, nonNull)
           IN  /\ nonNull \in Nat /\ p \in Nat /\ p + nonNull <= Len(maps)
               /\ p = Rank(present, reader.row)
               /\ p + nonNull = Rank(present, reader.row + n)
               /\ inMap \in Seq(BOOLEAN) /\ Len(inMap) = nonNull
               /\ \A j \in 1..nonNull : inMap[j] = h[p + j]
               /\ \A j \in 0..nonNull : Rank(inMap, j) = Rank(h, p + j) - Rank(h, p)
<1> DEFINE maps == NonNulls(rows)
           f == Present(rows, Null)
           h == Has(maps, k)
           m == Rank(LoadNulls(n), n)
           p == reader.inMap[k]
           a == reader.row
           inMap == ReadInMapData(k, m)
<1>1. /\ reading /\ a + n <= Len(rows) /\ rows \in Seq(RowSet) /\ a \in Nat /\ Len(rows) \in Nat
      /\ k \in Keys /\ Projects(reader.selection, k) /\ streams[InMap(k)] # <<>>
      /\ p = Rank(f, a)
  BY ReaderFields DEF CanRead
<1>2. StreamRows(streams[InMap(k)]) = h
  BY <1>1, ReaderFields DEF KeyEnded
<1>3. /\ maps \in Seq(MapSet) /\ Len(maps) = Rank(f, Len(rows))
      /\ f \in Seq(BOOLEAN) /\ Len(f) = Len(rows)
  BY <1>1, MapOfRow
<1>4. h \in Seq(BOOLEAN) /\ Len(h) = Len(maps)
  BY <1>3, HasFacts
<1>5. m = Rank(f, a + n) - Rank(f, a)
  BY LoadNullsFacts
<1>6. inMap = SubSeq(h, p + 1, p + m)
  BY <1>2 DEF ReadInMapData, Taken
<1> HIDE DEF maps, f, h, m, p, a, inMap
<1>7. /\ a \in 0..Len(f) /\ a + n \in a..Len(f) /\ a + n \in 0..Len(f)
      /\ Len(f) \in (a + n)..Len(f)
  BY <1>1, <1>3
<1>8. /\ Rank(f, a) \in Nat /\ Rank(f, a + n) \in Nat /\ Rank(f, a) <= Rank(f, a + n)
      /\ Rank(f, a + n) <= Len(maps)
  BY <1>3, <1>7, RankGrows
<1>9. /\ m \in Nat /\ p \in Nat /\ p + m = Rank(f, a + n) /\ p + m <= Len(maps)
  BY <1>1, <1>5, <1>8
<1>10. /\ p \in 0..Len(h) /\ p + m \in p..Len(h) /\ (p + m) - p = m /\ m \in 0..(Len(h) - p)
  BY <1>3, <1>4, <1>9
<1>11. inMap \in Seq(BOOLEAN) /\ Len(inMap) = m /\ \A j \in 1..m : inMap[j] = h[p + j]
  <2> DEFINE b == p + m
  <2>1. b \in p..Len(h) /\ b - p = m /\ inMap = SubSeq(h, p + 1, b)
    BY <1>6, <1>10
  <2> HIDE DEF b
  <2> QED  BY <1>4, <1>10, <2>1, SliceFacts
<1>12. \A j \in 0..m : Rank(inMap, j) = Rank(h, p + j) - Rank(h, p)
  BY <1>4, <1>6, <1>10, RankSlice
<1>. QED  BY <1>1, <1>9, <1>11, <1>12 DEF maps, f, h, m, p, a, inMap

(* next and skip leave every decoder behind the rows they took.            *)
LEMMA AdvancedStep ==
    ASSUME ReaderInv, NEW n \in Nat, CanRead(n),
           reader' = Advanced(n, Rank(LoadNulls(n), n)), UNCHANGED <<streams, rows, reading>>
    PROVE  ReaderInv' /\ reader'.row = reader.row + n /\ reader'.selection = reader.selection
<1> DEFINE m == Rank(LoadNulls(n), n)
           inMap == [k \in Keys |-> IF k \in Nodes THEN reader.inMap[k] + m ELSE reader.inMap[k]]
           value == [k \in Keys |-> IF k \in Nodes
                                    THEN reader.value[k] + Rank(ReadInMapData(k, m), m)
                                    ELSE reader.value[k]]
<1>1. reading /\ reader \in ReaderState /\ reader.row + n <= Len(rows)
  BY ReaderFields DEF CanRead
<1>2. reader' = [reader EXCEPT !.row = reader.row + n, !.inMap = inMap, !.value = value]
  BY DEF Advanced
<1>3. ASSUME NEW k \in Nodes
      PROVE  /\ k \in Keys /\ m \in Nat /\ Rank(ReadInMapData(k, m), m) \in Nat
             /\ reader.inMap[k] + m = Rank(Present(rows, Null), reader.row + n)
             /\ reader.value[k] + Rank(ReadInMapData(k, m), m)
                  = Rank(Has(NonNulls(rows), k), reader.inMap[k] + m)
  <2> DEFINE p == reader.inMap[k]
             h == Has(NonNulls(rows), k)
             d == ReadInMapData(k, m)
  <2>1. /\ m \in Nat /\ p \in Nat /\ p + m = Rank(Present(rows, Null), reader.row + n)
        /\ \A j \in 0..m : Rank(d, j) = Rank(h, p + j) - Rank(h, p)
    BY ReadInMapFacts
  <2>2. k \in Keys /\ reader.value[k] = Rank(h, p)
    BY <1>1, ReaderFields
  <2> HIDE DEF p, h, d, m
  <2>3. Rank(d, m) \in Nat /\ Rank(h, p) \in Nat /\ Rank(h, p + m) \in Nat
    BY <2>1, RankStep
  <2>4. Rank(d, m) = Rank(h, p + m) - Rank(h, p)
    BY <2>1
  <2>5. reader.value[k] + Rank(d, m) = Rank(h, p + m)
    BY <2>2, <2>3, <2>4
  <2> QED  BY <2>1, <2>2, <2>3, <2>5 DEF p, h, d
<1> HIDE DEF m
<1>4. inMap \in [Keys -> Nat] /\ value \in [Keys -> Nat]
  <2>1. \A k \in Keys : reader.inMap[k] \in Nat /\ reader.value[k] \in Nat
    BY <1>1 DEF ReaderState
  <2>2. \A k \in Keys : inMap[k] \in Nat /\ value[k] \in Nat
    BY <1>3, <2>1
  <2> QED  BY <2>2
<1>5. \A k \in Nodes : /\ inMap[k] = reader.inMap[k] + m
                       /\ value[k] = reader.value[k] + Rank(ReadInMapData(k, m), m)
  BY <1>3
<1> HIDE DEF inMap, value
<1>6. reader.row + n \in 0..Len(rows) /\ reader.row + n \in Nat
  BY <1>1, ReaderFields
<1>7. /\ reader' \in ReaderState /\ reader'.row = reader.row + n
      /\ reader'.selection = reader.selection
      /\ reader'.inMap = inMap /\ reader'.value = value
  BY <1>1, <1>2, <1>4, <1>6 DEF ReaderState
<1>8. Nodes' = Nodes
  BY <1>7 DEF Nodes
<1>9. Positioned(reader', rows', Nodes')
  BY <1>3, <1>5, <1>6, <1>7, <1>8 DEF Positioned
<1>10. StripeEnded(rows', streams', reader'.selection)
  BY <1>1, <1>7 DEF ReaderInv
<1>. QED  BY <1>7, <1>9, <1>10 DEF ReaderInv

(* The value a node reads for a map that has its key.                      *)
LEMMA LoadValuesFacts ==
    ASSUME ReaderInv, NEW n \in Nat, CanRead(n), NEW k \in Nodes,
           NEW j \in 1..Rank(LoadNulls(n), n)
    PROVE  LET maps == NonNulls(rows)
               inMap == ReadInMapData(k, Rank(LoadNulls(n), n))
               q == reader.inMap[k] + j
           IN  k \in DOMAIN maps[q] =>
                 LoadValues(k, Rank(inMap, Len(inMap)))[Rank(inMap, j)] = maps[q][k]
<1> DEFINE maps == NonNulls(rows)
           h == Has(maps, k)
           m == Rank(LoadNulls(n), n)
           p == reader.inMap[k]
           inMap == ReadInMapData(k, m)
           q == p + j
           u == ValuesOf(maps, k)
           c == Rank(inMap, m)
           t == Rank(inMap, j)
<1>1. /\ rows \in Seq(RowSet) /\ reading /\ k \in Keys /\ Projects(reader.selection, k)
      /\ streams[InMap(k)] # <<>> /\ reader.value[k] = Rank(h, p)
  BY ReaderFields DEF CanRead
<1>2. /\ m \in Nat /\ p \in Nat /\ p + m <= Len(maps)
      /\ inMap \in Seq(BOOLEAN) /\ Len(inMap) = m
      /\ \A i \in 1..m : inMap[i] = h[p + i]
      /\ \A i \in 0..m : Rank(inMap, i) = Rank(h, p + i) - Rank(h, p)
  BY ReadInMapFacts
<1>3. Ended(FALSE, Values, streams[Value(k)], u)
  BY <1>1, ReaderFields DEF KeyEnded
<1>4. maps \in Seq(MapSet) /\ Len(maps) \in Nat
  BY <1>1, MapOfRow
<1>5. /\ u \in Seq(Values) /\ Len(u) = Rank(h, Len(maps))
      /\ \A i \in 1..Len(maps) : k \in DOMAIN maps[i] =>
           Rank(h, i) \in 1..Len(u) /\ u[Rank(h, i)] = maps[i][k]
  BY <1>4, ValuesFacts
<1>6. /\ h \in Seq(BOOLEAN) /\ Len(h) = Len(maps)
      /\ \A i \in 1..Len(maps) : h[i] = (k \in DOMAIN maps[i])
  BY <1>4, HasFacts
<1>7. j \in 1..m
  OBVIOUS
<1> SUFFICES ASSUME k \in DOMAIN maps[q]
             PROVE  LoadValues(k, c)[t] = maps[q][k]
  BY <1>2
<1>8. LoadValues(k, c) = IF streams[Value(k)] = <<>> THEN [i \in 1..c |-> Null]
                         ELSE SubSeq(StreamRows(streams[Value(k)]), Rank(h, p) + 1, Rank(h, p) + c)
  BY <1>1 DEF LoadValues, Taken
<1> HIDE DEF maps, h, m, p, inMap, u
<1>9. q \in 1..Len(maps) /\ p + m \in 0..Len(h) /\ Len(h) \in (p + m)..Len(h)
  BY <1>2, <1>4, <1>6, <1>7
<1>10. u[Rank(h, q)] = maps[q][k] /\ Rank(h, q) \in 1..Len(u)
  BY <1>5, <1>9
<1>11. t = Rank(h, q) - Rank(h, p) /\ c = Rank(h, p + m) - Rank(h, p)
  BY <1>2, <1>7
<1>12. t \in 1..c
  <2>1. inMap[j]
    BY <1>2, <1>6, <1>7, <1>9
  <2> QED  BY <1>2, <1>7, <2>1, RankSet
<1>13. Rank(h, p + m) <= Len(u) /\ Rank(h, p) \in Nat /\ Rank(h, p + m) \in Nat
  <2>1. p \in 0..Len(h) /\ p + m \in p..Len(h) /\ Len(h) \in p..Len(h)
    BY <1>2, <1>4, <1>6
  <2> QED  BY <1>5, <1>6, <1>9, <2>1, RankGrows
<1> HIDE DEF q, c, t
<1>14. CASE streams[Value(k)] = <<>>
  <2>1. AllNulls(u)
    BY <1>3, <1>14 DEF Ended
  <2>2. u[Rank(h, q)] = Null
    BY <1>5, <1>10, <2>1 DEF AllNulls
  <2>3. LoadValues(k, c)[t] = Null
    BY <1>8, <1>12, <1>14
  <2> QED  BY <1>10, <2>2, <2>3
<1>15. CASE streams[Value(k)] # <<>>
  <2> DEFINE a == Rank(h, p)
             b == a + c
  <2>1. LoadValues(k, c) = SubSeq(u, a + 1, b)
    BY <1>3, <1>8, <1>15 DEF Ended, StreamTells
  <2>2. c \in Nat /\ t \in 1..c
    BY <1>11, <1>12, <1>13
  <2>3. a \in Nat /\ b \in Nat /\ b = Rank(h, p + m) /\ a + t = Rank(h, q)
    <3>1. Rank(h, q) \in Nat
      BY <1>10
    <3> QED  BY <1>11, <1>13, <2>2, <3>1
  <2> HIDE DEF a, b
  <2>4. a \in 0..Len(u) /\ b \in a..Len(u) /\ b - a = c
    <3>1. b = a + c /\ b <= Len(u) /\ Len(u) \in Nat
      BY <1>5, <1>13, <2>3 DEF b
    <3> QED  BY <2>2, <2>3, <3>1
  <2>5. SubSeq(u, a + 1, b)[t] = u[a + t]
    BY <1>5, <2>2, <2>4, SliceFacts
  <2> QED  BY <1>10, <2>1, <2>3, <2>5
<1>. QED  BY <1>14, <1>15

(* What a node has for each of the next rows that is not null.             *)
LEMMA ChildFacts ==
    ASSUME ReaderInv, NEW n \in Nat, CanRead(n), NEW k \in Nodes,
           NEW i \in 1..n, rows[reader.row + i] # Null
    PROVE  LET flags == LoadNulls(n)
               row == rows[reader.row + i]
           IN  ReadAsChild(k, flags, ReadInMapData(k, Rank(flags, n)))[i] =
                 IF k \in DOMAIN row THEN <<row[k]>> ELSE <<>>
<1> DEFINE maps == NonNulls(rows)
           f == Present(rows, Null)
           flags == LoadNulls(n)
           a == reader.row
           row == rows[a + i]
           h == Has(maps, k)
           m == Rank(flags, n)
           p == reader.inMap[k]
           inMap == ReadInMapData(k, m)
           j == Rank(flags, i)
           values == LoadValues(k, Rank(inMap, Len(inMap)))
<1>1. /\ flags \in Seq(BOOLEAN) /\ Len(flags) = n
      /\ \A r \in 1..n : flags[r] = (rows[a + r] # Null)
      /\ \A r \in 0..n : Rank(flags, r) = Rank(f, a + r) - Rank(f, a)
  BY LoadNullsFacts
<1>2. /\ m \in Nat /\ p \in Nat /\ p + m <= Len(maps) /\ p = Rank(f, a)
      /\ \A r \in 1..m : inMap[r] = h[p + r]
  BY ReadInMapFacts
<1>3. /\ rows \in Seq(RowSet) /\ a + n <= Len(rows) /\ a \in Nat /\ Len(rows) \in Nat
  BY ReaderFields DEF CanRead
<1>4. /\ maps \in Seq(MapSet)
      /\ \A r \in 1..Len(rows) : rows[r] # Null =>
           Rank(f, r) \in 1..Len(maps) /\ maps[Rank(f, r)] = rows[r]
  BY <1>3, MapOfRow
<1>5. \A r \in 1..Len(maps) : h[r] = (k \in DOMAIN maps[r])
  BY <1>4, HasFacts
<1>6. \A r \in 1..m : k \in DOMAIN maps[p + r] => values[Rank(inMap, r)] = maps[p + r][k]
  BY LoadValuesFacts
<1>7. ReadAsChild(k, flags, inMap)[i] =
        IF flags[i] /\ inMap[Rank(flags, i)] THEN <<values[Rank(inMap, Rank(flags, i))]>> ELSE <<>>
  <2>1. i \in DOMAIN flags
    BY <1>1
  <2> HIDE DEF flags
  <2> QED  BY <2>1 DEF ReadAsChild
<1>8. row # Null /\ flags[i] = TRUE
  BY <1>1
<1> SUFFICES ReadAsChild(k, flags, inMap)[i] = IF k \in DOMAIN row THEN <<row[k]>> ELSE <<>>
  OBVIOUS
<1> HIDE DEF maps, f, flags, h, m, p, inMap, values, a
<1>9. a + i \in 1..Len(rows) /\ i \in 0..n /\ i \in 1..Len(flags)
  BY <1>1, <1>3
<1>10. j = Rank(f, a + i) - Rank(f, a) /\ Rank(f, a + i) \in Nat
  BY <1>1, <1>3, <1>4, <1>8, <1>9
<1>11. j \in 1..m
  BY <1>1, <1>8, <1>9, RankSet DEF m
<1>12. p + j = Rank(f, a + i) /\ maps[p + j] = row /\ p + j \in 1..Len(maps)
  <2>1. p + j = Rank(f, a + i)
    BY <1>2, <1>10
  <2> QED  BY <1>4, <1>8, <1>9, <2>1
<1> HIDE DEF j, row
<1>13. inMap[j] = (k \in DOMAIN row)
  BY <1>2, <1>5, <1>11, <1>12
<1>14. k \in DOMAIN row => values[Rank(inMap, j)] = row[k]
  BY <1>6, <1>11, <1>12
<1>15. ReadAsChild(k, flags, inMap)[i] =
         IF k \in DOMAIN row THEN <<values[Rank(inMap, j)]>> ELSE <<>>
  BY <1>7, <1>8, <1>13 DEF j
<1>. QED  BY <1>14, <1>15

(* A key that a row has and that is projected has a node.                  *)
LEMMA NodeOfKey ==
    ASSUME ReaderInv, reading, NEW i \in 1..Len(rows), rows[i] # Null, NEW k \in DOMAIN rows[i],
           Projects(reader.selection, k)
    PROVE  k \in Nodes
<1>1. rows \in Seq(RowSet)
  BY ReaderFields
<1>2. PICK q \in 1..Len(NonNulls(rows)) : NonNulls(rows)[q] = rows[i]
  BY <1>1, MapOfRow
<1>3. NonNulls(rows) \in Seq(MapSet) /\ rows[i] \in MapSet
  <2>1. NonNulls(rows) \in Seq(MapSet)
    BY <1>1, MapOfRow
  <2> DEFINE w == NonNulls(rows)
  <2> HIDE DEF w
  <2>2. w \in Seq(MapSet) /\ q \in 1..Len(w) /\ w[q] = rows[i]
    BY <1>2, <2>1 DEF w
  <2> QED  BY <2>1, <2>2
<1>4. k \in Keys
  <2>1. PICK D \in SUBSET Keys : rows[i] \in [D -> Values]
    BY <1>3 DEF MapSet
  <2> QED  BY <2>1
<1>5. q \in DOMAIN NonNulls(rows)
  BY <1>3
<1>6. ~NoneHas(NonNulls(rows), k)
  BY <1>2, <1>5 DEF NoneHas
<1>7. streams[InMap(k)] # <<>>
  BY <1>4, <1>6, ReaderFields DEF KeyEnded
<1>. QED  BY <1>4, <1>7 DEF Nodes

(* The row a reader makes of the nodes is the row, through the selection.  *)
LEMMA RowFacts ==
    ASSUME ReaderInv, NEW n \in Nat, CanRead(n), NEW i \in 1..n,
           rows[reader.row + i] # Null
    PROVE  LET flags == LoadNulls(n)
               children == [k \in Nodes |->
                              ReadAsChild(k, flags, ReadInMapData(k, Rank(flags, n)))]
           IN  Row(children, i) = Projected(rows[reader.row + i])
<1> DEFINE flags == LoadNulls(n)
           children == [k \in Nodes |->
                          ReadAsChild(k, flags, ReadInMapData(k, Rank(flags, n)))]
           row == rows[reader.row + i]
           sel == reader.selection
<1>1. \A k \in Nodes : children[k][i] = IF k \in DOMAIN row THEN <<row[k]>> ELSE <<>>
  BY ChildFacts
<1>2. DOMAIN children = Nodes
  OBVIOUS
<1>3. \A k \in Nodes : /\ children[k][i] # <<>> <=> k \in DOMAIN row
                       /\ k \in DOMAIN row => children[k][i][1] = row[k]
  <2>1. \A x : <<x>> # <<>> /\ <<x>>[1] = x
    OBVIOUS
  <2> QED  BY <1>1, <2>1
<1>4. /\ reading /\ sel \in Selections
      /\ reader.row + i \in 1..Len(rows)
  BY ReaderFields DEF CanRead
<1>5. sel # Null /\ row # Null
  BY <1>4, FlatMapAssumption
<1>6. \A k \in DOMAIN row : Projects(sel, k) => k \in Nodes
  BY <1>4, <1>5, NodeOfKey
<1>7. \A k \in Nodes : Projects(sel, k)
  BY DEF Nodes
<1> SUFFICES Row(children, i) = Projected(row)
  OBVIOUS
<1> HIDE DEF children, row
<1>8. CASE sel.asStruct
  <2>1. sel.mode = "Include"
    BY <1>4, <1>8, FlatMapAssumption
  <2>2. \A k : Projects(sel, k) <=> k \in sel.features
    BY <2>1 DEF Projects
  <2>3. \A k \in sel.features :
          (IF k \in DOMAIN children /\ children[k][i] # <<>> THEN children[k][i][1] ELSE Null)
            = (IF k \in DOMAIN row THEN row[k] ELSE Null)
    BY <1>2, <1>3, <1>6, <2>2
  <2>4. Row(children, i) =
          [k \in sel.features |->
             IF k \in DOMAIN children /\ children[k][i] # <<>> THEN children[k][i][1] ELSE Null]
    BY <1>8 DEF Row
  <2>5. Projected(row) = [k \in sel.features |-> IF k \in DOMAIN row THEN row[k] ELSE Null]
    BY <1>5, <1>8 DEF Projected
  <2> HIDE DEF sel
  <2> QED  BY <2>3, <2>4, <2>5
<1>9. CASE ~sel.asStruct
  <2>1. Row(children, i) =
          [k \in {c \in DOMAIN children : children[c][i] # <<>>} |-> children[k][i][1]]
    BY <1>9 DEF Row
  <2>2. Projected(row) = [k \in {c \in DOMAIN row : Projects(sel, c)} |-> row[k]]
    BY <1>5, <1>9 DEF Projected
  <2>3. {c \in DOMAIN children : children[c][i] # <<>>} = {c \in DOMAIN row : Projects(sel, c)}
    BY <1>2, <1>3, <1>6, <1>7
  <2>4. \A k \in {c \in DOMAIN row : Projects(sel, c)} : children[k][i][1] = row[k]
    BY <1>3, <1>6
  <2> DEFINE D == {c \in DOMAIN row : Projects(sel, c)}
  <2> HIDE DEF D
  <2>5. Row(children, i) = [k \in D |-> children[k][i][1]] /\ Projected(row) = [k \in D |-> row[k]]
    BY <2>1, <2>2, <2>3 DEF D
  <2>6. \A k \in D : children[k][i][1] = row[k]
    BY <2>4 DEF D
  <2> QED  BY <2>5, <2>6
<1>. QED  BY <1>8, <1>9

-----------------------------------------------------------------------------
(* The cursor the readers are                                              *)

(* The abstract cursor counts as the model does.                           *)
LEMMA CursorCounts ==
    ASSUME NEW S
    PROVE  Cursor!Cardinality(S) = Cardinality(S)
BY DEF Cursor!Cardinality, Cardinality

(* The rows of the cursor: all of the stripe, through the selection.       *)
CursorRows == [i \in DOMAIN rows |-> Projected(rows[i])]

(* The rows behind the cursor change only with the rows.                   *)
LEMMA SameCursorRows ==
    ASSUME rows' = rows, reader'.selection = reader.selection
    PROVE  CursorRows' = CursorRows
BY DEF CursorRows, Projected

(* A request for n rows takes the next n.                                  *)
LEMMA CursorNext ==
    ASSUME NEW n \in Nat
    PROVE  /\ Cursor!Cardinality(Cursor!Selected(AllTrue(n))) = n
           /\ Cursor!Delivered(AllTrue(n)) = [i \in 1..n |-> CursorRows[reader.row + i]]
<1> DEFINE b == AllTrue(n)
<1>1. DOMAIN b = 1..n /\ \A i \in 1..n : b[i] = TRUE
  BY DEF AllTrue
<1>2. Cursor!Selected(b) = 1..n
  <2> HIDE DEF b
  <2> QED  BY <1>1 DEF Cursor!Selected
<1>3. \A i \in Nat : Cardinality(1..i) = i
  BY FS_Interval
<1>4. \A i \in 1..n : Cardinality({j \in 1..n : j <= i}) = i
  <2> TAKE i \in 1..n
  <2>1. {j \in 1..n : j <= i} = 1..i /\ i \in Nat
    OBVIOUS
  <2> QED  BY <1>3, <2>1
<1>5. Cursor!Delivered(b) = [i \in 1..n |-> CursorRows[reader.row + i]]
  <2> HIDE DEF b
  <2>1. Cursor!Delivered(b) =
          [i \in DOMAIN b |->
             IF b[i]
             THEN CursorRows[reader.row
                               + Cursor!Cardinality({j \in Cursor!Selected(b) : j <= i})]
             ELSE Null]
    BY DEF Cursor!Delivered, CursorRows
  <2>2. \A i \in 1..n : Cursor!Cardinality({j \in Cursor!Selected(b) : j <= i}) = i
    BY <1>2, <1>4, CursorCounts
  <2> QED  BY <1>1, <2>1, <2>2
<1>. QED  BY <1>2, <1>3, <1>5, CursorCounts

(* next: the maps of the next rows, through the selection.                 *)
LEMMA NextRowsStep ==
    ASSUME ReaderInv, NEW n \in 0..MaxRows, NextRows(n)
    PROVE  ReaderInv' /\ Cursor!Next(AllTrue(n))
<1> DEFINE flags == LoadNulls(n)
           nonNull == Rank(flags, n)
           children == [k \in Nodes |-> ReadAsChild(k, flags, ReadInMapData(k, nonNull))]
           got(i) == IF flags[i] THEN Row(children, i) ELSE Null
<1>1. n \in Nat
  BY FlatMapAssumption
<1>2. /\ CanRead(n) /\ reading /\ reader.row + n <= Len(rows)
      /\ out' = [i \in 1..n |-> got(i)]
      /\ reader' = Advanced(n, nonNull) /\ UNCHANGED <<streams, rows, reading>>
  BY DEF NextRows, Deliver, CanRead
<1>3. ReaderInv' /\ reader'.row = reader.row + n /\ reader'.selection = reader.selection
  BY <1>1, <1>2, AdvancedStep
<1>4. /\ rows \in Seq(RowSet) /\ DOMAIN rows = 1..Len(rows)
      /\ \A i \in 1..n : reader.row + i \in 1..Len(rows)
  BY <1>1, <1>2, ReaderFields
<1>5. \A i \in 1..n : got(i) = CursorRows[reader.row + i]
  <2> TAKE i \in 1..n
  <2>1. CursorRows[reader.row + i] = Projected(rows[reader.row + i])
    BY <1>4 DEF CursorRows
  <2>2. flags[i] = (rows[reader.row + i] # Null)
    BY <1>1, <1>2, LoadNullsFacts
  <2>3. CASE rows[reader.row + i] # Null
    <3>1. Row(children, i) = Projected(rows[reader.row + i])
      BY <1>1, <1>2, <2>3, RowFacts
    <3> QED  BY <2>1, <2>2, <2>3, <3>1
  <2>4. CASE rows[reader.row + i] = Null
    <3>1. Projected(rows[reader.row + i]) = Null
      BY <2>4 DEF Projected
    <3> QED  BY <2>1, <2>2, <2>4, <3>1
  <2> QED  BY <2>3, <2>4
<1> HIDE DEF got
<1>6. out' = Cursor!Delivered(AllTrue(n))
  BY <1>1, <1>2, <1>5, CursorNext
<1>7. Cursor!Cardinality(Cursor!Selected(AllTrue(n))) = n
  BY <1>1, CursorNext
<1>8. CursorRows' = CursorRows
  BY <1>2, <1>3, SameCursorRows
<1>9. Len(CursorRows) = Len(rows)
  BY <1>4 DEF CursorRows
<1>10. Cursor!Next(AllTrue(n))
  BY <1>2, <1>3, <1>6, <1>7, <1>8, <1>9 DEF Cursor!Next, CursorRows
<1>. QED  BY <1>3, <1>10

(* skip.                                                                   *)
LEMMA SkipStep ==
    ASSUME ReaderInv, NEW n \in 0..MaxRows, Skip(n)
    PROVE  ReaderInv' /\ Cursor!Skip
<1>1. n \in Nat
  BY FlatMapAssumption
<1>2. /\ CanRead(n) /\ reading /\ reader.row + n <= Len(rows) /\ out' = <<>>
      /\ reader' = Advanced(n, Rank(LoadNulls(n), n)) /\ UNCHANGED <<streams, rows, reading>>
  BY DEF Skip, CanRead
<1>3. ReaderInv' /\ reader'.row = reader.row + n /\ reader'.selection = reader.selection
  BY <1>1, <1>2, AdvancedStep
<1>4. /\ rows \in Seq(RowSet) /\ DOMAIN rows = 1..Len(rows)
      /\ reader.row + n \in reader.row..Len(rows)
  BY <1>1, <1>2, ReaderFields
<1>5. CursorRows' = CursorRows
  BY <1>2, <1>3, SameCursorRows
<1>6. Len(CursorRows) = Len(rows)
  BY <1>4 DEF CursorRows
<1>7. Cursor!Skip
  BY <1>2, <1>3, <1>4, <1>5, <1>6 DEF Cursor!Skip, CursorRows
<1>. QED  BY <1>3, <1>7

(* reset: every decoder goes back to the start of its stream.              *)
LEMMA ResetReaderStep ==
    ASSUME ReaderInv, ResetReader
    PROVE  ReaderInv' /\ Cursor!Reset
<1>1. /\ reading /\ reader' = [NewReader EXCEPT !.selection = reader.selection]
      /\ out' = <<>> /\ UNCHANGED <<streams, rows, reading>>
  BY DEF ResetReader
<1>2. reader.selection \in Selections /\ rows \in Seq(RowSet)
  BY <1>1, ReaderFields
<1>3. reader'.selection = reader.selection /\ reader'.row = 0
  BY <1>1 DEF NewReader
<1>4. Positioned(reader', rows', Nodes')
  <2>1. Nodes' \in SUBSET Keys
    BY DEF Nodes
  <2> QED  BY <1>1, <1>2, <2>1, AtStart
<1>5. StripeEnded(rows', streams', reader'.selection)
  BY <1>1, <1>3 DEF ReaderInv
<1>6. CursorRows' = CursorRows
  BY <1>1, <1>3, SameCursorRows
<1>7. Cursor!Reset
  BY <1>1, <1>3, <1>6 DEF Cursor!Reset, CursorRows
<1>. QED  BY <1>4, <1>5, <1>7 DEF ReaderInv

-----------------------------------------------------------------------------
(* The theorems                                                            *)

(* Every step keeps the invariant.                                         *)
LEMMA FlatMapsStep ==
    ASSUME IInv, [Next]_vars
    PROVE  IInv'
<1> USE DEF IInv
<1>1. ASSUME NEW k \in 1..MaxBatch, NEW batch \in Batches(MapsAt, k), IngestMap(batch)
      PROVE  IInv'
  <2>1. k \in Nat /\ CanWrite(batch)
    BY <1>1, FlatMapAssumption DEF IngestMap
  <2>2. batch \in Seq({Null} \cup CallerMaps)
    BY <2>1, BatchTypes
  <2>3. ~reading'
    BY <1>1 DEF IngestMap, CanWrite, Throw
  <2> QED  BY <1>1, <2>2, <2>3, IngestMapStep DEF ReaderInv
<1>2. ASSUME NEW k \in 1..MaxBatch, NEW columns \in (SUBSET Keys) \ {{}},
             NEW batch \in Batches(LAMBDA n : FlattenedAt(columns, n), k),
             IngestFlattenedMap(columns, batch)
      PROVE  IInv'
  <2>1. k \in Nat /\ CanWrite(batch)
    BY <1>2, FlatMapAssumption DEF IngestFlattenedMap
  <2>2. batch \in Seq({Null} \cup [columns -> Values])
    BY <2>1, BatchTypes
  <2>3. ~reading'
    BY <1>2 DEF IngestFlattenedMap, CanWrite, Throw
  <2> QED  BY <1>2, <2>2, <2>3, IngestFlattenedMapStep DEF ReaderInv
<1>3. CASE FlushChunk
  BY <1>3, FlushChunkStep DEF FlushChunk, ReaderInv
<1>4. CASE NextStripe
  BY <1>4, NextStripeStep DEF NextStripe, ReaderInv
<1>5. ASSUME NEW selection \in Selections, OpenStripe(selection) PROVE IInv'
  BY <1>5, OpenStripeStep DEF OpenStripe, WriterInv
<1>6. ASSUME NEW n \in 0..MaxRows, NextRows(n) \/ Skip(n) PROVE IInv'
  <2>1. reading'
    BY <1>6 DEF NextRows, Skip, CanRead
  <2> QED  BY <1>6, <2>1, NextRowsStep, SkipStep DEF WriterInv
<1>7. CASE ResetReader
  BY <1>7, ResetReaderStep DEF ResetReader, WriterInv
<1>8. CASE UNCHANGED vars
  <2>1. WriterInv'
    BY <1>8 DEF vars, WriterInv
  <2>2. ReaderInv'
    BY <1>8 DEF vars, ReaderInv, Nodes
  <2> QED  BY <2>1, <2>2
<1>. QED  BY <1>1, <1>2, <1>3, <1>4, <1>5, <1>6, <1>7, <1>8 DEF Next

(* Key by key, the streams have taken what the maps say, and the decoders  *)
(* of an open stripe stand behind the rows read, always: for any keys,     *)
(* maps, selections, chunk sizes and orders of calls.                      *)
THEOREM FlatMapInvariant == Spec => []IInv
<1>1. Init => IInv
  BY InitHeld DEF Init, IInv, ReaderInv
<1>2. IInv /\ [Next]_vars => IInv'
  BY FlatMapsStep
<1>. QED  BY <1>1, <1>2, PTL DEF Spec

(* For any calls of write, of either kind, and wherever chunks are cut:    *)
(* the streams of a key whose contract callers kept say which of the maps  *)
(* of the stripe have it, and with which values.                           *)
THEOREM FlatStreamsHoldMaps == Spec => []StreamsHoldMaps
<1>1. IInv => StreamsHoldMaps
  BY HeldStreams DEF IInv
<1>. QED  BY <1>1, FlatMapInvariant, PTL

(* Whichever keys are selected, as a struct or merged, every call of next, *)
(* skip and reset is a step of a cursor over the maps written: the         *)
(* positions in the streams of all keys agree with the row.                *)
THEOREM FlatMapsDelivered == Spec => DeliversMaps
<1> DEFINE Delivers == reading => Cursor!Step
<1>1. IInv /\ [Next]_vars => [Delivers]_vars
  <2> SUFFICES ASSUME ReaderInv, Next, reading PROVE Cursor!Step
    BY DEF IInv
  <2>1. \A batch : ~IngestMap(batch) /\ \A columns : ~IngestFlattenedMap(columns, batch)
    BY DEF IngestMap, IngestFlattenedMap, CanWrite
  <2>2. ~FlushChunk /\ ~NextStripe /\ \A selection : ~OpenStripe(selection)
    BY DEF FlushChunk, NextStripe, OpenStripe
  <2>3. ASSUME NEW n \in 0..MaxRows, NextRows(n) PROVE Cursor!Step
    <3>1. Cursor!Next(AllTrue(n))
      BY <2>3, NextRowsStep
    <3> QED  BY <3>1 DEF Cursor!Step
  <2>4. ASSUME NEW n \in 0..MaxRows, Skip(n) PROVE Cursor!Step
    BY <2>4, SkipStep DEF Cursor!Step
  <2>5. CASE ResetReader
    BY <2>5, ResetReaderStep DEF Cursor!Step
  <2> QED  BY <2>1, <2>2, <2>3, <2>4, <2>5 DEF Next
<1>2. Spec => [][Delivers]_vars
  <2> HIDE DEF Delivers
  <2> QED  BY <1>1, FlatMapInvariant, PTL DEF Spec
<1>. QED  BY <1>2 DEF DeliversMaps
=============================================================================
