----------------------- MODULE SlidingWindowMapProofs -----------------------
(***************************************************************************)
(* Proofs about SlidingWindowMap, for any maps, batches and calls: the     *)
(* streams hold the maps written, and the reader delivers them as long as  *)
(* cursorPos_ is where its readers of keys and values stand.               *)
(***************************************************************************)
EXTENDS SlidingWindowMap, SequenceFacts

Entry == UNION {Entries(map) : map \in Maps}
RowType == {Entries(map) : map \in Maps} \cup {Null}
OffsetType == Nat \cup {Null}

StateType ==
    [rows : Seq(RowType), offsets : Seq(OffsetType), lengths : Seq(Nat),
     entries : Seq(Entry),
     writer : [offset : Nat, cached : BOOLEAN, value : Seq(Entry)]]

(* The k-th map that is not null is used[k], of lengths[k] entries.        *)
Window(used, lens, ents, k) ==
    SubSeq(ents, used[k] + 1, used[k] + lens[k])

(* Every row that is not null has its entries in its window.               *)
MapsHeld(used, lens, ents, maps) ==
    /\ Len(lens) = Len(used) /\ Len(maps) = Len(used)
    /\ \A k \in 1..Len(used) :
         /\ used[k] \in Nat
         /\ used[k] + lens[k] <= Len(ents)
         /\ Entries(Window(used, lens, ents, k)) = maps[k]
    /\ \A k \in 2..Len(used) :
         \/ used[k] = used[k - 1] /\ lens[k] = lens[k - 1]
         \/ used[k] = used[k - 1] + lens[k - 1]

(* Null rows have null offsets.                                            *)
SameNulls(rs, os) ==
    Len(os) = Len(rs) /\ \A i \in 1..Len(rs) : rs[i] = Null <=> os[i] = Null

(* The writer stands behind all entries, which end with those of the map   *)
(* it compares the next one with.                                          *)
WriterBehind(used, lens, ents, maps, w) ==
    LET n == Len(used)
    IN  /\ w.offset = Len(ents)
        /\ w.cached <=> n > 0
        /\ n > 0 => /\ lens[n] = Len(w.value)
                    /\ maps[n] = Entries(w.value)
                    /\ used[n] + lens[n] = Len(ents)

StreamsOK(rs, os, lens, ents) ==
    /\ SameNulls(rs, os)
    /\ MapsHeld(NonNulls(os), lens, ents, NonNulls(rs))

Good(s) ==
    /\ s \in StateType
    /\ StreamsOK(s.rows, s.offsets, s.lengths, s.entries)
    /\ WriterBehind(NonNulls(s.offsets), s.lengths, s.entries,
                    NonNulls(s.rows), s.writer)

-----------------------------------------------------------------------------
(* Rows                                                                    *)

(* A map is a sequence of entries, and different from null.                *)
LEMMA MapType ==
    ASSUME NEW map \in Maps
    PROVE  /\ map \in Seq(Entry) /\ map # Null
           /\ Entries(map) \in RowType /\ Entries(map) # Null
           /\ Len(map) \in Nat
<1>1. map \in Seq(Entries(map)) /\ map # Null /\ Entries(map) # Null
  BY MapsAssumption
<1>2. Entries(map) \subseteq Entry /\ Entries(map) \in RowType
  BY DEF Entry, RowType
<1> DEFINE E == Entries(map)
<1>3. map \in Seq(Entry)
  <2> HIDE DEF E
  <2>1. map \in Seq(E) /\ E \subseteq Entry
    BY <1>1, <1>2 DEF E
  <2> QED  BY <2>1
<1>. QED  BY <1>1, <1>2, <1>3

(* One more row, null or not, in both sequences.                           *)
LEMMA SameNullsAppend ==
    ASSUME NEW R, NEW O, NEW rs \in Seq(R), NEW os \in Seq(O), SameNulls(rs, os),
           NEW r \in R, NEW o \in O, r = Null <=> o = Null
    PROVE  SameNulls(Append(rs, r), Append(os, o))
<1> DEFINE a == Append(rs, r)
           b == Append(os, o)
<1>1. Len(rs) \in Nat /\ Len(os) = Len(rs)
  BY DEF SameNulls
<1>2. /\ Len(a) = Len(rs) + 1 /\ Len(b) = Len(rs) + 1
      /\ a[Len(rs) + 1] = r /\ b[Len(rs) + 1] = o
      /\ \A i \in 1..Len(rs) : a[i] = rs[i] /\ b[i] = os[i]
  BY <1>1
<1> HIDE DEF a, b
<1>3. ASSUME NEW i \in 1..Len(a) PROVE a[i] = Null <=> b[i] = Null
  <2>1. CASE i = Len(rs) + 1
    BY <1>2, <2>1
  <2>2. CASE i # Len(rs) + 1
    <3>1. i \in 1..Len(rs)
      BY <1>1, <1>2, <2>2
    <3> QED  BY <1>2, <3>1 DEF SameNulls
  <2> QED  BY <2>1, <2>2
<1>4. SameNulls(a, b)
  BY <1>2, <1>3 DEF SameNulls
<1>. QED  BY <1>4 DEF a, b

(* Behind the entries there is room for more: windows stay what they were. *)
LEMMA WindowKept ==
    ASSUME NEW ents \in Seq(Entry), NEW more \in Seq(Entry),
           NEW a \in Nat, NEW n \in Nat, a + n <= Len(ents)
    PROVE  SubSeq(ents \o more, a + 1, a + n) = SubSeq(ents, a + 1, a + n)
OBVIOUS

(* One more window, the last one again or behind it.                       *)
LEMMA MapsHeldAppend ==
    ASSUME NEW used \in Seq(OffsetType), NEW lens \in Seq(Nat), NEW ents \in Seq(Entry),
           NEW maps \in Seq(RowType), MapsHeld(used, lens, ents, maps),
           NEW more \in Seq(Entry), NEW o \in Nat, NEW l \in Nat, NEW m,
           m \in RowType, o + l <= Len(ents \o more),
           Entries(SubSeq(ents \o more, o + 1, o + l)) = m,
           Len(used) > 0 =>
             \/ o = used[Len(used)] /\ l = lens[Len(used)]
             \/ o = used[Len(used)] + lens[Len(used)]
    PROVE  MapsHeld(Append(used, o), Append(lens, l), ents \o more, Append(maps, m))
<1> DEFINE u == Append(used, o)
           ls == Append(lens, l)
           ms == Append(maps, m)
           e == ents \o more
           n == Len(used)
<1>1. n \in Nat /\ Len(lens) = n /\ Len(maps) = n
  BY DEF MapsHeld
<1>2. /\ Len(u) = n + 1 /\ Len(ls) = n + 1 /\ Len(ms) = n + 1
      /\ u[n + 1] = o /\ ls[n + 1] = l /\ ms[n + 1] = m
      /\ \A k \in 1..n : u[k] = used[k] /\ ls[k] = lens[k] /\ ms[k] = maps[k]
  BY <1>1
<1>3. Len(e) \in Nat /\ Len(ents) <= Len(e) /\ Len(ents) \in Nat
  OBVIOUS
<1> HIDE DEF u, ls, ms
<1>4. ASSUME NEW k \in 1..(n + 1)
      PROVE  /\ u[k] \in Nat /\ u[k] + ls[k] <= Len(e)
             /\ Entries(Window(u, ls, e, k)) = ms[k]
  <2>1. CASE k = n + 1
    BY <1>2, <2>1 DEF Window
  <2>2. CASE k # n + 1
    <3>1. k \in 1..n
      BY <1>1, <2>2
    <3>2. /\ used[k] \in Nat /\ lens[k] \in Nat /\ used[k] + lens[k] <= Len(ents)
          /\ Entries(Window(used, lens, ents, k)) = maps[k]
      <4>1. lens[k] \in Nat
        BY <1>1, <3>1
      <4> HIDE DEF n
      <4>2. k \in 1..Len(used)
        BY <3>1 DEF n
      <4> QED  BY <4>1, <4>2 DEF MapsHeld
    <3>3. SubSeq(e, used[k] + 1, used[k] + lens[k]) = SubSeq(ents, used[k] + 1, used[k] + lens[k])
      BY <3>2, WindowKept, ZenonT(30)
    <3> HIDE DEF e
    <3>4. u[k] = used[k] /\ ls[k] = lens[k] /\ ms[k] = maps[k]
      BY <1>2, <3>1
    <3>5. Window(u, ls, e, k) = Window(used, lens, ents, k)
      BY <3>3, <3>4 DEF Window
    <3>6. used[k] + lens[k] <= Len(e)
      <4>1. used[k] + lens[k] \in Nat
        BY ONLY <3>2, SMTT(30)
      <4> QED  BY ONLY <1>3, <3>2, <4>1
    <3> QED  BY <3>2, <3>4, <3>5, <3>6
  <2> QED  BY <2>1, <2>2
<1> HIDE DEF e
<1>5. ASSUME NEW k \in 2..(n + 1)
      PROVE  \/ u[k] = u[k - 1] /\ ls[k] = ls[k - 1]
             \/ u[k] = u[k - 1] + ls[k - 1]
  <2>1. CASE k = n + 1
    <3>1. n > 0 /\ n \in 1..n /\ k - 1 = n
      BY <1>1, <2>1
    <3> QED  BY <1>2, <2>1, <3>1
  <2>2. CASE k # n + 1
    <3>1. k \in 2..n /\ k \in 1..n /\ k - 1 \in 1..n
      BY <1>1, <2>2
    <3>2. \/ used[k] = used[k - 1] /\ lens[k] = lens[k - 1]
          \/ used[k] = used[k - 1] + lens[k - 1]
      BY <3>1 DEF MapsHeld
    <3> QED  BY <1>2, <3>1, <3>2
  <2> QED  BY <2>1, <2>2
<1>6. MapsHeld(u, ls, e, ms)
  BY <1>1, <1>2, <1>4, <1>5 DEF MapsHeld
<1>. QED  BY <1>6 DEF u, ls, e, ms

-----------------------------------------------------------------------------
(* Writing                                                                 *)

(* The fields of a good state.                                             *)
LEMMA GoodFields ==
    ASSUME NEW s, Good(s)
    PROVE  /\ s.rows \in Seq(RowType) /\ s.offsets \in Seq(OffsetType)
           /\ s.lengths \in Seq(Nat) /\ s.entries \in Seq(Entry)
           /\ s.writer \in [offset : Nat, cached : BOOLEAN, value : Seq(Entry)]
           /\ NonNulls(s.rows) \in Seq(RowType)
           /\ NonNulls(s.offsets) \in Seq(OffsetType)
<1>1. /\ s.rows \in Seq(RowType) /\ s.offsets \in Seq(OffsetType)
      /\ s.lengths \in Seq(Nat) /\ s.entries \in Seq(Entry)
      /\ s.writer \in [offset : Nat, cached : BOOLEAN, value : Seq(Entry)]
  BY DEF Good, StateType
<1>2. NonNulls(s.rows) \in Seq(RowType) /\ NonNulls(s.offsets) \in Seq(OffsetType)
  BY <1>1, WithoutType DEF NonNulls
<1>. QED  BY <1>1, <1>2

(* A null row moves nothing but the nulls.                                 *)
LEMMA NullRowGood ==
    ASSUME NEW s, Good(s)
    PROVE  Good(ProcessRow(s, Null))
<1> DEFINE t == ProcessRow(s, Null)
           rs == Append(s.rows, Null)
           os == Append(s.offsets, Null)
<1>1. t = [rows |-> rs, offsets |-> os, lengths |-> s.lengths,
           entries |-> s.entries, writer |-> s.writer]
  BY DEF ProcessRow
<1>2. /\ t.rows = rs /\ t.offsets = os /\ t.lengths = s.lengths
      /\ t.entries = s.entries /\ t.writer = s.writer
  BY <1>1
<1>3. Null \in RowType /\ Null \in OffsetType
  BY DEF RowType, OffsetType
<1>4. NonNulls(rs) = NonNulls(s.rows) /\ NonNulls(os) = NonNulls(s.offsets)
  BY <1>3, GoodFields, WithoutAppend DEF NonNulls
<1>5. SameNulls(rs, os)
  BY <1>3, GoodFields, SameNullsAppend DEF Good, StreamsOK
<1>6. rs \in Seq(RowType) /\ os \in Seq(OffsetType)
  BY <1>3, GoodFields
<1> HIDE DEF t, rs, os
<1>7. t \in StateType
  BY <1>1, <1>6, GoodFields DEF StateType
<1>8. Good(t)
  BY <1>2, <1>4, <1>5, <1>7 DEF Good, StreamsOK
<1>. QED  BY <1>8 DEF t

(* A map is found equal to the last one and shares its window, or its      *)
(* entries follow.                                                         *)
LEMMA MapGood ==
    ASSUME NEW s, Good(s), NEW map \in Maps
    PROVE  Good(ProcessMap(s, map))
<1> DEFINE w == s.writer
           used == NonNulls(s.offsets)
           maps == NonNulls(s.rows)
           n == Len(used)
           len == Len(map)
           m == Entries(map)
           match == IsDuplicate(w, map)
           more == IF match THEN <<>> ELSE map
           current == w.offset + IF match THEN 0 ELSE Len(map)
           o == current - len
           e == s.entries \o more
           t == ProcessMap(s, map)
<1>1. /\ map \in Seq(Entry) /\ map # Null /\ m \in RowType /\ m # Null /\ len \in Nat
  BY MapType
<1>2. /\ s.rows \in Seq(RowType) /\ s.offsets \in Seq(OffsetType)
      /\ s.lengths \in Seq(Nat) /\ s.entries \in Seq(Entry)
      /\ w.offset \in Nat /\ w.cached \in BOOLEAN /\ w.value \in Seq(Entry)
      /\ maps \in Seq(RowType) /\ used \in Seq(OffsetType)
  BY GoodFields
<1>3. /\ MapsHeld(used, s.lengths, s.entries, maps)
      /\ WriterBehind(used, s.lengths, s.entries, maps, w)
      /\ SameNulls(s.rows, s.offsets)
  BY DEF Good, StreamsOK
<1>4. /\ n \in Nat /\ Len(s.lengths) = n /\ Len(maps) = n
      /\ w.offset = Len(s.entries) /\ Len(s.entries) \in Nat
      /\ w.cached <=> n > 0
      /\ n > 0 => /\ s.lengths[n] = Len(w.value) /\ maps[n] = Entries(w.value)
                  /\ used[n] + s.lengths[n] = Len(s.entries)
                  /\ used[n] \in Nat /\ s.lengths[n] \in Nat
  <2>1. n \in Nat /\ Len(s.lengths) = n /\ Len(maps) = n /\ Len(s.entries) \in Nat
    BY <1>2, <1>3 DEF MapsHeld
  <2>2. /\ w.offset = Len(s.entries)
        /\ w.cached <=> n > 0
        /\ n > 0 => /\ s.lengths[n] = Len(w.value) /\ maps[n] = Entries(w.value)
                    /\ used[n] + s.lengths[n] = Len(s.entries)
    BY <1>3 DEF WriterBehind
  <2>3. ASSUME n > 0 PROVE used[n] \in Nat /\ s.lengths[n] \in Nat
    <3>1. n \in 1..n
      BY <2>1, <2>3
    <3>2. used[n] \in Nat
      BY <1>3, <3>1 DEF MapsHeld
    <3>3. s.lengths[n] \in Nat
      BY <1>2, <2>1, <3>1
    <3> QED  BY <3>2, <3>3
  <2> QED  BY <2>1, <2>2, <2>3
<1>5. /\ t.rows = Append(s.rows, m) /\ t.offsets = Append(s.offsets, o)
      /\ t.lengths = Append(s.lengths, len)
      /\ t.entries = (IF match THEN s.entries ELSE s.entries \o map)
      /\ t.writer = [offset |-> current, cached |-> TRUE, value |-> map]
      /\ t = [rows |-> t.rows, offsets |-> t.offsets, lengths |-> t.lengths,
              entries |-> t.entries, writer |-> t.writer]
  BY DEF ProcessMap
<1> HIDE DEF t, m, len
<1>6. more \in Seq(Entry) /\ e \in Seq(Entry) /\ t.entries = e
      /\ Len(e) = Len(s.entries) + Len(more) /\ Len(e) \in Nat
  <2>1. s.entries \o <<>> = s.entries
    BY <1>2
  <2> HIDE DEF match
  <2>2. more \in Seq(Entry)
    BY <1>1
  <2>3. t.entries = e
    BY <1>5, <2>1
  <2> HIDE DEF more
  <2> QED  BY <1>2, <2>2, <2>3
<1>7. match => /\ n > 0 /\ len = s.lengths[n] /\ m = maps[n] /\ o = used[n]
               /\ current = Len(e) /\ more = <<>>
  <2> SUFFICES ASSUME match
               PROVE  /\ n > 0 /\ len = s.lengths[n] /\ m = maps[n] /\ o = used[n]
                      /\ current = Len(e) /\ more = <<>>
    OBVIOUS
  <2>1. w.cached /\ Len(w.value) = len /\ Entries(w.value) = m
    BY DEF IsDuplicate, CompareMaps, len, m
  <2>2. n > 0 /\ len = s.lengths[n] /\ m = maps[n]
    BY <1>4, <2>1
  <2>3. more = <<>> /\ Len(more) = 0 /\ current = w.offset + 0
    OBVIOUS
  <2> HIDE DEF more, current, match, used, n, w, e
  <2>4. current = Len(e) /\ current - len = used[n]
    BY <1>4, <1>6, <2>2, <2>3
  <2> QED  BY <2>2, <2>3, <2>4
<1>8. ~match => o = Len(s.entries) /\ current = Len(e) /\ more = map
  <2> SUFFICES ASSUME ~match
               PROVE  o = Len(s.entries) /\ current = Len(e) /\ more = map
    OBVIOUS
  <2>1. more = map /\ current = w.offset + len
    BY DEF len
  <2>2. Len(more) = len
    BY <2>1 DEF len
  <2> HIDE DEF more, current, match, w, e
  <2> QED  BY <1>1, <1>4, <1>6, <2>1, <2>2
<1> HIDE DEF match, more, current, w
<1>9. o \in Nat /\ o + len = Len(e) /\ o \in OffsetType /\ o # Null
  <2>1. o \in Nat /\ o + len = current /\ current = Len(e)
    <3>1. CASE match
      BY <1>1, <1>4, <1>6, <1>7, <3>1
    <3>2. CASE ~match
      BY <1>1, <1>4, <1>6, <1>8, <3>2
    <3> QED  BY <3>1, <3>2
  <2> HIDE DEF o
  <2> QED  BY <2>1, MapsAssumption DEF OffsetType
<1>10. Entries(SubSeq(e, o + 1, o + len)) = m
  <2>1. CASE match
    <3>1. n \in 1..n /\ used[n] + s.lengths[n] <= Len(s.entries)
      BY <1>4, <1>7, <2>1
    <3>2. Entries(Window(used, s.lengths, s.entries, n)) = maps[n]
      BY <1>3, <3>1 DEF MapsHeld
    <3>3. e = s.entries
      BY <1>2, <1>7, <2>1, SMTT(30)
    <3> QED  BY <1>7, <2>1, <3>2, <3>3 DEF Window
  <2>2. CASE ~match
    <3>1. SubSeq(e, Len(s.entries) + 1, Len(e)) = more
      <4>1. s.entries \in Seq(Entry) /\ more \in Seq(Entry)
        BY <1>2, <1>6
      <4> QED  BY ONLY <4>1, ConcatSplit
    <3> QED  BY <1>8, <1>9, <2>2, <3>1 DEF m
  <2> QED  BY <2>1, <2>2
<1>11. n > 0 => \/ o = used[n] /\ len = s.lengths[n]
                \/ o = used[n] + s.lengths[n]
  BY <1>4, <1>7, <1>8
<1> HIDE DEF o
<1>12. MapsHeld(Append(used, o), Append(s.lengths, len), e, Append(maps, m))
  <2>1. o + len <= Len(e)
    BY <1>9, <1>6
  <2> HIDE DEF used, maps
  <2> QED  BY <1>1, <1>2, <1>3, <1>6, <1>9, <1>10, <1>11, <2>1, MapsHeldAppend DEF e, n
<1>13. NonNulls(t.offsets) = Append(used, o) /\ NonNulls(t.rows) = Append(maps, m)
  <2>1. NonNulls(Append(s.offsets, o)) = Append(used, o)
    BY <1>2, <1>9, WithoutAppend DEF NonNulls
  <2>2. NonNulls(Append(s.rows, m)) = Append(maps, m)
    BY <1>1, <1>2, WithoutAppend DEF NonNulls
  <2> QED  BY <1>5, <2>1, <2>2
<1>14. SameNulls(t.rows, t.offsets)
  BY <1>1, <1>2, <1>3, <1>5, <1>9, SameNullsAppend
<1>15. current = Len(e) /\ current \in Nat
  BY <1>6, <1>7, <1>8
<1>16. t \in StateType
  <2>1. t.rows \in Seq(RowType) /\ t.offsets \in Seq(OffsetType) /\ t.lengths \in Seq(Nat)
    BY <1>1, <1>2, <1>5, <1>9
  <2>2. t.writer \in [offset : Nat, cached : BOOLEAN, value : Seq(Entry)]
    BY <1>1, <1>5, <1>15
  <2> QED  BY <1>5, <1>6, <2>1, <2>2 DEF StateType
<1>17. WriterBehind(Append(used, o), Append(s.lengths, len), e, Append(maps, m), t.writer)
  <2> HIDE DEF used, maps, e
  <2>1. /\ Len(Append(used, o)) = n + 1 /\ n + 1 > 0 /\ Append(used, o)[n + 1] = o
        /\ Append(s.lengths, len)[n + 1] = len /\ Append(maps, m)[n + 1] = m
    <3>1. /\ n \in Nat /\ n = Len(used) /\ Len(s.lengths) = n /\ Len(maps) = n
          /\ used \in Seq(OffsetType) /\ o \in OffsetType
          /\ s.lengths \in Seq(Nat) /\ len \in Nat
          /\ maps \in Seq(RowType) /\ m \in RowType
      BY <1>1, <1>2, <1>4, <1>9
    <3>2. Len(Append(used, o)) = n + 1 /\ Append(used, o)[n + 1] = o
      BY ONLY <3>1
    <3>3. Append(s.lengths, len)[n + 1] = len
      BY ONLY <3>1
    <3>4. Append(maps, m)[n + 1] = m
      BY ONLY <3>1
    <3>5. n + 1 > 0
      BY ONLY <3>1
    <3> QED  BY <3>2, <3>3, <3>4, <3>5
  <2>2. t.writer.offset = Len(e) /\ t.writer.cached = TRUE /\ t.writer.value = map
    BY <1>5, <1>15
  <2>3. Len(t.writer.value) = len /\ Entries(t.writer.value) = m
    BY <2>2 DEF len, m
  <2> QED  BY <1>9, <2>1, <2>2, <2>3 DEF WriterBehind
<1>18. Good(t)
  BY <1>5, <1>6, <1>12, <1>13, <1>14, <1>16, <1>17 DEF Good, StreamsOK
<1>. QED  BY <1>18 DEF t

(* A row, null or not.                                                     *)
LEMMA RowGood ==
    ASSUME NEW s, Good(s), NEW row \in Maps \cup {Null}
    PROVE  Good(ProcessRow(s, row))
<1>1. CASE row = Null
  BY <1>1, NullRowGood
<1>2. CASE row # Null
  <2>1. row \in Maps /\ ProcessRow(s, row) = ProcessMap(s, row)
    BY <1>2 DEF ProcessRow
  <2> QED  BY <2>1, MapGood
<1>. QED  BY <1>1, <1>2

(* What the streams and the writer hold.                                   *)
Held == [rows |-> rows, offsets |-> offsets, lengths |-> lengths,
         entries |-> entries, writer |-> writer]

(* A batch, row by row.                                                    *)
LEMMA BatchGood ==
    ASSUME Good(Held), NEW batch \in Seq(Maps \cup {Null})
    PROVE  Good(Ingested(batch))
<1> DEFINE n == Len(batch)
           D == {s \in StateType : Good(s)}
           step == [i \in 1..n |-> [s \in D |-> ProcessRow(s, batch[i])]]
           IsFcn(h) ==
             h = [i \in 0..n |->
                    IF i = 0 THEN Held ELSE ProcessRow(h[i - 1], batch[i])]
           after == CHOOSE h : IsFcn(h)
<1>1. n \in Nat /\ \A i \in 1..n : batch[i] \in Maps \cup {Null}
  OBVIOUS
<1>2. Held \in D
  BY DEF Good
<1>3. \A i \in 1..n : \A s \in D : ProcessRow(s, batch[i]) \in D
  <2> SUFFICES ASSUME NEW i \in 1..n, NEW s \in D PROVE ProcessRow(s, batch[i]) \in D
    OBVIOUS
  <2>1. Good(ProcessRow(s, batch[i]))
    BY <1>1, RowGood
  <2> QED  BY <2>1 DEF Good
<1> HIDE DEF D, n
<1>4. step \in [1..n -> [D -> D]]
  BY <1>3
<1>5. \A i \in 1..n : \A s \in D : step[i][s] = ProcessRow(s, batch[i])
  OBVIOUS
<1> HIDE DEF step
<1>6. PICK f \in [0..n -> D] : IsIteration(f, Held, step, n)
  BY <1>1, <1>2, <1>4, IterationExists
<1>7. IsFcn(f)
  <2>1. f[0] = Held /\ \A i \in 1..n : f[i] = step[i][f[i - 1]]
    BY <1>6 DEF IsIteration
  <2>2. \A i \in 1..n : f[i] = ProcessRow(f[i - 1], batch[i])
    <3> TAKE i \in 1..n
    <3>1. i - 1 \in 0..n
      BY <1>1
    <3>2. f[i - 1] \in D
      BY <3>1
    <3> QED  BY <1>5, <2>1, <3>2
  <2>3. \A i \in 0..n : f[i] = IF i = 0 THEN Held ELSE ProcessRow(f[i - 1], batch[i])
    <3> TAKE i \in 0..n
    <3>1. CASE i = 0
      BY <2>1, <3>1
    <3>2. CASE i # 0
      <4>1. i \in 1..n
        BY <1>1, <3>2
      <4> QED  BY <2>2, <3>2, <4>1
    <3> QED  BY <3>1, <3>2
  <2> QED  BY <2>3
<1>8. IsFcn(after)
  BY <1>7
<1> HIDE DEF after
<1>9. /\ after[0] = Held
      /\ \A i \in 1..n : after[i] = ProcessRow(after[i - 1], batch[i])
  <2>1. \A i \in 0..n : after[i] = IF i = 0 THEN Held ELSE ProcessRow(after[i - 1], batch[i])
    BY <1>8
  <2>2. 0 \in 0..n /\ \A i \in 1..n : i \in 0..n /\ i # 0
    BY <1>1
  <2> QED  BY <2>1, <2>2
<1> HIDE DEF IsFcn
<1>10. 0..n \subseteq {i \in 0..n : after[i] \in D}
  <2> DEFINE T == {i \in 0..n : after[i] \in D}
  <2>1. 0 \in T
    BY <1>1, <1>2, <1>9
  <2>2. \A i \in 1..n : i - 1 \in T => i \in T
    <3> SUFFICES ASSUME NEW i \in 1..n, i - 1 \in T PROVE i \in T
      OBVIOUS
    <3>1. after[i] \in D
      BY <1>3, <1>9
    <3>2. i \in 0..n
      BY <1>1
    <3> QED  BY <3>1, <3>2
  <2> HIDE DEF T
  <2>3. 0..n \subseteq T
    BY <1>1, <2>1, <2>2, Climb
  <2> QED  BY <2>3 DEF T
<1>11. n \in 0..n
  BY <1>1
<1>12. after[n] \in D
  BY <1>10, <1>11
<1>13. Ingested(batch) = after[n]
  BY DEF Ingested, after, IsFcn, n, Held
<1>. QED  BY <1>12, <1>13 DEF D

-----------------------------------------------------------------------------
(* The invariant                                                           *)

(* The streams hold the rows; until the stripe is finished, the writer     *)
(* stands behind them.                                                     *)
WriterInv ==
    /\ rows \in Seq(RowType) /\ offsets \in Seq(OffsetType)
    /\ lengths \in Seq(Nat) /\ entries \in Seq(Entry)
    /\ StreamsOK(rows, offsets, lengths, entries)
    /\ ~reading => Good(Held)

(* The fields of a good state are what the streams hold.                   *)
LEMMA GoodStreams ==
    ASSUME NEW s, Good(s)
    PROVE  /\ s.rows \in Seq(RowType) /\ s.offsets \in Seq(OffsetType)
           /\ s.lengths \in Seq(Nat) /\ s.entries \in Seq(Entry)
           /\ StreamsOK(s.rows, s.offsets, s.lengths, s.entries)
           /\ s = [rows |-> s.rows, offsets |-> s.offsets, lengths |-> s.lengths,
                   entries |-> s.entries, writer |-> s.writer]
BY DEF Good, StateType

(* A stripe without rows.                                                  *)
LEMMA EmptyGood ==
    Good([rows |-> <<>>, offsets |-> <<>>, lengths |-> <<>>, entries |-> <<>>,
          writer |-> NewWriter])
<1> DEFINE s == [rows |-> <<>>, offsets |-> <<>>, lengths |-> <<>>, entries |-> <<>>,
                 writer |-> NewWriter]
<1>1. s \in StateType
  BY DEF StateType, NewWriter
<1>2. NonNulls(<<>>) = <<>> /\ Len(<<>>) = 0
  BY WithoutEmpty DEF NonNulls
<1>3. SameNulls(<<>>, <<>>)
  BY DEF SameNulls
<1>4. MapsHeld(<<>>, <<>>, <<>>, <<>>)
  BY DEF MapsHeld
<1>5. WriterBehind(<<>>, <<>>, <<>>, <<>>, NewWriter)
  BY DEF WriterBehind, NewWriter
<1>6. /\ s.rows = <<>> /\ s.offsets = <<>> /\ s.lengths = <<>> /\ s.entries = <<>>
      /\ s.writer = NewWriter
  OBVIOUS
<1> HIDE DEF s
<1>7. Good(s)
  BY <1>1, <1>2, <1>3, <1>4, <1>5, <1>6 DEF Good, StreamsOK
<1>. QED  BY <1>7 DEF s

(* write and reset of the writer.                                          *)
LEMMA WriteStep ==
    ASSUME WriterInv, NEW batch \in Seq(Maps \cup {Null}), Write(batch) \/ Reset
    PROVE  WriterInv'
<1>1. CASE Write(batch)
  <2> DEFINE s == Ingested(batch)
  <2>1. Good(Held)
    BY <1>1 DEF WriterInv, Write
  <2>2. Good(s)
    BY <2>1, BatchGood
  <2>3. /\ rows' = s.rows /\ offsets' = s.offsets /\ lengths' = s.lengths
        /\ entries' = s.entries /\ writer' = s.writer
    BY <1>1 DEF Write
  <2> HIDE DEF s
  <2>4. Held' = s
    BY <2>2, <2>3, GoodStreams DEF Held
  <2>5. Good(Held')
    BY <2>2, <2>4
  <2>6. /\ rows' \in Seq(RowType) /\ offsets' \in Seq(OffsetType)
        /\ lengths' \in Seq(Nat) /\ entries' \in Seq(Entry)
        /\ StreamsOK(rows', offsets', lengths', entries')
    BY <2>2, <2>3, GoodStreams
  <2> QED  BY <2>5, <2>6 DEF WriterInv, Good, StreamsOK
<1>2. CASE Reset
  <2> DEFINE s == [rows |-> <<>>, offsets |-> <<>>, lengths |-> <<>>, entries |-> <<>>,
                   writer |-> NewWriter]
  <2>1. Held' = s /\ rows' = <<>> /\ offsets' = <<>> /\ lengths' = <<>> /\ entries' = <<>>
    BY <1>2 DEF Reset, Held
  <2>2. Good(s) /\ StreamsOK(s.rows, s.offsets, s.lengths, s.entries)
    BY EmptyGood, GoodStreams
  <2>3. Good(Held') /\ StreamsOK(rows', offsets', lengths', entries')
    BY <2>1, <2>2
  <2> QED  BY <2>1, <2>3 DEF WriterInv, Good, StreamsOK
<1>. QED  BY <1>1, <1>2

(* All other steps leave the streams as they are.                          *)
LEMMA WriterStays ==
    ASSUME WriterInv, UNCHANGED <<rows, offsets, lengths, entries>>,
           reading' \/ (UNCHANGED <<writer, reading>>)
    PROVE  WriterInv'
<1>1. CASE reading'
  BY <1>1 DEF WriterInv, StreamsOK, SameNulls, MapsHeld, Window
<1>2. CASE UNCHANGED <<writer, reading>>
  BY <1>2 DEF WriterInv, StreamsOK, SameNulls, MapsHeld, Window, Held, Good, WriterBehind
<1>. QED  BY <1>1, <1>2

(* Every step keeps the invariant.                                         *)
LEMMA WriterInvStep ==
    ASSUME WriterInv, [Step]_vars
    PROVE  WriterInv'
<1>1. ASSUME NEW n \in 1..MaxBatch, NEW batch \in [1..n -> Maps \cup {Null}], Write(batch)
      PROVE  WriterInv'
  <2>1. batch \in Seq(Maps \cup {Null})
    BY MapsAssumption
  <2> QED  BY <1>1, <2>1, WriteStep
<1>2. CASE Reset
  <2>1. <<>> \in Seq(Maps \cup {Null})
    OBVIOUS
  <2> QED  BY <1>2, <2>1, WriteStep
<1>3. CASE FinishStripe
  BY <1>3, WriterStays DEF FinishStripe, streams
<1>4. ASSUME NEW bitmap \in Requests, Next(bitmap) PROVE WriterInv'
  <2>1. UNCHANGED <<rows, offsets, lengths, entries, writer, reading>>
    BY <1>4 DEF Next, streams
  <2> QED  BY <2>1, WriterStays
<1>5. ASSUME NEW n \in 0..MaxRows, Skip(n) PROVE WriterInv'
  BY <1>5, WriterStays DEF Skip, streams
<1>6. CASE ResetReader
  BY <1>6, WriterStays DEF ResetReader, streams
<1>7. CASE UNCHANGED vars
  BY <1>7, WriterStays DEF vars, streams
<1>. QED  BY <1>1, <1>2, <1>3, <1>4, <1>5, <1>6, <1>7 DEF Step

(* A stripe starts without rows.                                           *)
LEMMA InitWriterInv == Init => WriterInv
<1> SUFFICES ASSUME Init PROVE WriterInv
  OBVIOUS
<1> DEFINE s == [rows |-> <<>>, offsets |-> <<>>, lengths |-> <<>>, entries |-> <<>>,
                 writer |-> NewWriter]
<1>1. Held = s /\ rows = <<>> /\ offsets = <<>> /\ lengths = <<>> /\ entries = <<>>
  BY DEF Init, Held
<1>2. Good(s) /\ StreamsOK(s.rows, s.offsets, s.lengths, s.entries)
  BY EmptyGood, GoodStreams
<1>. QED  BY <1>1, <1>2 DEF WriterInv

(* For any maps, batches and calls: the streams a stripe ends up with hold *)
(* the maps written to it, one window per row that is not null, and the    *)
(* windows of two rows in a row are the same or touch.                     *)
THEOREM WindowsHoldMaps == Spec => []StreamsHoldMaps
<1>1. Init => WriterInv
  BY InitWriterInv
<1>2. WriterInv /\ [Step]_vars => WriterInv'
  BY WriterInvStep
<1>3. WriterInv => StreamsHoldMaps
  <2> SUFFICES ASSUME WriterInv PROVE StreamsHoldMaps
    OBVIOUS
  <2> DEFINE used == NonNulls(offsets)
             maps == NonNulls(rows)
  <2>1. used \in Seq(OffsetType)
    BY WithoutType DEF WriterInv, NonNulls
  <2>2. DOMAIN used = 1..Len(used) /\ DOMAIN rows = 1..Len(rows)
    BY <2>1 DEF WriterInv
  <2>3. SameNulls(rows, offsets) /\ MapsHeld(used, lengths, entries, maps)
    BY DEF WriterInv, StreamsOK
  <2> HIDE DEF used, maps
  <2>4. /\ Len(offsets) = Len(rows)
        /\ \A i \in DOMAIN rows : rows[i] = Null <=> offsets[i] = Null
    BY <2>2, <2>3 DEF SameNulls
  <2>5. /\ Len(lengths) = Len(used)
        /\ \A k \in DOMAIN used :
             Entries(SubSeq(entries, used[k] + 1, used[k] + lengths[k])) = maps[k]
        /\ \A k \in 2..Len(used) :
             \/ used[k] = used[k - 1] /\ lengths[k] = lengths[k - 1]
             \/ used[k] = used[k - 1] + lengths[k - 1]
    BY <2>2, <2>3 DEF MapsHeld, Window
  <2> QED  BY <2>4, <2>5 DEF StreamsHoldMaps, used, maps
<1>. QED  BY <1>1, <1>2, <1>3, PTL DEF Spec

-----------------------------------------------------------------------------
(* The window of a batch                                                   *)

Item == [offset : Nat, length : Nat]

(* The entries of the dictionary are numbered as items change.             *)
LEMMA EntryOfStep ==
    ASSUME NEW items, NEW k \in Nat \ {0}
    PROVE  /\ EntryOf(items, 1) = 1
           /\ EntryOf(items, k) \in Nat \ {0}
           /\ EntryOf(items, k + 1) =
                EntryOf(items, k) + (IF items[k + 1] # items[k] THEN 1 ELSE 0)
<1> DEFINE flags == [j \in 1..(k + 1) |-> j > 1 /\ items[j] # items[j - 1]]
<1>1. \A j \in 1..(k + 1) : flags[j] <=> j > 1 /\ items[j] # items[j - 1]
  BY Zenon
<1> HIDE DEF flags
<1>2. \A i \in 1..(k + 1) : EntryOf(items, i) = 1 + Rank(flags, i)
  <2> TAKE i \in 1..(k + 1)
  <2>1. {j \in 2..i : items[j] # items[j - 1]} = {j \in 1..i : flags[j]}
    BY <1>1
  <2> QED  BY <2>1 DEF EntryOf, Rank
<1>3. EntryOf(items, 1) = 1 + Rank(flags, 1) /\ EntryOf(items, k) = 1 + Rank(flags, k)
      /\ EntryOf(items, k + 1) = 1 + Rank(flags, k + 1)
  BY <1>2
<1>4. ~flags[1] /\ (flags[k + 1] <=> items[k + 1] # items[k])
  <2>1. 1 \in 1..(k + 1) /\ k + 1 \in 1..(k + 1) /\ (k + 1) - 1 = k /\ k + 1 > 1 /\ ~(1 > 1)
    OBVIOUS
  <2> QED  BY <1>1, <2>1
<1>5. Rank(flags, 0) = 0 /\ Rank(flags, 0 + 1) = 0
  BY <1>4, RankZero, RankStep
<1>6. Rank(flags, k) \in Nat /\ Rank(flags, k + 1) =
        Rank(flags, k) + (IF flags[k + 1] THEN 1 ELSE 0)
  BY RankStep
<1>. QED  BY <1>3, <1>4, <1>5, <1>6

(* Items of the same entry are the same, and every entry has one.          *)
LEMMA EntryOfItems ==
    ASSUME NEW S, NEW items \in Seq(S), NEW k \in 1..Len(items)
    PROVE  /\ EntryOf(items, k) \in Nat \ {0}
           /\ \A j \in 1..k :
                /\ EntryOf(items, j) <= EntryOf(items, k)
                /\ EntryOf(items, j) = EntryOf(items, k) => items[j] = items[k]
           /\ \A e \in 1..EntryOf(items, k) :
                \E j \in 1..k : EntryOf(items, j) = e
<1> DEFINE n == Len(items)
           E(i) == EntryOf(items, i)
           Sorted(i) == \A j \in 1..i : E(j) <= E(i) /\ (E(j) = E(i) => items[j] = items[i])
           Reached(i) == \A e \in 1..E(i) : \E j \in 1..i : E(j) = e
           T == {i \in 0..n : i = 0 \/ (Sorted(i) /\ Reached(i))}
<1>1. n \in Nat
  OBVIOUS
<1>2. E(1) = 1 /\ \A i \in 1..n : E(i) \in Nat \ {0}
  <2>1. 1 \in Nat \ {0} /\ \A i \in 1..n : i \in Nat \ {0}
    BY <1>1
  <2> QED  BY <2>1, EntryOfStep
<1>3. \A i \in 2..n : E(i) = E(i - 1) + (IF items[i] # items[i - 1] THEN 1 ELSE 0)
  <2> TAKE i \in 2..n
  <2>1. i - 1 \in Nat \ {0} /\ (i - 1) + 1 = i
    BY <1>1
  <2> QED  BY <2>1, EntryOfStep, ZenonT(30)
<1> HIDE DEF E
<1>4. 0 \in T
  BY <1>1
<1>5. ASSUME NEW i \in 1..n, i - 1 \in T PROVE i \in T
  <2>1. CASE i = 1
    <3>1. Sorted(1) /\ Reached(1)
      BY <1>2
    <3> QED  BY <1>1, <2>1, <3>1
  <2>2. CASE i # 1
    <3>1. i \in 2..n /\ i - 1 \in 1..n /\ Sorted(i - 1) /\ Reached(i - 1)
      BY <1>1, <1>5, <2>2
    <3>2. E(i) = E(i - 1) + (IF items[i] # items[i - 1] THEN 1 ELSE 0)
      BY <1>3, <3>1
    <3>3. E(i) \in Nat /\ E(i - 1) \in Nat
      BY <1>2, <3>1
    <3>4. Sorted(i)
      <4> SUFFICES ASSUME NEW j \in 1..i
                   PROVE  E(j) <= E(i) /\ (E(j) = E(i) => items[j] = items[i])
        OBVIOUS
      <4>1. CASE j = i
        BY <3>3, <4>1
      <4>2. CASE j # i
        <5>1. j \in 1..(i - 1) /\ j \in 1..n
          BY <1>1, <4>2
        <5>2. E(j) <= E(i - 1) /\ (E(j) = E(i - 1) => items[j] = items[i - 1])
          BY <3>1, <5>1
        <5>3. E(j) \in Nat
          BY <1>2, <5>1
        <5>4. CASE items[i] = items[i - 1]
          BY <3>2, <3>3, <5>2, <5>3, <5>4
        <5>5. CASE items[i] # items[i - 1]
          BY <3>2, <3>3, <5>2, <5>3, <5>5
        <5> QED  BY <5>4, <5>5
      <4> QED  BY <4>1, <4>2
    <3>5. Reached(i)
      <4> SUFFICES ASSUME NEW e \in 1..E(i) PROVE \E j \in 1..i : E(j) = e
        OBVIOUS
      <4>1. CASE e = E(i)
        BY <4>1
      <4>2. CASE e # E(i)
        <5>1. e \in 1..E(i - 1)
          BY <3>2, <3>3, <4>2
        <5>2. PICK j \in 1..(i - 1) : E(j) = e
          BY <3>1, <5>1
        <5>3. j \in 1..i
          BY <1>1
        <5> QED  BY <5>2, <5>3
      <4> QED  BY <4>1, <4>2
    <3> HIDE DEF Sorted, Reached
    <3> QED  BY <1>1, <3>4, <3>5
  <2> QED  BY <2>1, <2>2
<1>6. 0..n \subseteq T
  <2> HIDE DEF T, n
  <2> QED  BY <1>1, <1>4, <1>5, Climb
<1>7. k \in 0..n /\ k # 0 /\ k \in 1..n
  BY <1>1
<1>8. Sorted(k) /\ Reached(k)
  BY <1>6, <1>7
<1>9. E(k) \in Nat \ {0}
  BY <1>2, <1>7
<1>. QED  BY <1>8, <1>9 DEF E

(* The entries of the dictionary lie one behind the other as the windows   *)
(* of the items do, so the offset of an entry is the distance of its       *)
(* window from the first one.                                              *)
LEMMA Layout ==
    ASSUME NEW items \in Seq(Item),
           \A k \in 2..Len(items) :
             \/ items[k] = items[k - 1]
             \/ items[k].offset = items[k - 1].offset + items[k - 1].length,
           NEW k \in 1..Len(items)
    PROVE  LET e == EntryOf(items, k)
           IN  /\ Unique(items)[e] = items[k]
               /\ items[1].offset <= items[k].offset
               /\ Total([j \in 1..(e - 1) |-> Unique(items)[j].length])
                    = items[k].offset - items[1].offset
<1> DEFINE n == Len(items)
           E(i) == EntryOf(items, i)
           u == Unique(items)
           w == [e \in 1..E(n) |-> u[e].length]
<1>1. n \in Nat /\ n \in 1..n /\ 1 \in 1..n /\ k \in 1..n
  OBVIOUS
<1>2. /\ \A i \in 1..n : items[i] \in Item
      /\ \A i \in 1..n : items[i].offset \in Nat /\ items[i].length \in Nat
  <2>1. \A i \in 1..n : items[i] \in Item
    OBVIOUS
  <2> QED  BY <2>1 DEF Item
<1>3. E(1) = 1 /\ \A i \in 1..n : E(i) \in 1..E(n) /\ E(n) \in Nat
  <2>1. E(1) = 1
    <3>1. 1 \in Nat \ {0}
      OBVIOUS
    <3> QED  BY <3>1, EntryOfStep
  <2>2. E(n) \in Nat /\ \A i \in 1..n : E(i) <= E(n)
    BY <1>1, EntryOfItems
  <2>3. \A i \in 1..n : E(i) \in Nat \ {0}
    BY EntryOfItems
  <2> HIDE DEF E
  <2> QED  BY <2>1, <2>2, <2>3
<1>4. \A i \in 1..n : u[E(i)] = items[i]
  <2> TAKE i \in 1..n
  <2> DEFINE c == CHOOSE j \in DOMAIN items : EntryOf(items, j) = E(i)
  <2>1. u[E(i)] = items[c]
    <3>1. E(i) \in 1..EntryOf(items, Len(items))
      BY <1>3
    <3> QED  BY <3>1 DEF Unique
  <2>2. DOMAIN items = 1..n
    OBVIOUS
  <2>3. c \in 1..n /\ EntryOf(items, c) = E(i)
    BY <2>2
  <2> HIDE DEF c
  <2>4. items[c] = items[i]
    <3>1. CASE c <= i
      <4>1. c \in 1..i
        BY <1>1, <2>3, <3>1
      <4> QED  BY <2>3, <4>1, EntryOfItems
    <3>2. CASE i <= c
      <4>1. i \in 1..c
        BY <1>1, <2>3, <3>2
      <4> QED  BY <2>3, <4>1, EntryOfItems
    <3> QED  BY <1>1, <2>3, <3>1, <3>2
  <2> QED  BY <2>1, <2>4
<1>5. \A e \in 1..E(n) : \E i \in 1..n : E(i) = e
  BY <1>1, EntryOfItems
<1>6. \A i \in 2..n : E(i) = E(i - 1) + (IF items[i] # items[i - 1] THEN 1 ELSE 0)
  <2> TAKE i \in 2..n
  <2>1. i - 1 \in Nat \ {0} /\ (i - 1) + 1 = i
    BY <1>1
  <2> QED  BY <2>1, EntryOfStep, ZenonT(30)
<1>7. \A i \in 2..n : items[i] # items[i - 1] =>
        items[i].offset = items[i - 1].offset + items[i - 1].length
  OBVIOUS
<1> HIDE DEF E, u, n
<1>8. w \in [1..E(n) -> Nat]
  <2>1. \A e \in 1..E(n) : u[e].length \in Nat
    BY <1>2, <1>4, <1>5
  <2> QED  BY <2>1
<1>9. \A i \in 1..n : w[E(i)] = items[i].length
  BY <1>3, <1>4
<1>10. PICK f : IsPrefixSum(f, w, E(n))
  <2>1. E(n) \in Nat
    BY <1>1, <1>3
  <2> HIDE DEF w
  <2> QED  BY <1>8, <2>1, PrefixSumExists
<1>11. \A i \in 1..n : f[E(i) - 1] \in Nat /\ f[E(i)] = f[E(i) - 1] + items[i].length
  <2> TAKE i \in 1..n
  <2>1. E(i) \in 1..E(n) /\ E(n) \in Nat
    BY <1>3
  <2>2. f[E(i)] = f[E(i) - 1] + w[E(i)]
    BY <1>10, <2>1 DEF IsPrefixSum
  <2>3. E(i) - 1 \in 0..E(n)
    BY <2>1
  <2>4. f[E(i) - 1] \in Nat
    BY <1>10, <2>3 DEF IsPrefixSum
  <2> QED  BY <1>9, <2>2, <2>4
<1>12. \A i \in 1..n : f[E(i) - 1] = items[i].offset - items[1].offset
  <2> DEFINE T == {i \in 0..n : i = 0 \/ f[E(i) - 1] = items[i].offset - items[1].offset}
  <2>1. 0 \in T
    BY <1>1
  <2>2. ASSUME NEW i \in 1..n, i - 1 \in T PROVE i \in T
    <3>1. CASE i = 1
      <4>1. f[E(1) - 1] = 0
        BY <1>3, <1>10 DEF IsPrefixSum
      <4>2. items[1].offset - items[1].offset = 0
        BY <1>1, <1>2
      <4> QED  BY <1>1, <3>1, <4>1, <4>2
    <3>2. CASE i # 1
      <4>1. i \in 2..n /\ i - 1 \in 1..n /\ i - 1 # 0 /\ i \in 0..n
        BY <1>1, <3>2
      <4>2. f[E(i - 1) - 1] = items[i - 1].offset - items[1].offset
        BY <2>2, <4>1
      <4>3. CASE items[i] = items[i - 1]
        <5>1. E(i) = E(i - 1)
          BY <1>3, <1>6, <4>1, <4>3
        <5> QED  BY <4>1, <4>2, <4>3, <5>1
      <4>4. CASE items[i] # items[i - 1]
        <5>1. E(i) = E(i - 1) + 1 /\ E(i - 1) \in Nat
          BY <1>3, <1>6, <4>1, <4>4
        <5>2. E(i) - 1 = E(i - 1)
          BY <5>1
        <5>3. f[E(i) - 1] = (items[i - 1].offset - items[1].offset) + items[i - 1].length
          BY <1>11, <4>1, <4>2, <5>2
        <5>4. items[i].offset = items[i - 1].offset + items[i - 1].length
          BY <1>7, <4>1, <4>4
        <5>5. /\ items[i - 1].offset \in Nat /\ items[i - 1].length \in Nat
              /\ items[1].offset \in Nat
          BY <1>1, <1>2, <4>1
        <5>6. f[E(i) - 1] = items[i].offset - items[1].offset
          BY ONLY <5>3, <5>4, <5>5
        <5> QED  BY <4>1, <5>6
      <4> QED  BY <4>3, <4>4
    <3> QED  BY <3>1, <3>2
  <2> HIDE DEF T
  <2>3. 0..n \subseteq T
    BY <1>1, <2>1, <2>2, Climb
  <2>4. \A i \in 1..n : i \in 0..n /\ i # 0
    BY <1>1
  <2> QED  BY <2>3, <2>4 DEF T
<1>13. [j \in 1..(E(k) - 1) |-> u[j].length] = [j \in 1..(E(k) - 1) |-> w[j]]
  <2>1. E(k) \in 1..E(n) /\ E(n) \in Nat
    BY <1>1, <1>3
  <2>2. \A j \in 1..(E(k) - 1) : j \in 1..E(n)
    BY <2>1
  <2> QED  BY <2>2
<1>14. Total([j \in 1..(E(k) - 1) |-> w[j]]) = f[E(k) - 1]
  <2>1. E(k) - 1 \in 0..E(n) /\ E(n) \in Nat
    BY <1>1, <1>3
  <2> HIDE DEF w
  <2> QED  BY <1>8, <1>10, <2>1, TotalFirst, ZenonT(30)
<1>15. items[1].offset <= items[k].offset
  BY <1>1, <1>2, <1>11, <1>12
<1>. QED  BY <1>1, <1>4, <1>12, <1>13, <1>14, <1>15 DEF E, u

(* A window inside the window that was read.                               *)
LEMMA WindowInWindow ==
    ASSUME NEW S, NEW ents \in Seq(S), NEW start \in Nat, NEW end \in Nat,
           NEW o \in Nat, NEW l \in Nat,
           end <= Len(ents), start <= o, o + l <= end
    PROVE  SubSeq(SubSeq(ents, start + 1, end), (o - start) + 1, (o - start) + l)
             = SubSeq(ents, o + 1, o + l)
<1> DEFINE all == SubSeq(ents, start + 1, end)
           d == o - start
<1>1. /\ all \in Seq(S) /\ Len(all) = end - start
      /\ \A i \in 1..(end - start) : all[i] = ents[start + i]
  OBVIOUS
<1>2. d \in Nat /\ d + l <= end - start /\ start + d = o
  OBVIOUS
<1> HIDE DEF all, d
<1>3. /\ SubSeq(all, d + 1, d + l) \in Seq(S) /\ Len(SubSeq(all, d + 1, d + l)) = l
      /\ \A i \in 1..l : SubSeq(all, d + 1, d + l)[i] = all[d + i]
  BY <1>1, <1>2
<1>4. /\ SubSeq(ents, o + 1, o + l) \in Seq(S) /\ Len(SubSeq(ents, o + 1, o + l)) = l
      /\ \A i \in 1..l : SubSeq(ents, o + 1, o + l)[i] = ents[o + i]
  OBVIOUS
<1>5. \A i \in 1..l : all[d + i] = ents[o + i]
  <2> TAKE i \in 1..l
  <2>1. d + i \in 1..(end - start) /\ start + (d + i) = o + i
    BY <1>2
  <2> QED  BY <1>1, <2>1
<1> DEFINE x == SubSeq(all, d + 1, d + l)
           y == SubSeq(ents, o + 1, o + l)
<1>6. /\ x \in Seq(S) /\ y \in Seq(S) /\ Len(x) = l /\ Len(y) = l
      /\ \A i \in 1..l : x[i] = y[i]
  BY <1>3, <1>4, <1>5
<1> HIDE DEF x, y
<1>7. x = y
  BY ONLY <1>6
<1>. QED  BY <1>7 DEF x, y, all, d

(* The end of the window is the end of one of the items.                   *)
LEMMA MaxOfRange ==
    ASSUME NEW n \in Nat, NEW S \in SUBSET (0..n), S # {}
    PROVE  MaxOf(S) \in S /\ \A y \in S : y <= MaxOf(S)
<1>1. \E x \in S : \A y \in S : y <= x
  BY GreatestNat
<1>. QED  BY <1>1 DEF MaxOf

-----------------------------------------------------------------------------
(* The reader                                                              *)

(* The lengths consumed are those of the rows consumed.                    *)
ReaderAt(r) ==
    /\ r \in [row : Nat, length : Nat, child : Nat, cursor : Nat]
    /\ r.row <= Len(rows)
    /\ r.length = Len(NonNulls(SubSeq(offsets, 1, r.row)))

ReaderInv == WriterInv /\ (reading => ReaderAt(reader))

(* What the reader knows of the streams.                                   *)
LEMMA StreamFacts ==
    ASSUME WriterInv
    PROVE  LET used == NonNulls(offsets)
               maps == NonNulls(rows)
               n == Len(used)
           IN  /\ rows \in Seq(RowType) /\ offsets \in Seq(OffsetType)
               /\ lengths \in Seq(Nat) /\ entries \in Seq(Entry)
               /\ used \in Seq(OffsetType) /\ maps \in Seq(RowType)
               /\ n \in Nat /\ Len(lengths) = n /\ Len(maps) = n
               /\ Len(offsets) = Len(rows)
               /\ \A i \in 1..Len(rows) : rows[i] = Null <=> offsets[i] = Null
               /\ \A k \in 1..n :
                    /\ used[k] \in Nat /\ lengths[k] \in Nat
                    /\ used[k] + lengths[k] <= Len(entries)
                    /\ Entries(SubSeq(entries, used[k] + 1, used[k] + lengths[k]))
                         = maps[k]
               /\ \A k \in 2..n :
                    \/ used[k] = used[k - 1] /\ lengths[k] = lengths[k - 1]
                    \/ used[k] = used[k - 1] + lengths[k - 1]
<1> DEFINE used == NonNulls(offsets)
           maps == NonNulls(rows)
<1>1. /\ rows \in Seq(RowType) /\ offsets \in Seq(OffsetType)
      /\ lengths \in Seq(Nat) /\ entries \in Seq(Entry)
      /\ SameNulls(rows, offsets) /\ MapsHeld(used, lengths, entries, maps)
  BY DEF WriterInv, StreamsOK
<1>2. used \in Seq(OffsetType) /\ maps \in Seq(RowType)
  BY <1>1, WithoutType DEF NonNulls
<1> HIDE DEF used, maps
<1>3. Len(used) \in Nat
  BY <1>2
<1>4. /\ Len(lengths) = Len(used) /\ Len(maps) = Len(used)
      /\ \A k \in 1..Len(used) :
           /\ used[k] \in Nat
           /\ used[k] + lengths[k] <= Len(entries)
           /\ Entries(SubSeq(entries, used[k] + 1, used[k] + lengths[k])) = maps[k]
      /\ \A k \in 2..Len(used) :
           \/ used[k] = used[k - 1] /\ lengths[k] = lengths[k - 1]
           \/ used[k] = used[k - 1] + lengths[k - 1]
  BY <1>1 DEF MapsHeld, Window
<1>5. \A k \in 1..Len(used) : lengths[k] \in Nat
  BY <1>1, <1>4
<1>6. Len(offsets) = Len(rows) /\ \A i \in 1..Len(rows) : rows[i] = Null <=> offsets[i] = Null
  BY <1>1 DEF SameNulls
<1>. QED  BY <1>1, <1>2, <1>3, <1>4, <1>5, <1>6 DEF used, maps

(* The items of a batch are those of the stream, from where the reader     *)
(* stands.                                                                 *)
LEMMA ItemFacts ==
    ASSUME ReaderInv, reading, NEW count \in Nat,
           reader.row + count <= Len(rows)
    PROVE  LET items == Items(count)
               used == NonNulls(offsets)
               first == reader.length
           IN  /\ items \in Seq(Item)
               /\ Len(items) = Len(NonNulls(Taken(count)))
               /\ first \in Nat
               /\ first + Len(items)
                    = Len(NonNulls(SubSeq(offsets, 1, reader.row + count)))
               /\ first + Len(items) <= Len(used)
               /\ \A k \in 1..Len(items) :
                    /\ items[k].offset = used[first + k]
                    /\ items[k].length = lengths[first + k]
               /\ \A k \in 2..Len(items) :
                    \/ items[k] = items[k - 1]
                    \/ items[k].offset = items[k - 1].offset + items[k - 1].length
<1> DEFINE used == NonNulls(offsets)
           first == reader.length
           t == NonNulls(Taken(count))
           items == Items(count)
           n == Len(t)
<1>1. WriterInv /\ ReaderAt(reader)
  BY DEF ReaderInv
<1>2. /\ reader.row \in Nat /\ first \in Nat /\ reader.row <= Len(rows)
      /\ first = Len(NonNulls(SubSeq(offsets, 1, reader.row)))
  BY <1>1 DEF ReaderAt
<1>3. /\ offsets \in Seq(OffsetType) /\ lengths \in Seq(Nat) /\ rows \in Seq(RowType)
      /\ Len(offsets) = Len(rows) /\ Len(lengths) = Len(used) /\ Len(used) \in Nat
      /\ \A k \in 1..Len(used) : used[k] \in Nat /\ lengths[k] \in Nat
      /\ \A k \in 2..Len(used) :
           \/ used[k] = used[k - 1] /\ lengths[k] = lengths[k - 1]
           \/ used[k] = used[k - 1] + lengths[k - 1]
  BY <1>1, StreamFacts
<1>4. reader.row \in 0..Len(offsets) /\ reader.row + count \in reader.row..Len(offsets)
  <2>1. Len(rows) \in Nat
    BY <1>3
  <2> QED  BY <1>2, <1>3, <2>1
<1>5. /\ t \in Seq(OffsetType)
      /\ Len(NonNulls(SubSeq(offsets, 1, reader.row + count))) = first + n
      /\ first + n <= Len(used)
      /\ \A k \in 1..n : used[first + k] = t[k]
  <2> DEFINE a == reader.row
             b == reader.row + count
  <2>1. a \in 0..Len(offsets) /\ b \in a..Len(offsets)
    BY <1>4
  <2> HIDE DEF a, b
  <2> DEFINE slice == Without(SubSeq(offsets, a + 1, b), Null)
             before == Len(Without(SubSeq(offsets, 1, a), Null))
  <2>2. /\ slice \in Seq(OffsetType)
        /\ Len(Without(SubSeq(offsets, 1, b), Null)) = before + Len(slice)
        /\ before + Len(slice) <= Len(Without(offsets, Null))
        /\ \A k \in 1..Len(slice) : Without(offsets, Null)[before + k] = slice[k]
    BY <1>3, <2>1, WithoutSlice
  <2> QED  BY <1>2, <2>2 DEF NonNulls, Taken, a, b
<1>6. items = [k \in DOMAIN t |-> [offset |-> t[k], length |-> lengths[first + k]]]
  BY DEF Items
<1> HIDE DEF t, used, items
<1>7. n \in Nat /\ DOMAIN t = 1..n
  BY <1>5
<1>8. \A k \in 1..n : first + k \in 1..Len(used)
  BY <1>2, <1>3, <1>5, <1>7, SMTT(30)
<1>9. \A k \in 1..n : t[k] \in Nat /\ lengths[first + k] \in Nat
  BY <1>3, <1>5, <1>8
<1>10. items \in Seq(Item) /\ Len(items) = n
  <2>1. items = [k \in 1..n |-> [offset |-> t[k], length |-> lengths[first + k]]]
    BY <1>6, <1>7
  <2>2. \A k \in 1..n : [offset |-> t[k], length |-> lengths[first + k]] \in Item
    BY <1>9 DEF Item
  <2>3. items \in [1..n -> Item]
    BY <2>1, <2>2
  <2> QED  BY <1>7, <2>3
<1>11. \A k \in 1..n : /\ items[k] = [offset |-> t[k], length |-> lengths[first + k]]
                       /\ items[k].offset = used[first + k]
                       /\ items[k].length = lengths[first + k]
  BY <1>5, <1>6, <1>7
<1>12. \A k \in 2..n : \/ items[k] = items[k - 1]
                       \/ items[k].offset = items[k - 1].offset + items[k - 1].length
  <2> TAKE k \in 2..n
  <2>1. k \in 1..n /\ k - 1 \in 1..n /\ first + k \in 2..Len(used)
        /\ first + (k - 1) = (first + k) - 1
    BY <1>2, <1>3, <1>5, <1>7, SMTT(30)
  <2>2. \/ used[first + k] = used[first + (k - 1)] /\ lengths[first + k] = lengths[first + (k - 1)]
        \/ used[first + k] = used[first + (k - 1)] + lengths[first + (k - 1)]
    BY <1>3, <2>1
  <2>3. t[k] = used[first + k] /\ t[k - 1] = used[first + (k - 1)]
    BY <1>5, <2>1
  <2> QED  BY <1>11, <2>1, <2>2, <2>3
<1>. QED  BY <1>2, <1>5, <1>10, <1>11, <1>12 DEF t, used, items

(* The window of a batch lies in the stream of entries.                    *)
LEMMA WindowFacts ==
    ASSUME ReaderInv, reading, NEW count \in Nat,
           reader.row + count <= Len(rows), Items(count) # <<>>
    PROVE  LET items == Items(count)
           IN  /\ StartOffset(items) \in Nat /\ EndOffset(items) \in Nat
               /\ StartOffset(items) <= EndOffset(items)
               /\ EndOffset(items) <= Len(entries)
               /\ Seek(StartOffset(items)) \in Nat
               /\ reader.child = reader.cursor =>
                    Seek(StartOffset(items)) = StartOffset(items)
               /\ \A k \in 1..Len(items) :
                    items[k].offset + items[k].length <= EndOffset(items)
<1> DEFINE items == Items(count)
           n == Len(items)
           m == Len(entries)
           ends == {items[k].offset + items[k].length : k \in DOMAIN items}
           start == StartOffset(items)
           end == EndOffset(items)
<1>1. WriterInv /\ ReaderAt(reader)
  BY DEF ReaderInv
<1>2. /\ items \in Seq(Item) /\ reader.length \in Nat
      /\ reader.length + n <= Len(NonNulls(offsets))
      /\ \A k \in 1..n : /\ items[k].offset = NonNulls(offsets)[reader.length + k]
                         /\ items[k].length = lengths[reader.length + k]
  BY ItemFacts
<1>3. /\ entries \in Seq(Entry) /\ Len(NonNulls(offsets)) \in Nat
      /\ \A k \in 1..Len(NonNulls(offsets)) :
           NonNulls(offsets)[k] + lengths[k] <= m
  BY <1>1, StreamFacts
<1>4. reader.child \in Nat /\ reader.cursor \in Nat
  BY <1>1 DEF ReaderAt
<1> HIDE DEF items
<1>5. m \in Nat /\ n \in Nat /\ n # 0 /\ DOMAIN items = 1..n
  BY <1>2, <1>3 DEF items
<1>6. \A k \in 1..n : items[k].offset \in Nat /\ items[k].length \in Nat
  <2>1. \A k \in 1..n : items[k] \in Item
    BY <1>2
  <2> QED  BY <2>1 DEF Item
<1>7. \A k \in 1..n : items[k].offset + items[k].length \in 0..m
  <2> TAKE k \in 1..n
  <2>1. reader.length + k \in 1..Len(NonNulls(offsets))
    BY <1>2, <1>3, <1>5
  <2>2. items[k].offset + items[k].length <= m
    BY <1>2, <1>3, <2>1
  <2> QED  BY <1>5, <1>6, <2>2
<1>8. 1 \in 1..n
  BY <1>5
<1>9. ends \in SUBSET (0..m) /\ ends # {} /\ items[1].offset + items[1].length \in ends
  BY <1>5, <1>7, <1>8
<1>10. end = MaxOf(ends)
  BY DEF EndOffset
<1> HIDE DEF ends
<1>11. end \in ends /\ \A y \in ends : y <= end
  BY <1>5, <1>9, <1>10, MaxOfRange
<1>12. start = items[1].offset /\ start \in Nat
  BY <1>6, <1>8 DEF StartOffset
<1> HIDE DEF start, end
<1>13. end \in Nat /\ end <= m
  BY <1>5, <1>9, <1>11
<1>14. start <= end
  <2>1. start + items[1].length <= end /\ items[1].length \in Nat
    BY <1>6, <1>8, <1>9, <1>11, <1>12
  <2> QED  BY <1>12, <1>13, <2>1
<1>15. Seek(start) \in Nat /\ (reader.child = reader.cursor => Seek(start) = start)
  BY <1>4, <1>12, SMTT(30) DEF Seek
<1>16. \A k \in 1..n : items[k].offset + items[k].length <= end
  BY <1>5, <1>11 DEF ends
<1>. QED  BY <1>12, <1>13, <1>14, <1>15, <1>16 DEF items, start, end

(* With the readers of keys and values where cursorPos_ says, the map read *)
(* for an item is the one written for its row.                             *)
LEMMA MapRead ==
    ASSUME ReaderInv, reading, NEW count \in Nat,
           reader.row + count <= Len(rows), reader.child = reader.cursor,
           NEW k \in 1..Len(Items(count))
    PROVE  Entries(MapOf(Items(count), EntryOf(Items(count), k)))
             = NonNulls(rows)[reader.length + k]
<1> DEFINE items == Items(count)
           n == Len(items)
           start == StartOffset(items)
           end == EndOffset(items)
           e == EntryOf(items, k)
           o == items[k].offset
           l == items[k].length
           first == reader.length
<1>1. /\ items \in Seq(Item) /\ first \in Nat /\ n \in Nat
      /\ first + n <= Len(NonNulls(offsets))
      /\ o = NonNulls(offsets)[first + k] /\ l = lengths[first + k]
      /\ \A i \in 2..n : \/ items[i] = items[i - 1]
                         \/ items[i].offset = items[i - 1].offset + items[i - 1].length
  BY ItemFacts
<1>2. items # <<>>
  BY <1>1
<1>3. /\ start \in Nat /\ end \in Nat /\ start <= end /\ end <= Len(entries)
      /\ Seek(start) = start /\ o + l <= end
  BY <1>2, WindowFacts
<1> HIDE DEF items
<1>4. /\ Unique(items)[e] = items[k] /\ items[1].offset <= o
      /\ Total([j \in 1..(e - 1) |-> Unique(items)[j].length]) = o - items[1].offset
  BY <1>1, Layout DEF items
<1>5. items[1].offset = start
  BY DEF StartOffset
<1>6. o \in Nat /\ l \in Nat
  <2>1. items[k] \in Item
    BY <1>1 DEF items
  <2> QED  BY <2>1 DEF Item
<1>7. MapOf(items, e) = SubSeq(SubSeq(entries, start + 1, start + end - start),
                               (o - start) + 1, (o - start) + l)
  BY <1>3, <1>4, <1>5 DEF MapOf
<1> HIDE DEF start, end, o, l, e
<1>8. start + end - start = end
  BY <1>3
<1>9. WriterInv
  BY DEF ReaderInv
<1>10. entries \in Seq(Entry) /\ Len(NonNulls(offsets)) \in Nat
  BY <1>9, StreamFacts
<1>11. MapOf(items, e) = SubSeq(entries, o + 1, o + l)
  <2>1. SubSeq(SubSeq(entries, start + 1, end), (o - start) + 1, (o - start) + l)
          = SubSeq(entries, o + 1, o + l)
    BY <1>3, <1>4, <1>5, <1>6, <1>10, WindowInWindow
  <2> QED  BY <1>7, <1>8, <2>1
<1>12. first + k \in 1..Len(NonNulls(offsets))
  <2>1. k \in Nat /\ 1 <= k /\ k <= n
    BY <1>1 DEF items
  <2> QED  BY <1>1, <1>10, <2>1
<1>13. Entries(SubSeq(entries, o + 1, o + l)) = NonNulls(rows)[first + k]
  BY <1>1, <1>9, <1>12, StreamFacts
<1>. QED  BY <1>11, <1>13 DEF items, e

(* The rows before the s-th of a batch that are not null give the item the *)
(* row has, and its place among all rows that are not null.                *)
LEMMA RowTaken ==
    ASSUME ReaderInv, reading, NEW count \in Nat,
           reader.row + count <= Len(rows), NEW s \in 1..count
    PROVE  LET k == Len(NonNulls(SubSeq(Taken(count), 1, s)))
               row == rows[reader.row + s]
           IN  /\ Taken(count)[s] = Null <=> row = Null
               /\ Taken(count)[s] # Null =>
                    /\ k \in 1..Len(Items(count))
                    /\ NonNulls(rows)[reader.length + k] = row
<1> DEFINE t == Taken(count)
           k == Len(NonNulls(SubSeq(t, 1, s)))
           r == reader.row
<1>1. WriterInv /\ ReaderAt(reader)
  BY DEF ReaderInv
<1>2. /\ r \in Nat /\ r <= Len(rows) /\ reader.length \in Nat
      /\ reader.length = Len(NonNulls(SubSeq(offsets, 1, r)))
  BY <1>1 DEF ReaderAt
<1>3. /\ offsets \in Seq(OffsetType) /\ rows \in Seq(RowType) /\ Len(offsets) = Len(rows)
      /\ \A i \in 1..Len(rows) : rows[i] = Null <=> offsets[i] = Null
  BY <1>1, StreamFacts
<1>4. Len(rows) \in Nat /\ r + s \in 1..Len(rows) /\ r + s \in 0..Len(rows)
  BY <1>2, <1>3
<1>5. /\ t \in Seq(OffsetType) /\ Len(t) = count
      /\ \A i \in 1..count : t[i] = offsets[r + i]
  <2> DEFINE a == r
             b == r + count
  <2>1. a \in 0..Len(offsets) /\ b \in a..Len(offsets) /\ b - a = count
    BY <1>2, <1>3, <1>4
  <2> HIDE DEF a, b
  <2>2. /\ SubSeq(offsets, a + 1, b) \in Seq(OffsetType)
        /\ Len(SubSeq(offsets, a + 1, b)) = count
        /\ \A i \in 1..count : SubSeq(offsets, a + 1, b)[i] = offsets[a + i]
    BY <1>3, <2>1, SliceFacts
  <2> QED  BY <2>2 DEF Taken, a, b
<1>6. t[s] = Null <=> rows[r + s] = Null
  BY <1>3, <1>4, <1>5
<1>7. SubSeq(t, 1, s) = SubSeq(offsets, r + 1, r + s)
  <2> DEFINE x == SubSeq(t, 1, s)
             y == SubSeq(offsets, r + 1, r + s)
  <2>1. x \in Seq(OffsetType) /\ Len(x) = s /\ \A i \in 1..s : x[i] = t[i]
    <3> HIDE DEF t
    <3> QED  BY <1>5
  <2>2. y \in Seq(OffsetType) /\ Len(y) = s /\ \A i \in 1..s : y[i] = offsets[r + i]
    <3> DEFINE a == r
               b == r + s
    <3>1. a \in 0..Len(offsets) /\ b \in a..Len(offsets) /\ b - a = s
      BY <1>2, <1>3, <1>4
    <3> HIDE DEF a, b
    <3>2. /\ SubSeq(offsets, a + 1, b) \in Seq(OffsetType)
          /\ Len(SubSeq(offsets, a + 1, b)) = s
          /\ \A i \in 1..s : SubSeq(offsets, a + 1, b)[i] = offsets[a + i]
      BY <1>3, <3>1, SliceFacts
    <3> QED  BY <3>2 DEF a, b
  <2>3. \A i \in 1..s : x[i] = y[i]
    <3> HIDE DEF x, y, t
    <3>1. \A i \in 1..s : i \in 1..count
      OBVIOUS
    <3> QED  BY <1>5, <2>1, <2>2, <3>1
  <2> HIDE DEF x, y
  <2>4. x = y
    BY ONLY <2>1, <2>2, <2>3
  <2> QED  BY <2>4 DEF x, y
<1>8. reader.length + k = Len(NonNulls(SubSeq(offsets, 1, r + s)))
  <2> DEFINE a == r
             b == r + s
  <2>1. a \in 0..Len(offsets) /\ b \in a..Len(offsets)
    BY <1>2, <1>3, <1>4
  <2> HIDE DEF a, b
  <2> DEFINE slice == Without(SubSeq(offsets, a + 1, b), Null)
             before == Len(Without(SubSeq(offsets, 1, a), Null))
  <2>2. Len(Without(SubSeq(offsets, 1, b), Null)) = before + Len(slice)
    BY <1>3, <2>1, WithoutSlice
  <2> QED  BY <1>2, <1>7, <2>2 DEF NonNulls, a, b
<1>9. ASSUME t[s] # Null PROVE k \in 1..Len(Items(count))
  <2> DEFINE R(i) == Rank(Present(t, Null), i)
  <2>1. s \in 0..Len(t) /\ s \in 1..Len(t)
    BY <1>5
  <2> HIDE DEF t
  <2>2. k = R(s)
    BY <1>5, <2>1, WithoutPrefix DEF NonNulls
  <2>3. R(s) \in 1..Len(NonNulls(t))
    BY <1>5, <1>9, <2>1, WithoutRank DEF NonNulls
  <2>4. Len(Items(count)) = Len(NonNulls(t))
    BY ItemFacts DEF t
  <2> QED  BY <2>2, <2>3, <2>4
<1>10. ASSUME t[s] # Null PROVE NonNulls(rows)[reader.length + k] = rows[r + s]
  <2>1. reader.length + k = Rank(Present(offsets, Null), r + s)
    BY <1>3, <1>4, <1>8, WithoutPrefix DEF NonNulls
  <2>2. \A i \in 1..(r + s) : Present(offsets, Null)[i] = Present(rows, Null)[i]
    <3> TAKE i \in 1..(r + s)
    <3>1. i \in 1..Len(rows)
      BY <1>2, <1>4
    <3>2. Present(offsets, Null)[i] = (offsets[i] # Null)
      BY <1>3, <3>1, PresentType
    <3>3. Present(rows, Null)[i] = (rows[i] # Null)
      BY <1>3, <3>1, PresentType
    <3> QED  BY <1>3, <3>1, <3>2, <3>3
  <2>3. Rank(Present(offsets, Null), r + s) = Rank(Present(rows, Null), r + s)
    BY <2>2, RankPrefix
  <2>4. rows[r + s] # Null
    BY <1>6, <1>10
  <2>5. Without(rows, Null)[Rank(Present(rows, Null), r + s)] = rows[r + s]
    BY <1>3, <1>4, <2>4, WithoutRank
  <2> QED  BY <2>1, <2>3, <2>5 DEF NonNulls
<1>. QED  BY <1>6, <1>9, <1>10 DEF t, k, r

(* A bitmap of a call of next.                                             *)
LEMMA RequestType ==
    ASSUME NEW bitmap \in Requests
    PROVE  \E n \in Nat : bitmap \in [1..n -> BOOLEAN]
BY MapsAssumption DEF Requests

(* The abstract cursor counts as the model does.                           *)
LEMMA CursorCounts ==
    ASSUME NEW S
    PROVE  Cursor!Cardinality(S) = Cardinality(S)
BY DEF Cursor!Cardinality, Cardinality

(* next fills every slot with its row.                                     *)
LEMMA NextDelivers ==
    ASSUME ReaderInv, NEW bitmap \in Requests, Next(bitmap),
           reader.child = reader.cursor
    PROVE  Cursor!Next(bitmap) /\ reader'.child = reader'.cursor
<1> DEFINE count == Cardinality(Selected(bitmap))
           items == Items(count)
           item(i) == Len(NonNulls(SubSeq(Taken(count), 1, Slot(bitmap, i))))
           children == EndOffset(items) - StartOffset(items)
           read == items # <<>> /\ children > 0
<1>1. PICK n \in Nat : bitmap \in [1..n -> BOOLEAN]
  BY RequestType
<1>2. /\ count \in Nat
      /\ \A i \in 1..n : bitmap[i] => Slot(bitmap, i) \in 1..count
  BY <1>1, SlotFacts
<1>3. /\ reading
      /\ reader.row + count <= Len(rows)
      /\ out' = [i \in DOMAIN bitmap |->
                   IF ~bitmap[i] \/ Taken(count)[Slot(bitmap, i)] = Null
                   THEN Null
                   ELSE Entries(MapOf(items, EntryOf(items, item(i))))]
      /\ reader' = [row |-> reader.row + count,
                    length |-> reader.length + Len(items),
                    child |-> IF read THEN Seek(StartOffset(items)) + children
                              ELSE reader.child,
                    cursor |-> IF read THEN EndOffset(items) ELSE reader.cursor]
      /\ rows' = rows
  BY DEF Next
<1> HIDE DEF count
<1>4. reader'.child = reader'.cursor
  <2>1. CASE read
    <3>1. /\ StartOffset(items) \in Nat /\ EndOffset(items) \in Nat
          /\ Seek(StartOffset(items)) = StartOffset(items)
      BY <1>2, <1>3, <2>1, WindowFacts
    <3>2. Seek(StartOffset(items)) + children = EndOffset(items)
      BY <3>1
    <3> HIDE DEF items, children
    <3> QED  BY <1>3, <2>1, <3>2
  <2>2. CASE ~read
    <3> HIDE DEF read
    <3> QED  BY <1>3, <2>2
  <2> QED  BY <2>1, <2>2
<1> DEFINE got(i) == IF ~bitmap[i] \/ Taken(count)[Slot(bitmap, i)] = Null
                     THEN Null
                     ELSE Entries(MapOf(items, EntryOf(items, item(i))))
           want(i) == IF bitmap[i] THEN rows[reader.row + Slot(bitmap, i)] ELSE Null
<1>5. ASSUME NEW i \in 1..n PROVE got(i) = want(i)
  <2>1. CASE ~bitmap[i]
    BY <2>1
  <2>2. CASE bitmap[i]
    <3> DEFINE s == Slot(bitmap, i)
    <3>1. s \in 1..count
      BY <1>2, <2>2
    <3>2. /\ Taken(count)[s] = Null <=> rows[reader.row + s] = Null
          /\ Taken(count)[s] # Null =>
               /\ item(i) \in 1..Len(items)
               /\ NonNulls(rows)[reader.length + item(i)] = rows[reader.row + s]
      <4> HIDE DEF s
      <4>1. LET k == Len(NonNulls(SubSeq(Taken(count), 1, s)))
                row == rows[reader.row + s]
            IN  /\ Taken(count)[s] = Null <=> row = Null
                /\ Taken(count)[s] # Null =>
                     /\ k \in 1..Len(Items(count))
                     /\ NonNulls(rows)[reader.length + k] = row
        BY <1>2, <1>3, <3>1, RowTaken
      <4> QED  BY <4>1 DEF s
    <3>3. CASE Taken(count)[s] = Null
      BY <2>2, <3>2, <3>3
    <3>4. CASE Taken(count)[s] # Null
      <4> DEFINE k == item(i)
      <4>1. k \in 1..Len(Items(count))
        BY <3>2, <3>4
      <4> HIDE DEF k
      <4>2. Entries(MapOf(Items(count), EntryOf(Items(count), k)))
              = NonNulls(rows)[reader.length + k]
        BY <1>2, <1>3, <4>1, MapRead
      <4>3. Entries(MapOf(items, EntryOf(items, item(i)))) = rows[reader.row + s]
        BY <3>2, <3>4, <4>2 DEF k
      <4> QED  BY <2>2, <3>4, <4>3
    <3> QED  BY <3>3, <3>4
  <2> QED  BY <2>1, <2>2
<1>6. out' = [i \in DOMAIN bitmap |-> want(i)]
  <2>1. DOMAIN bitmap = 1..n
    BY <1>1
  <2>2. out' = [i \in 1..n |-> got(i)]
    BY <1>3, <2>1
  <2> HIDE DEF got, want
  <2> QED  BY <1>5, <2>1, <2>2
<1>7. Cursor!Delivered(bitmap) = [i \in DOMAIN bitmap |-> want(i)]
  BY CursorCounts DEF Cursor!Delivered, Cursor!Selected, Slot, Selected
<1>8. Cursor!Cardinality(Cursor!Selected(bitmap)) = count
  BY CursorCounts DEF Cursor!Selected, Selected, count
<1>9. reader'.row = reader.row + count
  BY <1>3
<1>10. Cursor!Next(bitmap)
  <2> HIDE DEF got, want, items
  <2> QED  BY <1>3, <1>6, <1>7, <1>8, <1>9 DEF Cursor!Next
<1>. QED  BY <1>4, <1>10

(* next leaves the reader behind the rows it took, in all streams.         *)
LEMMA NextStands ==
    ASSUME ReaderInv, NEW bitmap \in Requests, Next(bitmap)
    PROVE  ReaderInv'
<1> DEFINE count == Cardinality(Selected(bitmap))
           items == Items(count)
           start == StartOffset(items)
           end == EndOffset(items)
           read == items # <<>> /\ end - start > 0
<1>1. PICK n \in Nat : bitmap \in [1..n -> BOOLEAN]
  BY RequestType
<1>2. count \in Nat
  BY <1>1, SlotFacts
<1>3. /\ reading /\ reader.row + count <= Len(rows)
      /\ reader' = [row |-> reader.row + count,
                    length |-> reader.length + Len(items),
                    child |-> IF read THEN Seek(start) + (end - start)
                              ELSE reader.child,
                    cursor |-> IF read THEN end ELSE reader.cursor]
      /\ UNCHANGED <<rows, offsets, lengths, entries, writer, reading>>
  BY DEF Next, streams
<1>4. WriterInv /\ ReaderAt(reader)
  BY <1>3 DEF ReaderInv
<1>5. WriterInv'
  BY <1>3, <1>4, WriterStays
<1>6. reader.row \in Nat /\ reader.child \in Nat /\ reader.cursor \in Nat
  BY <1>4 DEF ReaderAt
<1> HIDE DEF count
<1>7. /\ items \in Seq(Item) /\ reader.length \in Nat
      /\ reader.length + Len(items)
           = Len(NonNulls(SubSeq(offsets, 1, reader.row + count)))
  BY <1>2, <1>3, ItemFacts
<1>8. read => Seek(start) + (end - start) \in Nat /\ end \in Nat
  <2> SUFFICES ASSUME read PROVE Seek(start) + (end - start) \in Nat /\ end \in Nat
    OBVIOUS
  <2>1. start \in Nat /\ end \in Nat /\ start <= end /\ Seek(start) \in Nat
    BY <1>2, <1>3, WindowFacts
  <2> QED  BY <2>1
<1> HIDE DEF items, start, end, read
<1>9. ReaderAt(reader')
  <2>1. reader' \in [row : Nat, length : Nat, child : Nat, cursor : Nat]
    <3>1. reader.row + count \in Nat /\ reader.length + Len(items) \in Nat
      BY <1>2, <1>6, <1>7
    <3> QED  BY <1>3, <1>6, <1>8, <3>1
  <2>2. reader'.row = reader.row + count /\ reader'.length = reader.length + Len(items)
    BY <1>3
  <2> QED  BY <1>3, <1>7, <2>1, <2>2 DEF ReaderAt
<1>. QED  BY <1>3, <1>5, <1>9 DEF ReaderInv, ReaderAt

(* skip leaves it behind the rows it skipped, in the streams of offsets    *)
(* and lengths.                                                            *)
LEMMA SkipStands ==
    ASSUME ReaderInv, NEW n \in Nat, Skip(n)
    PROVE  ReaderInv' /\ Cursor!Skip
<1> DEFINE taken == Len(NonNulls(SubSeq(offsets, reader.row + 1, reader.row + n)))
<1>1. /\ reading /\ reader.row + n <= Len(rows)
      /\ reader' = [reader EXCEPT !.row = @ + n, !.length = @ + taken]
      /\ out' = <<>>
      /\ UNCHANGED <<rows, offsets, lengths, entries, writer, reading>>
  BY DEF Skip, streams
<1>2. WriterInv /\ ReaderAt(reader)
  BY <1>1 DEF ReaderInv
<1>3. /\ reader \in [row : Nat, length : Nat, child : Nat, cursor : Nat]
      /\ reader.length = Len(NonNulls(SubSeq(offsets, 1, reader.row)))
      /\ reader.row <= Len(rows)
  BY <1>2 DEF ReaderAt
<1>4. offsets \in Seq(OffsetType) /\ rows \in Seq(RowType) /\ Len(offsets) = Len(rows)
  BY <1>2, StreamFacts
<1>5. Len(rows) \in Nat /\ reader.row \in Nat /\ reader.length \in Nat
  BY <1>3, <1>4
<1>6. taken \in Nat /\ Len(NonNulls(SubSeq(offsets, 1, reader.row + n))) = reader.length + taken
  <2> DEFINE a == reader.row
             b == reader.row + n
  <2>1. a \in 0..Len(offsets) /\ b \in a..Len(offsets)
    BY <1>1, <1>3, <1>4, <1>5
  <2> HIDE DEF a, b
  <2> DEFINE slice == Without(SubSeq(offsets, a + 1, b), Null)
             before == Len(Without(SubSeq(offsets, 1, a), Null))
  <2>2. /\ slice \in Seq(OffsetType)
        /\ Len(Without(SubSeq(offsets, 1, b), Null)) = before + Len(slice)
    BY <1>4, <2>1, WithoutSlice
  <2>3. Len(slice) \in Nat
    BY <2>2
  <2> QED  BY <1>3, <2>2, <2>3 DEF NonNulls, a, b
<1> HIDE DEF taken
<1>7. reader'.row = reader.row + n /\ reader'.length = reader.length + taken
  BY <1>1, <1>3
<1>8. reader' \in [row : Nat, length : Nat, child : Nat, cursor : Nat]
  <2>1. reader.row + n \in Nat /\ reader.length + taken \in Nat
    BY <1>5, <1>6
  <2>2. reader' = [row |-> reader.row + n, length |-> reader.length + taken,
                   child |-> reader.child, cursor |-> reader.cursor]
    BY <1>1, <1>3
  <2> QED  BY <1>3, <2>1, <2>2
<1>9. ReaderAt(reader')
  BY <1>1, <1>6, <1>7, <1>8 DEF ReaderAt
<1>10. WriterInv'
  BY <1>1, <1>2, WriterStays
<1>11. ReaderInv'
  BY <1>1, <1>9, <1>10 DEF ReaderInv, ReaderAt
<1>12. Cursor!Skip
  <2>1. reader.row + n \in reader.row..Len(rows)
    BY <1>1, <1>5
  <2> QED  BY <1>1, <1>7, <2>1 DEF Cursor!Skip
<1>. QED  BY <1>11, <1>12

(* reset goes back to the start of the streams of offsets and lengths.     *)
LEMMA ResetReaderStands ==
    ASSUME ReaderInv, ResetReader
    PROVE  ReaderInv' /\ Cursor!Reset
<1>1. /\ reading /\ out' = <<>>
      /\ reader' = [reader EXCEPT !.row = 0, !.length = 0, !.child = 0]
      /\ UNCHANGED <<rows, offsets, lengths, entries, writer, reading>>
  BY DEF ResetReader, streams
<1>2. WriterInv /\ reader \in [row : Nat, length : Nat, child : Nat, cursor : Nat]
  BY <1>1 DEF ReaderInv, ReaderAt
<1>3. offsets \in Seq(OffsetType) /\ rows \in Seq(RowType)
  BY <1>2, StreamFacts
<1>4. /\ reader' \in [row : Nat, length : Nat, child : Nat, cursor : Nat]
      /\ reader'.row = 0 /\ reader'.length = 0
  BY <1>1, <1>2
<1>5. SubSeq(offsets, 1, 0) = <<>> /\ Len(<<>>) = 0 /\ NonNulls(<<>>) = <<>>
  BY <1>3, WithoutEmpty DEF NonNulls
<1>6. 0 <= Len(rows)
  BY <1>3
<1>7. ReaderAt(reader')
  BY <1>4, <1>5, <1>6 DEF ReaderAt
<1>8. WriterInv'
  BY <1>1, <1>2, WriterStays
<1>9. ReaderInv'
  BY <1>1, <1>7, <1>8 DEF ReaderInv, ReaderAt
<1>. QED  BY <1>1, <1>4, <1>9 DEF Cursor!Reset

(* The stripe is finished: the reader starts.                              *)
LEMMA FinishStripeStands ==
    ASSUME ReaderInv, FinishStripe
    PROVE  ReaderInv'
<1>1. /\ reading' = TRUE /\ reader' = NewReader
      /\ UNCHANGED <<rows, offsets, lengths, entries>>
  BY DEF FinishStripe, streams
<1>2. WriterInv
  BY DEF ReaderInv
<1>3. offsets \in Seq(OffsetType) /\ rows \in Seq(RowType)
  BY <1>2, StreamFacts
<1>4. /\ NewReader \in [row : Nat, length : Nat, child : Nat, cursor : Nat]
      /\ NewReader.row = 0 /\ NewReader.length = 0
  BY DEF NewReader
<1>5. SubSeq(offsets, 1, 0) = <<>> /\ Len(<<>>) = 0 /\ NonNulls(<<>>) = <<>>
  BY <1>3, WithoutEmpty DEF NonNulls
<1>6. 0 <= Len(rows)
  BY <1>3
<1>7. ReaderAt(NewReader)
  BY <1>4, <1>5, <1>6 DEF ReaderAt
<1>8. WriterInv'
  BY <1>1, <1>2, WriterStays
<1>. QED  BY <1>1, <1>7, <1>8 DEF ReaderInv, ReaderAt

(* Every step keeps the reader in step with the streams.                   *)
LEMMA ReaderInvStep ==
    ASSUME ReaderInv, [Step]_vars
    PROVE  ReaderInv'
<1>1. WriterInv'
  BY WriterInvStep DEF ReaderInv
<1>2. ASSUME NEW n \in 1..MaxBatch, NEW batch \in [1..n -> Maps \cup {Null}], Write(batch)
      PROVE  ReaderInv'
  BY <1>1, <1>2 DEF Write, ReaderInv
<1>3. CASE Reset
  BY <1>1, <1>3 DEF Reset, ReaderInv
<1>4. CASE FinishStripe
  BY <1>4, FinishStripeStands
<1>5. ASSUME NEW bitmap \in Requests, Next(bitmap) PROVE ReaderInv'
  BY <1>5, NextStands
<1>6. ASSUME NEW n \in 0..MaxRows, Skip(n) PROVE ReaderInv'
  <2>1. n \in Nat
    BY MapsAssumption
  <2> QED  BY <1>6, <2>1, SkipStands
<1>7. CASE ResetReader
  BY <1>7, ResetReaderStands
<1>8. CASE UNCHANGED vars
  BY <1>1, <1>8 DEF vars, streams, ReaderInv, ReaderAt
<1>. QED  BY <1>2, <1>3, <1>4, <1>5, <1>6, <1>7, <1>8 DEF Step

(* The reader's positions agree with the streams, always.                  *)
THEOREM ReaderInvariant == Spec => []ReaderInv
<1>1. Init => ReaderInv
  BY InitWriterInv DEF Init, ReaderInv
<1>2. ReaderInv /\ [Step]_vars => ReaderInv'
  BY ReaderInvStep
<1>. QED  BY <1>1, <1>2, PTL DEF Spec

(* For any maps, batches and calls: as long as the readers of keys and     *)
(* values stand where cursorPos_ says, what next returns are the maps      *)
(* written, each in its slot, and next and skip consume rows as a decoder  *)
(* does; a call of next leaves the readers where cursorPos_ says.          *)
THEOREM WindowsDeliver == Spec => WindowsDeliverMaps
<1> DEFINE Delivers ==
             reading /\ reader.child = reader.cursor =>
               /\ Cursor!Step \/ UNCHANGED Cursor!vars
               /\ out' # <<>> => reader'.child = reader'.cursor
<1>1. ReaderInv /\ [Step]_vars => [Delivers]_vars
  <2> SUFFICES ASSUME ReaderInv, Step, reading, reader.child = reader.cursor
               PROVE  /\ Cursor!Step \/ UNCHANGED Cursor!vars
                      /\ out' # <<>> => reader'.child = reader'.cursor
    OBVIOUS
  <2>1. \A n \in 1..MaxBatch : \A batch \in [1..n -> Maps \cup {Null}] : ~Write(batch)
    BY DEF Write
  <2>2. ~Reset /\ ~FinishStripe
    BY DEF Reset, FinishStripe
  <2>3. ASSUME NEW bitmap \in Requests, Next(bitmap)
        PROVE  Cursor!Step /\ reader'.child = reader'.cursor
    <3>1. Cursor!Next(bitmap) /\ reader'.child = reader'.cursor
      BY <2>3, NextDelivers
    <3> QED  BY <3>1 DEF Cursor!Step
  <2>4. ASSUME NEW n \in 0..MaxRows, Skip(n) PROVE Cursor!Step /\ out' = <<>>
    <3>1. n \in Nat
      BY MapsAssumption
    <3>2. Cursor!Skip
      BY <2>4, <3>1, SkipStands
    <3> QED  BY <2>4, <3>2 DEF Cursor!Step, Skip
  <2>5. CASE ResetReader
    <3>1. Cursor!Reset
      BY <2>5, ResetReaderStands
    <3> QED  BY <2>5, <3>1 DEF Cursor!Step, ResetReader
  <2> QED  BY <2>1, <2>2, <2>3, <2>4, <2>5 DEF Step
<1>2. Spec => [][Delivers]_vars
  <2> HIDE DEF Delivers
  <2> QED  BY <1>1, ReaderInvariant, PTL DEF Spec
<1>. QED  BY <1>2 DEF WindowsDeliverMaps
=============================================================================
