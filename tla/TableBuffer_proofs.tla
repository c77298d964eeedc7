------------------------- MODULE TableBuffer_proofs -------------------------
(***************************************************************************)
(* Lemmas about timestamps: < is a strict linear order, and every set of   *)
(* timestamps that is not empty has an earliest one.  Lemmas about the     *)
(* methods of TableBuffer: each keeps a buffer a buffer, and keeps it      *)
(* sound as long as no table without rows is pushed.                       *)
(***************************************************************************)
EXTENDS TableBuffer, SequenceTheorems, WellFoundedInduction, TLAPS

\* The order of the stamps is linear: two stamps are equal or one is before
\* the other, and never both (operators == and < of TimeStamp).
LEMMA LessIsLinear ==
    ASSUME NEW a \in TimeStamp, NEW b \in TimeStamp
    PROVE  /\ a = b \/ Less(a, b) \/ Less(b, a)
           /\ ~(Less(a, b) /\ Less(b, a))
           /\ ~Less(a, a)
  <1>1. a = b <=> a.ts = b.ts /\ a.utag = b.utag
    BY DEF TimeStamp
  <1>2. a.ts \in Nat /\ a.utag \in Nat /\ b.ts \in Nat /\ b.utag \in Nat
    BY DEF TimeStamp
  <1> QED
    BY <1>1, <1>2 DEF Less

\* The order of the stamps is transitive.
LEMMA LessIsTransitive ==
    ASSUME NEW a \in TimeStamp, NEW b \in TimeStamp, NEW c \in TimeStamp,
           Less(a, b), Less(b, c)
    PROVE  Less(a, c)
  BY DEF Less, TimeStamp

\* A set of natural numbers that is not empty has a least element.
LEMMA LeastNatural ==
    ASSUME NEW S, S \subseteq Nat, S # {}
    PROVE  \E n \in S : \A m \in S : n <= m
  <1> DEFINE before == OpToRel(<, Nat)
  <1>1. ASSUME NEW m \in Nat, NEW n \in Nat, m < n
        PROVE  <<m, n>> \in before
    BY <1>1, Zenon DEF OpToRel
  <1>2. IsWellFoundedOn(before, Nat)
    BY NatLessThanWellFounded, Zenon
  <1> HIDE DEF before
  <1>3. PICK n \in S : \A m \in S : ~(<<m, n>> \in before)
    BY <1>2, WFMin
  <1>4. ASSUME NEW m \in S
        PROVE  n <= m
    <2>1. ~(m < n)
      BY <1>1, <1>3
    <2> QED
      BY <2>1
  <1> QED
    BY <1>4

\* The earliest of a set of stamps exists: the reactor's window starts at the
\* first row of some buffer.
LEMMA EarliestExists ==
    ASSUME NEW S, S \subseteq TimeStamp, S # {}
    PROVE  Earliest(S) \in S /\ \A o \in S : LessEq(Earliest(S), o)
  <1> DEFINE times == {s.ts : s \in S}
  <1>1. PICK t \in times : \A m \in times : t <= m
    <2>1. times \subseteq Nat /\ times # {}
      BY DEF TimeStamp
    <2> QED
      BY <2>1, LeastNatural
  <1> DEFINE tags == {s.utag : s \in {o \in S : o.ts = t}}
  <1>2. PICK u \in tags : \A m \in tags : u <= m
    <2>1. tags \subseteq Nat /\ tags # {}
      BY <1>1 DEF TimeStamp
    <2> QED
      BY <2>1, LeastNatural
  <1>3. PICK s \in S : s.ts = t /\ s.utag = u
    BY <1>2
  <1>4. ASSUME NEW o \in S
        PROVE  LessEq(s, o)
    <2>1. t <= o.ts /\ t \in Nat /\ o.ts \in Nat /\ u \in Nat /\ o.utag \in Nat
      BY <1>1, <1>3 DEF TimeStamp
    <2>2. o.ts = t => u <= o.utag
      BY <1>2
    <2>3. s = o <=> s.ts = o.ts /\ s.utag = o.utag
      BY DEF TimeStamp
    <2> QED
      BY <2>1, <2>2, <2>3, <1>3 DEF LessEq, Less
  <1> QED
    BY <1>3, <1>4 DEF Earliest

-----------------------------------------------------------------------------
\* Every table has a row, the position between calls is a row of the front
\* table, and the cached times are those of the first and the last row.
Positioned(b) ==
    /\ \A k \in DOMAIN b.tables : Len(b.tables[k]) > 0
    /\ b.tables = <<>> => b.inner = 0
    /\ b.tables # <<>> => b.inner < Len(b.tables[1])

Sound(b) ==
    /\ Positioned(b)
    /\ b.tables # <<>> =>
         LET last == b.tables[Len(b.tables)]
         IN  /\ b.start = Untagged(b.tables[1][b.inner + 1].ts.ts)
             /\ b.end = Untagged(last[Len(last)].ts.ts)

\* A position that the loop of consume_each_row can be at.
IsPosition(b, c) ==
    /\ c.outer <= Len(b.tables)
    /\ c.outer = Len(b.tables) => c.inner = 0
    /\ c.outer < Len(b.tables) => c.inner <= Len(b.tables[c.outer + 1])

\* What a column read returns is a time, even past the end.
LEMMA TimeOfRowType ==
    ASSUME NEW t \in Seq(Row), NEW i \in Int
    PROVE  TimeOfRow(t, i) \subseteq TimeStamp
  <1>1. CASE i \in 1 .. Len(t)
    <2>1. t[i] \in Row
      BY <1>1, ElementOfSeq
    <2> QED
      BY <1>1, <2>1 DEF TimeOfRow, Row, TimeStamp, Untagged
  <1>2. CASE i \notin 1 .. Len(t)
    BY <1>2, ShapesAssumption DEF TimeOfRow
  <1> QED
    BY <1>1, <1>2

\* update_timestamps changes the cached times and nothing else.
LEMMA UpdateTimestampsType ==
    ASSUME NEW b \in Buffer, NEW c \in UpdateTimestamps(b)
    PROVE  /\ c \in Buffer
           /\ c.tables = b.tables /\ c.inner = b.inner /\ c.type = b.type
  <1>1. CASE Empty(b)
    BY <1>1 DEF UpdateTimestamps
  <1>2. CASE ~Empty(b)
    <2> DEFINE first == b.tables[1]
               last  == b.tables[Len(b.tables)]
    <2>1. first \in Seq(Row) /\ last \in Seq(Row)
      BY <1>2 DEF Buffer, Empty
    <2>2. PICK s \in TimeOfRow(first, b.inner + 1), e \in TimeOfRow(last, Len(last)) :
             c = [type |-> b.type, start |-> s, end |-> e, tables |-> b.tables, inner |-> b.inner]
      BY <1>2 DEF UpdateTimestamps
    <2>3. s \in TimeStamp /\ e \in TimeStamp
      BY <2>1, TimeOfRowType DEF Buffer
    <2> HIDE DEF first, last
    <2> QED
      BY <2>2, <2>3 DEF Buffer
  <1> QED
    BY <1>1, <1>2

\* ... and on a positioned buffer it makes them exact.
LEMMA UpdateTimestampsSound ==
    ASSUME NEW b \in Buffer, NEW c \in UpdateTimestamps(b), Positioned(b)
    PROVE  Sound(c)
  <1>1. c \in Buffer /\ c.tables = b.tables /\ c.inner = b.inner
    BY UpdateTimestampsType
  <1>2. Positioned(c)
    BY <1>1 DEF Positioned
  <1>3. CASE Empty(b)
    BY <1>1, <1>2, <1>3 DEF Sound, Empty
  <1>4. CASE ~Empty(b)
    <2> DEFINE first == b.tables[1]
               last  == b.tables[Len(b.tables)]
    <2>1. first \in Seq(Row) /\ last \in Seq(Row) /\ Len(last) > 0 /\ b.inner < Len(first) /\ b.inner \in Nat
      BY <1>4 DEF Buffer, Empty, Positioned
    <2>2. PICK s \in TimeOfRow(first, b.inner + 1), e \in TimeOfRow(last, Len(last)) :
             c = [type |-> b.type, start |-> s, end |-> e, tables |-> b.tables, inner |-> b.inner]
      BY <1>4 DEF UpdateTimestamps
    <2>3. c.start = s /\ c.end = e
      BY <2>2 DEF Buffer
    <2>4. s = Untagged(first[b.inner + 1].ts.ts) /\ e = Untagged(last[Len(last)].ts.ts)
      BY <2>1 DEF TimeOfRow
    <2> QED
      BY <1>1, <1>2, <2>3, <2>4 DEF Sound
  <1> QED
    BY <1>3, <1>4

\* push: the result is a buffer whatever the value was, and it holds what it
\* held before, followed by the rows of a value that was accepted.
LEMMA PushType ==
    ASSUME NEW b \in Buffer, NEW u \in Update, NEW c \in PushResults(b, u)
    PROVE  /\ c \in Buffer
           /\ c.tables = IF Accepts(b, u) THEN Append(b.tables, u.rows) ELSE b.tables
           /\ c.inner = b.inner
           /\ c.type = TypeAfter(b, u)
  <1> DEFINE With(tables) == [type  |-> TypeAfter(b, u), start |-> b.start, end |-> b.end,
                              tables |-> tables, inner |-> b.inner]
  <1>1. TypeAfter(b, u) \in Shapes \cup {NoType}
    BY DEF TypeAfter, Buffer, Update
  <1>2. ASSUME NEW t \in Seq(Seq(Row))
        PROVE  With(t) \in Buffer
    BY <1>1 DEF Buffer
  <1>3. b.tables \in Seq(Seq(Row)) /\ Append(b.tables, u.rows) \in Seq(Seq(Row))
    BY DEF Buffer, Update
  <1>4. CASE Accepts(b, u)
    <2>1. c \in UpdateTimestamps(With(Append(b.tables, u.rows)))
      BY <1>4 DEF PushResults
    <2>2. With(Append(b.tables, u.rows)) \in Buffer
      BY <1>2, <1>3
    <2> QED
      BY <1>4, <2>1, <2>2, UpdateTimestampsType
  <1>5. CASE ~Accepts(b, u)
    <2>1. c = With(b.tables)
      BY <1>5 DEF PushResults
    <2>2. With(b.tables) \in Buffer
      BY <1>2, <1>3
    <2> QED
      BY <1>5, <2>1, <2>2
  <1> QED
    BY <1>4, <1>5

\* push keeps a buffer sound, unless the value has no rows.
LEMMA PushSound ==
    ASSUME NEW b \in Buffer, NEW u \in Update, NEW c \in PushResults(b, u),
           Sound(b), Len(u.rows) > 0
    PROVE  Sound(c)
  <1> DEFINE With(tables) == [type  |-> TypeAfter(b, u), start |-> b.start, end |-> b.end,
                              tables |-> tables, inner |-> b.inner]
             more == Append(b.tables, u.rows)
  <1>1. TypeAfter(b, u) \in Shapes \cup {NoType}
    BY DEF TypeAfter, Buffer, Update
  <1>2. /\ b.tables \in Seq(Seq(Row)) /\ u.rows \in Seq(Row) /\ b.inner \in Nat
        /\ more \in Seq(Seq(Row))
    BY DEF Buffer, Update
  <1>3. CASE Accepts(b, u)
    <2>1. c \in UpdateTimestamps(With(more))
      BY <1>3 DEF PushResults
    <2>2. With(more) \in Buffer
      BY <1>1, <1>2 DEF Buffer
    <2>3. Positioned(With(more))
      <3>1. /\ more # <<>>
            /\ \A k \in DOMAIN more : more[k] = IF k \in DOMAIN b.tables THEN b.tables[k] ELSE u.rows
            /\ 1 \in DOMAIN more
            /\ b.tables # <<>> => 1 \in DOMAIN b.tables
            /\ b.tables = <<>> => more[1] = u.rows
        BY <1>2
      <3> HIDE DEF more
      <3>2. \A k \in DOMAIN more : Len(more[k]) > 0
        BY <3>1 DEF Sound, Positioned
      <3>3. b.inner < Len(more[1])
        BY <1>2, <3>1 DEF Sound, Positioned
      <3> QED
        BY <3>1, <3>2, <3>3 DEF Positioned
    <2> QED
      BY <2>1, <2>2, <2>3, UpdateTimestampsSound
  <1>4. CASE ~Accepts(b, u)
    <2>1. c = With(b.tables)
      BY <1>4 DEF PushResults
    <2> QED
      BY <2>1 DEF Sound, Positioned
  <1> QED
    BY <1>3, <1>4

\* What is left of the tables when those before a position are dropped.
LEMMA TailOfTables ==
    ASSUME NEW b \in Buffer, NEW p \in Cursor
    PROVE  LET tail == SubSeq(b.tables, p.outer + 1, Len(b.tables))
           IN  /\ tail \in Seq(Seq(Row))
               /\ p.outer <= Len(b.tables) => Len(tail) = Len(b.tables) - p.outer
               /\ \A i \in 1 .. Len(tail) : /\ p.outer + i \in DOMAIN b.tables
                                            /\ tail[i] = b.tables[p.outer + i]
  <1> DEFINE m == p.outer + 1
             n == Len(b.tables)
             tail == SubSeq(b.tables, m, n)
  <1>1. b.tables \in Seq(Seq(Row)) /\ p.outer \in Nat /\ n \in Nat
    BY DEF Buffer, Cursor
  <1>2. \A i \in m .. n : b.tables[i] \in Seq(Row)
    BY <1>1, ElementOfSeq
  <1>3. /\ tail \in Seq(Seq(Row))
        /\ Len(tail) = IF m <= n THEN n - m + 1 ELSE 0
        /\ \A i \in 1 .. n - m + 1 : tail[i] = b.tables[m + i - 1]
    BY <1>1, <1>2, SubSeqProperties, SMTT(30)
  <1> HIDE DEF tail
  <1>4. p.outer <= n => Len(tail) = n - p.outer
    BY <1>1, <1>3
  <1>5. ASSUME NEW i \in 1 .. Len(tail)
        PROVE  p.outer + i \in DOMAIN b.tables /\ tail[i] = b.tables[p.outer + i]
    <2>1. i \in 1 .. n - m + 1 /\ m + i - 1 = p.outer + i
      BY <1>1, <1>3
    <2>2. p.outer + i \in 1 .. n
      BY <1>1, <2>1, SMTT(30)
    <2>3. p.outer + i \in DOMAIN b.tables
      BY <1>1, <2>2
    <2>4. tail[i] = b.tables[p.outer + i]
      BY <1>3, <2>1
    <2> QED
      BY <2>3, <2>4
  <1> QED
    BY <1>3, <1>4, <1>5 DEF tail

\* The end of consume_each_row, at a row or behind the last table.
LEMMA ConsumeType ==
    ASSUME NEW b \in Buffer, NEW p \in Cursor, NEW c \in ConsumeResults(b, p)
    PROVE  /\ c \in Buffer
           /\ c.tables = SubSeq(b.tables, p.outer + 1, Len(b.tables))
           /\ c.inner = p.inner /\ c.type = b.type
  <1> DEFINE tail == SubSeq(b.tables, p.outer + 1, Len(b.tables))
             left == [type |-> b.type, start |-> b.start, end |-> b.end,
                      tables |-> tail, inner  |-> p.inner]
  <1>1. tail \in Seq(Seq(Row))
    BY TailOfTables
  <1> HIDE DEF tail
  <1>2. left \in Buffer
    BY <1>1 DEF Buffer, Cursor
  <1>3. c \in UpdateTimestamps(left)
    BY DEF ConsumeResults, tail
  <1> QED
    BY <1>2, <1>3, UpdateTimestampsType DEF tail

LEMMA ConsumeSound ==
    ASSUME NEW b \in Buffer, NEW p \in Cursor, NEW c \in ConsumeResults(b, p),
           Sound(b), IsPosition(b, p), ~AtTableEnd(b, p)
    PROVE  Sound(c)
  <1> DEFINE tail == SubSeq(b.tables, p.outer + 1, Len(b.tables))
             left == [type |-> b.type, start |-> b.start, end |-> b.end,
                      tables |-> tail, inner |-> p.inner]
  <1>0. b.tables \in Seq(Seq(Row)) /\ p.outer \in Nat /\ p.inner \in Nat /\ p.outer <= Len(b.tables)
    BY DEF Buffer, Cursor, IsPosition
  <1>1. /\ tail \in Seq(Seq(Row))
        /\ Len(tail) = Len(b.tables) - p.outer
        /\ \A i \in 1 .. Len(tail) : tail[i] = b.tables[p.outer + i]
    BY <1>0, TailOfTables
  <1> HIDE DEF tail
  <1>2. left \in Buffer
    BY <1>0, <1>1 DEF Buffer
  <1>3. c \in UpdateTimestamps(left)
    BY DEF ConsumeResults, tail
  <1>4. Positioned(left)
    <2>0. DOMAIN tail = 1 .. Len(tail) /\ DOMAIN b.tables = 1 .. Len(b.tables) /\ Len(b.tables) \in Nat
      BY <1>0, <1>1
    <2>1. \A k \in DOMAIN tail : Len(tail[k]) > 0
      <3> TAKE k \in DOMAIN tail
      <3>1. p.outer + k \in DOMAIN b.tables
        BY <1>0, <1>1, <2>0
      <3> QED
        BY <1>1, <2>0, <3>1 DEF Sound, Positioned
    <2>2. tail = <<>> => p.inner = 0
      BY <1>0, <1>1, <2>0 DEF IsPosition
    <2>3. tail # <<>> => p.inner < Len(tail[1])
      <3> HAVE tail # <<>>
      <3>1. 1 \in 1 .. Len(tail) /\ p.outer < Len(b.tables)
        BY <1>0, <1>1, <2>0
      <3>2. tail[1] = b.tables[p.outer + 1]
        BY <1>1, <3>1
      <3> QED
        BY <1>0, <3>1, <3>2 DEF AtTableEnd, AtRow, AtEnd
    <2> QED
      BY <2>1, <2>2, <2>3 DEF Positioned
  <1> QED
    BY <1>2, <1>3, <1>4, UpdateTimestampsSound
=============================================================================
