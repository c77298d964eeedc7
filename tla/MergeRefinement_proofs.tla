------------------------ MODULE MergeRefinement_proofs ------------------------
(***************************************************************************)
(* Merge implements AlignedMerge, for any number of PVs, any feeds, update *)
(* sizes, period and timeout, as long as the inputs send rows with the     *)
(* same timestamps and none of them is a laggard.  Of any inputs that send *)
(* their rows in order: no row is overlooked.                              *)
(***************************************************************************)
EXTENDS MergeRefinement, Merge_proofs

\* The rows of each PV are numbered in order, and their timestamps increase.
Ordered == FeedsIncrease /\ StampsIncrease

Steady == SameStamps /\ NoLaggard /\ FeedsIncrease /\ 0 \notin Sizes

LEMMA SteadyIsOrdered == Steady => Ordered
  BY DEF Steady, SameStamps, Ordered

-----------------------------------------------------------------------------
(***************************************************************************)
(* The rows of a buffer from a position on: what the steps of the loop and *)
(* the methods around it do to them, exactly.                              *)
(***************************************************************************)

LEMMA TableTypes ==
    ASSUME NEW b \in Buffer
    PROVE  /\ b.tables \in Seq(Seq(Row)) /\ Len(b.tables) \in Nat /\ DOMAIN b.tables = 1 .. Len(b.tables)
           /\ b.inner \in Nat
           /\ \A k \in DOMAIN b.tables :
                /\ k \in Nat /\ b.tables[k] \in Seq(Row) /\ Len(b.tables[k]) \in Nat
                /\ DOMAIN b.tables[k] = 1 .. Len(b.tables[k])
                /\ \A i \in DOMAIN b.tables[k] : i \in Nat /\ b.tables[k][i] \in Row
  <1>1. b.tables \in Seq(Seq(Row)) /\ b.inner \in Nat
    BY DEF Buffer
  <1>2. ASSUME NEW k \in DOMAIN b.tables PROVE b.tables[k] \in Seq(Row) /\ k \in Nat
    BY <1>1
  <1>3. ASSUME NEW k \in DOMAIN b.tables, NEW i \in DOMAIN b.tables[k] PROVE b.tables[k][i] \in Row /\ i \in Nat
    BY <1>2
  <1>4. ASSUME NEW k \in DOMAIN b.tables
        PROVE  Len(b.tables[k]) \in Nat /\ DOMAIN b.tables[k] = 1 .. Len(b.tables[k])
    BY <1>2
  <1> QED
    BY <1>1, <1>2, <1>3, <1>4

LEMMA RowsFromType ==
    ASSUME NEW b \in Buffer, NEW c, NEW r \in RowsFrom(b, c)
    PROVE  r \in Row
  BY InRowsFrom, TableTypes

\* Passing a row passes that row only.
LEMMA RowPassed ==
    ASSUME NEW b \in Buffer, NEW c \in Cursor, AtRow(b, c), NEW r \in RowsFrom(b, c)
    PROVE  r = RowAt(b, c) \/ r \in RowsFrom(b, NextRow(c))
  <1>1. c.outer \in Nat /\ c.inner \in Nat
    BY DEF Cursor
  <1>2. PICK k \in DOMAIN b.tables : \E i \in DOMAIN b.tables[k] :
               k > c.outer /\ (k > c.outer + 1 \/ i > c.inner) /\ r = b.tables[k][i]
    BY InRowsFrom
  <1>3. PICK i \in DOMAIN b.tables[k] : k > c.outer /\ (k > c.outer + 1 \/ i > c.inner) /\ r = b.tables[k][i]
    BY <1>2
  <1>4. k \in Nat /\ i \in Nat
    BY TableTypes
  <1>5. CASE k = c.outer + 1 /\ i = c.inner + 1
    BY <1>3, <1>5 DEF RowAt
  <1>6. CASE ~(k = c.outer + 1 /\ i = c.inner + 1)
    <2>1. k > c.outer + 1 \/ i > c.inner + 1
      BY <1>1, <1>3, <1>4, <1>6
    <2>2. NextRow(c).outer = c.outer /\ NextRow(c).inner = c.inner + 1
      BY DEF NextRow
    <2> QED
      BY <1>3, <2>1, <2>2, InRowsFrom
  <1> QED
    BY <1>5, <1>6

\* At the end of a table no row is passed.
LEMMA NoRowPassed ==
    ASSUME NEW b \in Buffer, NEW c \in Cursor, AtTableEnd(b, c)
    PROVE  RowsFrom(b, NextTable(c)) = RowsFrom(b, c)
  <1>1. c.outer \in Nat /\ c.inner \in Nat /\ c.outer + 1 \in DOMAIN b.tables
        /\ c.inner >= Len(b.tables[c.outer + 1])
    BY TableTypes DEF Cursor, AtTableEnd, AtRow, AtEnd
  <1>2. ASSUME NEW r \in RowsFrom(b, c) PROVE r \in RowsFrom(b, NextTable(c))
    <2>1. PICK k \in DOMAIN b.tables : \E i \in DOMAIN b.tables[k] :
                 k > c.outer /\ (k > c.outer + 1 \/ i > c.inner) /\ r = b.tables[k][i]
      BY <1>2, InRowsFrom
    <2>2. PICK i \in DOMAIN b.tables[k] : k > c.outer /\ (k > c.outer + 1 \/ i > c.inner) /\ r = b.tables[k][i]
      BY <2>1
    <2>3. k \in Nat /\ i \in Nat /\ i <= Len(b.tables[k]) /\ Len(b.tables[k]) \in Nat /\ i > 0
      BY TableTypes
    <2>4. k > c.outer + 1
      BY <1>1, <2>2, <2>3
    <2>5. NextTable(c).outer = c.outer + 1 /\ NextTable(c).inner = 0
      BY DEF NextTable
    <2> QED
      BY <2>2, <2>3, <2>4, <2>5, InRowsFrom
  <1> QED
    BY <1>2, RowsAfterTable

\* Behind the last table there is none.
LEMMA NoRowsAtEnd ==
    ASSUME NEW b \in Buffer, NEW c \in Cursor, AtEnd(b, c)
    PROVE  RowsFrom(b, c) = {}
  BY TableTypes, InRowsFrom DEF AtEnd, Cursor

\* Consuming drops what was passed, and nothing else.
LEMMA ExactlyConsumed ==
    ASSUME NEW b \in Buffer, NEW p \in Cursor, NEW c \in ConsumeResults(b, p), Increasing(b)
    PROVE  RowsFrom(c, FirstRow(c)) = RowsFrom(b, p)
  <1> DEFINE tail == SubSeq(b.tables, p.outer + 1, Len(b.tables))
  <1>1. /\ tail \in Seq(Seq(Row))
        /\ p.outer <= Len(b.tables) => Len(tail) = Len(b.tables) - p.outer
        /\ \A k \in 1 .. Len(tail) : p.outer + k \in DOMAIN b.tables /\ tail[k] = b.tables[p.outer + k]
    BY TailOfTables
  <1>2. c.tables = tail /\ c.inner = p.inner
    BY ConsumeType
  <1> HIDE DEF tail
  <1>3. p.outer \in Nat /\ p.inner \in Nat /\ DOMAIN tail = 1 .. Len(tail) /\ Len(tail) \in Nat
    BY <1>1 DEF Cursor
  <1>4. ASSUME NEW r \in RowsFrom(b, p) PROVE r \in RowsFrom(c, FirstRow(c))
    <2>1. PICK k \in DOMAIN b.tables : \E i \in DOMAIN b.tables[k] :
                 k > p.outer /\ (k > p.outer + 1 \/ i > p.inner) /\ r = b.tables[k][i]
      BY <1>4, InRowsFrom
    <2>2. PICK i \in DOMAIN b.tables[k] : k > p.outer /\ (k > p.outer + 1 \/ i > p.inner) /\ r = b.tables[k][i]
      BY <2>1
    <2>3. k \in Nat /\ i \in Nat /\ k <= Len(b.tables) /\ Len(b.tables) \in Nat
      BY TableTypes
    <2> DEFINE l == k - p.outer
    <2>4. l \in DOMAIN tail /\ p.outer + l = k /\ l > 0 /\ (l > 1 \/ i > p.inner)
      <3>1. Len(tail) = Len(b.tables) - p.outer
        BY <1>1, <1>3, <2>2, <2>3
      <3>2. l \in 1 .. Len(tail) /\ p.outer + l = k
        BY <1>3, <2>2, <2>3, <3>1
      <3>3. l > 1 \/ i > p.inner
        BY <1>3, <2>2, <2>3
      <3> QED
        BY <1>3, <3>2, <3>3
    <2> HIDE DEF l
    <2>5. tail[l] = b.tables[k]
      BY <1>1, <1>3, <2>4
    <2>6. FirstRow(c).outer = 0 /\ FirstRow(c).inner = p.inner /\ 0 + 1 = 1
      BY <1>2 DEF FirstRow
    <2> QED
      BY <1>2, <2>2, <2>4, <2>5, <2>6, InRowsFrom
  <1> QED
    BY <1>4, RowsConsumed

\* A push appends the rows of the update, if it is accepted.
LEMMA ExactlyPushed ==
    ASSUME NEW b \in Buffer, Sound(b), NEW u \in Update, NEW c \in PushResults(b, u)
    PROVE  RowsFrom(c, FirstRow(c)) =
             RowsFrom(b, FirstRow(b)) \cup (IF Accepts(b, u) THEN RowsIn(u.rows) ELSE {})
  <1>1. /\ c.tables = IF Accepts(b, u) THEN Append(b.tables, u.rows) ELSE b.tables
        /\ c.inner = b.inner
    BY PushType
  <1>2. /\ FirstRow(b).outer = 0 /\ FirstRow(b).inner = b.inner
        /\ FirstRow(c).outer = 0 /\ FirstRow(c).inner = b.inner
    BY <1>1 DEF FirstRow
  <1>3. CASE ~Accepts(b, u)
    BY <1>1, <1>2, <1>3 DEF RowsFrom
  <1>4. CASE Accepts(b, u)
    <2> DEFINE n == Len(b.tables) + 1
    <2>1. /\ DOMAIN c.tables = DOMAIN b.tables \cup {n} /\ c.tables[n] = u.rows
          /\ \A k \in DOMAIN b.tables : c.tables[k] = b.tables[k] /\ k \in Nat /\ k # n
          /\ n \in Nat /\ n > 0 /\ n \notin DOMAIN b.tables
      BY <1>1, <1>4, TableTypes DEF Update
    <2>2. n = 1 => b.inner = 0
      BY TableTypes DEF Sound, Positioned
    <2>3. \A i \in DOMAIN u.rows : i \in Nat /\ i > 0
      BY DEF Update
    <2>4. b.inner \in Nat
      BY TableTypes
    <2> HIDE DEF n
    <2>5. ASSUME NEW r \in RowsFrom(c, FirstRow(c)) PROVE r \in RowsFrom(b, FirstRow(b)) \cup RowsIn(u.rows)
      <3>1. PICK k \in DOMAIN c.tables : \E i \in DOMAIN c.tables[k] :
                   k > 0 /\ (k > 0 + 1 \/ i > b.inner) /\ r = c.tables[k][i]
        BY <1>2, <2>5, InRowsFrom
      <3>2. CASE k = n
        BY <2>1, <3>1, <3>2 DEF RowsIn
      <3>3. CASE k # n
        BY <1>2, <2>1, <3>1, <3>3, InRowsFrom
      <3> QED
        BY <3>2, <3>3
    <2>6. ASSUME NEW r \in RowsFrom(b, FirstRow(b)) PROVE r \in RowsFrom(c, FirstRow(c))
      <3>1. PICK k \in DOMAIN b.tables : \E i \in DOMAIN b.tables[k] :
                   k > 0 /\ (k > 0 + 1 \/ i > b.inner) /\ r = b.tables[k][i]
        BY <1>2, <2>6, InRowsFrom
      <3> QED
        BY <1>2, <2>1, <3>1, InRowsFrom
    <2>7. ASSUME NEW r \in RowsIn(u.rows) PROVE r \in RowsFrom(c, FirstRow(c))
      <3>1. PICK i \in DOMAIN u.rows : r = u.rows[i]
        BY <2>7 DEF RowsIn
      <3>2. n > 0 /\ (n > 0 + 1 \/ i > b.inner)
        BY <2>1, <2>2, <2>3, <2>4
      <3> QED
        BY <1>2, <2>1, <3>1, <3>2, InRowsFrom
    <2> QED
      BY <1>4, <2>5, <2>6, <2>7
  <1> QED
    BY <1>3, <1>4

\* The cached times are those of the first and of the last row there is.
LEMMA EndsOfBuffer ==
    ASSUME NEW b \in Buffer, Sound(b), Increasing(b), ~Empty(b)
    PROVE  \E f, l \in RowsFrom(b, FirstRow(b)) :
             /\ b.start = Untagged(f.ts.ts) /\ b.end = Untagged(l.ts.ts)
             /\ \A r \in RowsFrom(b, FirstRow(b)) : r = f \/ f.id < r.id
  <1> DEFINE c == FirstRow(b)  n == Len(b.tables)  m == Len(b.tables[n])
  <1>1. n \in Nat /\ n > 0 /\ 1 \in DOMAIN b.tables /\ n \in DOMAIN b.tables /\ b.inner \in Nat
    BY TableTypes DEF Empty
  <1>2. b.inner < Len(b.tables[1]) /\ m > 0 /\ m \in Nat /\ m \in DOMAIN b.tables[n]
    BY <1>1, TableTypes DEF Sound, Positioned, Empty
  <1>3. c \in Cursor /\ c.outer = 0 /\ c.inner = b.inner
    BY <1>1 DEF FirstRow, Cursor
  <1>4. AtRow(b, c)
    BY <1>1, <1>2, <1>3 DEF AtRow, AtEnd
  <1>5. RowAt(b, c) \in RowsFrom(b, c) /\ \A r \in RowsFrom(b, c) : r = RowAt(b, c) \/ RowAt(b, c).id < r.id
    <2> HIDE DEF c
    <2> QED
      BY <1>3, <1>4, RowsAfter, RowPassed
  <1>6. b.tables[n][m] \in RowsFrom(b, c)
    <2>1. n > 0 /\ (n > 0 + 1 \/ m > b.inner)
      BY <1>1, <1>2
    <2> HIDE DEF c, n, m
    <2> QED
      BY <1>1, <1>2, <1>3, <2>1, InRowsFrom
  <1>7. b.start = Untagged(RowAt(b, c).ts.ts) /\ b.end = Untagged(b.tables[n][m].ts.ts)
    BY <1>3 DEF Sound, Empty, RowAt
  <1> QED
    BY <1>5, <1>6, <1>7

-----------------------------------------------------------------------------
(***************************************************************************)
(* The rows of the feeds.                                                  *)
(***************************************************************************)

\* What a PV may still push: nothing, once the listener has ended.
Future(pv) == IF running["listener"] THEN {feed[pv][i] : i \in sent[pv] + 1 .. Len(feed[pv])} ELSE {}

Coming(pv) == Remaining(pv) \cup Future(pv)

\* What was read already.
Passed(pv) == RowsSent(pv) \ Remaining(pv)

LEMMA FeedTypes ==
    ASSUME ReactorTypes, SentOnly, NEW pv \in PVs
    PROVE  /\ feed \in Feeds /\ feed[pv] \in Seq(Row) /\ Len(feed[pv]) \in Nat
           /\ sent[pv] \in Nat /\ sent[pv] <= Len(feed[pv])
           /\ \A i \in 1 .. Len(feed[pv]) : i \in Nat /\ feed[pv][i] \in Row /\ feed[pv][i].ts \in TimeStamp
           /\ RowsSent(pv) \subseteq Row
  <1>1. feed \in Feeds /\ feed[pv] \in Seq(Row) /\ sent[pv] \in Nat /\ sent[pv] <= Len(feed[pv])
    BY FeedsAssumption DEF ReactorTypes, TypeOK, SentOnly
  <1>2. ASSUME NEW i \in 1 .. Len(feed[pv]) PROVE feed[pv][i] \in Row /\ feed[pv][i].ts \in TimeStamp
    <2>1. feed[pv][i] \in Row
      BY <1>1, ElementOfSeq
    <2> QED
      BY <2>1 DEF Row
  <1>3. Len(feed[pv]) \in Nat /\ 1 .. sent[pv] \subseteq 1 .. Len(feed[pv])
    BY <1>1
  <1> QED
    BY <1>1, <1>2, <1>3 DEF RowsSent

\* Rows of one PV by number, by timestamp, and before what is to come.
LEMMA SentInOrder ==
    ASSUME Ordered, ReactorTypes, SentOnly, NEW pv \in PVs, NEW r \in RowsSent(pv), NEW l \in RowsSent(pv)
    PROVE  /\ r.id < l.id => Less(r.ts, l.ts)
           /\ r.ts = l.ts => r = l
  <1>1. PICK i \in 1 .. sent[pv] : r = feed[pv][i]
    BY DEF RowsSent
  <1>2. PICK j \in 1 .. sent[pv] : l = feed[pv][j]
    BY DEF RowsSent
  <1>3. i \in 1 .. Len(feed[pv]) /\ j \in 1 .. Len(feed[pv]) /\ i \in Nat /\ j \in Nat
    BY FeedTypes
  <1>4. i < j => r.id < l.id /\ Less(r.ts, l.ts)
    BY <1>1, <1>2, <1>3, FeedTypes DEF Ordered, StampsIncrease, FeedsIncrease
  <1>5. j < i => l.id < r.id /\ Less(l.ts, r.ts)
    BY <1>1, <1>2, <1>3, FeedTypes DEF Ordered, StampsIncrease, FeedsIncrease
  <1>6. r.id \in Nat /\ l.id \in Nat /\ r.ts \in TimeStamp /\ l.ts \in TimeStamp
    BY FeedTypes DEF Row
  <1>7. i = j \/ i < j \/ j < i
    BY <1>3
  <1>8. ~Less(r.ts, r.ts)
    BY <1>6, LessIsLinear
  <1>9. i = j => r = l
    BY <1>1, <1>2
  <1>10. r.id < l.id => ~(l.id < r.id) /\ r.id # l.id
    BY <1>6
  <1> QED
    BY <1>4, <1>5, <1>7, <1>8, <1>9, <1>10

LEMMA FutureIsLater ==
    ASSUME Steady, ReactorTypes, SentOnly, NEW pv \in PVs, NEW r \in RowsSent(pv), NEW f \in Future(pv)
    PROVE  Less(r.ts, f.ts) /\ f \in Row /\ running["listener"]
  <1>1. PICK i \in 1 .. sent[pv] : r = feed[pv][i]
    BY DEF RowsSent
  <1>2. running["listener"] /\ \E j \in sent[pv] + 1 .. Len(feed[pv]) : f = feed[pv][j]
    BY DEF Future
  <1>3. PICK j \in sent[pv] + 1 .. Len(feed[pv]) : f = feed[pv][j]
    BY <1>2
  <1>4. i \in 1 .. Len(feed[pv]) /\ j \in 1 .. Len(feed[pv]) /\ i < j
    BY FeedTypes
  <1> QED
    BY <1>1, <1>2, <1>3, <1>4, FeedTypes DEF Steady, SameStamps, StampsIncrease

\* A PV that has sent a row has sent all before it, whoever sent those.
LEMMA SentAlike ==
    ASSUME Steady, ReactorTypes, SentOnly, NEW p \in PVs, NEW q \in PVs,
           NEW r \in RowsSent(p), NEW l \in RowsSent(q), ~Less(l.ts, r.ts)
    PROVE  \E m \in RowsSent(q) : m.ts = r.ts
  <1>1. PICK i \in 1 .. sent[p] : r = feed[p][i]
    BY DEF RowsSent
  <1>2. PICK j \in 1 .. sent[q] : l = feed[q][j]
    BY DEF RowsSent
  <1>3. /\ i \in 1 .. Len(feed[p]) /\ j \in 1 .. Len(feed[q]) /\ i \in Nat /\ j \in Nat
        /\ sent[q] \in Nat
    BY FeedTypes
  <1>4. Len(feed[p]) = Len(feed[q]) /\ feed[p][i].ts = feed[q][i].ts
    BY <1>3, FeedTypes DEF Steady, SameStamps, StampsIncrease
  <1>5. j < i => Less(l.ts, r.ts)
    BY <1>1, <1>2, <1>3, <1>4, FeedTypes DEF Steady, SameStamps, StampsIncrease
  <1>6. i \in 1 .. sent[q]
    BY <1>3, <1>5
  <1> QED
    BY <1>1, <1>4, <1>6 DEF RowsSent

LEMMA RemainingSent ==
    ASSUME ReactorTypes, SentOnly, NEW pv \in DOMAIN buffers
    PROVE  /\ Remaining(pv) \subseteq RowsSent(pv) /\ pv \in PVs
           /\ Remaining(pv) \subseteq Row
  <1>1. Remaining(pv) \subseteq RowsSent(pv)
    <2> SUFFICES ASSUME NEW r \in Remaining(pv) PROVE r \in RowsSent(pv)
      OBVIOUS
    <2>1. PICK k \in DOMAIN buffers[pv].tables : \E i \in DOMAIN buffers[pv].tables[k] : r = buffers[pv].tables[k][i]
      BY InRowsFrom DEF Remaining
    <2> QED
      BY <2>1, IsBuffered DEF SentOnly
  <1>2. pv \in PVs
    BY DEF ReactorTypes, TypeOK, TableTypeOK
  <1> QED
    BY <1>1, <1>2, FeedTypes

-----------------------------------------------------------------------------
(***************************************************************************)
(* The invariant.                                                          *)
(***************************************************************************)

Known == ReactorTypes /\ Described /\ Exact /\ SentOnly /\ WindowHolds /\ OrderInv

WindowChosen == rpc \in {"extract", "extracting", "post"}

\* What was sent is within MaxSkew of what any PV sent, or of its first row.
InSkewSoFar ==
    \A p, q \in DOMAIN buffers : \A r \in RowsSent(p) :
      \E s \in RowsSent(q) \cup {feed[q][i] : i \in {1} \cap DOMAIN feed[q]} :
         r.ts.ts <= s.ts.ts + MaxSkew

SilentAreEmpty == \A pv \in DOMAIN buffers : ~Initialized(buffers[pv]) => Empty(buffers[pv])

\* No buffer is ever read to its end while there is more to come: it holds a
\* row that is not before the end of the window.
KeepsUp ==
    running["listener"] =>
      \A pv \in DOMAIN buffers :
        Initialized(buffers[pv]) => \E r \in Remaining(pv) : WindowChosen => bounds.end.ts <= r.ts.ts

\* Between two extractions, all buffers are read up to the same time.
Level ==
    rpc \notin {"extracting", "post"} =>
      \A p, q \in DOMAIN buffers : \A o \in Passed(p), r \in Coming(q) : o.ts.ts < r.ts.ts

IsWindow ==
    WindowChosen =>
      /\ bounds = [start |-> Untagged(bounds.start.ts), end |-> Untagged(bounds.start.ts + Period)]
      /\ \A pv \in DOMAIN buffers : \A o \in Passed(pv) : o.ts.ts < bounds.end.ts

FromStart ==
    rpc = "extract" =>
      /\ \A pv \in DOMAIN buffers : \A r \in Remaining(pv) : bounds.start.ts <= r.ts.ts
      /\ \E pv \in DOMAIN buffers : \E r \in Remaining(pv) : bounds.start.ts = r.ts.ts

\* The timestamps of the output that are still to be read for a PV.
Unread(pv) == IF pv \notin todo THEN {} ELSE IF pv = cur THEN rest ELSE stamps

\* In the window, what is unread is what remains in the buffer, and its cells
\* are those not written.
InWindow ==
    extracting =>
      \A pv \in DOMAIN buffers :
        /\ \A r \in RowsSent(pv) : r.ts.ts < bounds.end.ts => (r \in Remaining(pv) <=> r.ts \in Unread(pv))
        /\ \A s \in stamps : cells[pv][s] = Uninit <=> s \in Unread(pv)

AfterWindow ==
    rpc = "post" => \A pv \in DOMAIN buffers : \A r \in Remaining(pv) : bounds.end.ts <= r.ts.ts

\* The table is of pending rows of the window.
TableOfWindow(t) ==
    /\ DOMAIN t.cells = DOMAIN buffers
    /\ \A s \in t.stamps :
         /\ bounds.start.ts <= s.ts /\ s.ts < bounds.end.ts
         /\ \E pv \in DOMAIN buffers : \E r \in pendingRows[pv] : r.ts = s

Windows ==
    /\ extracting => TableOfWindow(Extracted) /\ window = bounds
    /\ rpc = "post" =>
         /\ TableOfWindow(value)
         /\ \A pv \in DOMAIN buffers : \A s \in value.stamps : value.cells[pv][s] # Uninit

ShownFirst ==
    \A o \in pv_.table.stamps, pv \in DOMAIN buffers :
      \A r \in pendingRows[pv] \cup Future(pv) : o.ts < r.ts.ts

NothingBetween ==
    /\ rpc \notin {"post", "aborted"} => value = NoTable
    /\ rpc \in {"prepare", "open"} => pv_.table = NoTable

LockstepInv ==
    /\ InSkewSoFar /\ SilentAreEmpty /\ KeepsUp /\ Level /\ IsWindow /\ FromStart
    /\ InWindow /\ AfterWindow /\ Windows /\ ShownFirst /\ NothingBetween

-----------------------------------------------------------------------------
(***************************************************************************)
(* A push.                                                                 *)
(***************************************************************************)

\* What the update adds to the rows of a buffer.
Pushed(pv, u, q) == IF q = pv /\ PushOutcome(pv, u) = "ok" THEN RowsIn(u.rows) ELSE {}

LEMMA DeliverAdds ==
    ASSUME Known, NEW pv \in PVs, NEW u \in NextUpdates(pv), Deliver(pv, u), NEW q \in DOMAIN buffers
    PROVE  /\ RowsSent(q)' = RowsSent(q) \cup Pushed(pv, u, q)
           /\ Remaining(q)' = Remaining(q) \cup Pushed(pv, u, q)
           /\ Pushed(pv, u, q) \subseteq Future(q) /\ Future(q)' \subseteq Future(q)
           /\ ~extracting /\ ~extracting' /\ DOMAIN buffers' = DOMAIN buffers
           /\ running["listener"]
           /\ UNCHANGED <<feed, rpc, bounds, value, pv_, stamps, cells, window>>
  <1> USE DEF Known, ReactorTypes, TypeOK
  <1>0. /\ u \in Update /\ Len(u.rows) \in Nat /\ u.rows \in Seq(Row)
        /\ sent[pv] + Len(u.rows) <= Len(feed[pv])
        /\ \A i \in DOMAIN u.rows : u.rows[i] = feed[pv][sent[pv] + i]
    BY NextUpdatesType, FeedsAssumption DEF Update
  <1>1. /\ Push(pv, u) /\ running["listener"] /\ UNCHANGED <<feed, rpc, bounds, value, pv_>>
    BY DEF Deliver, reactorVars
  <1>2. /\ ~extracting /\ ~extracting' /\ DOMAIN buffers' = DOMAIN buffers /\ UNCHANGED <<stamps, cells, window>>
    BY <1>1 DEF Push, extractVars
  <1>3. /\ feed[pv] \in Seq(Row) /\ Len(feed[pv]) \in Nat /\ sent[pv] \in Nat /\ sent[q] \in Nat
        /\ Len(feed[q]) \in Nat /\ q \in PVs
    BY FeedTypes DEF TableTypeOK
  <1>4. DOMAIN u.rows = 1 .. Len(u.rows)
    BY <1>0
  <1>5. CASE q = pv /\ PushOutcome(pv, u) = "ok"
    <2>1. sent'[pv] = sent[pv] + Len(u.rows) /\ UNCHANGED running
      BY <1>3, <1>5 DEF Deliver, runnableVars
    <2>2. \A r : r \in RowsIn(u.rows) <=> \E i \in 1 .. Len(u.rows) : r = feed[pv][sent[pv] + i]
      BY <1>0, <1>4 DEF RowsIn
    <2>3. \A j \in Nat : j \in 1 .. sent'[pv] <=> j \in 1 .. sent[pv] \/ \E i \in 1 .. Len(u.rows) : j = sent[pv] + i
      <3> TAKE j \in Nat
      <3>1. j > sent[pv] /\ j <= sent[pv] + Len(u.rows) => j - sent[pv] \in 1 .. Len(u.rows) /\ j = sent[pv] + (j - sent[pv])
        BY <1>0, <1>3
      <3> QED
        BY <1>0, <1>3, <2>1, <3>1
    <2>4. RowsSent(q)' = RowsSent(q) \cup RowsIn(u.rows)
      <3>1. \A r : r \in RowsSent(pv)' <=> \E j \in 1 .. sent'[pv] : r = feed[pv][j]
        BY <1>1 DEF RowsSent
      <3>2. \A r : r \in RowsSent(pv) <=> \E j \in 1 .. sent[pv] : r = feed[pv][j]
        BY DEF RowsSent
      <3>3. 1 .. sent'[pv] \subseteq Nat /\ 1 .. sent[pv] \subseteq Nat /\ \A i \in 1 .. Len(u.rows) : sent[pv] + i \in Nat
        BY <1>0, <1>3, <2>1
      <3>4. ASSUME NEW r PROVE r \in RowsSent(pv)' <=> r \in RowsSent(pv) \/ r \in RowsIn(u.rows)
        <4>1. ASSUME r \in RowsSent(pv)' PROVE r \in RowsSent(pv) \/ r \in RowsIn(u.rows)
          <5>1. PICK j \in 1 .. sent'[pv] : r = feed[pv][j]
            BY <3>1, <4>1
          <5>2. j \in Nat
            BY <3>3
          <5> QED
            BY <2>2, <2>3, <3>2, <5>1, <5>2, Zenon
        <4>2. ASSUME r \in RowsSent(pv) PROVE r \in RowsSent(pv)'
          <5>1. PICK j \in 1 .. sent[pv] : r = feed[pv][j]
            BY <3>2, <4>2
          <5>2. j \in Nat
            BY <3>3
          <5> QED
            BY <2>3, <3>1, <5>1, <5>2, Zenon
        <4>3. ASSUME r \in RowsIn(u.rows) PROVE r \in RowsSent(pv)'
          <5>1. PICK i \in 1 .. Len(u.rows) : r = feed[pv][sent[pv] + i]
            BY <2>2, <4>3
          <5>2. sent[pv] + i \in Nat
            BY <3>3
          <5>3. sent[pv] + i \in 1 .. sent'[pv]
            BY <2>3, <5>2, Zenon
          <5> QED
            BY <3>1, <5>1, <5>3, Zenon
        <4> QED
          BY <4>1, <4>2, <4>3
      <3> QED
        BY <1>5, <3>4
    <2>5. RowsIn(u.rows) \subseteq Future(q)
      <3>1. \A i \in 1 .. Len(u.rows) : sent[pv] + i \in sent[pv] + 1 .. Len(feed[pv])
        BY <1>0, <1>3
      <3> QED
        BY <1>1, <1>5, <2>2, <3>1 DEF Future
    <2>6. Future(q)' \subseteq Future(q)
      <3>1. sent'[pv] + 1 .. Len(feed[pv]) \subseteq sent[pv] + 1 .. Len(feed[pv])
        BY <1>0, <1>3, <2>1
      <3> QED
        BY <1>1, <1>5, <2>1, <3>1 DEF Future
    <2>7. Remaining(q)' = Remaining(q) \cup RowsIn(u.rows)
      <3>1. pv \in DOMAIN buffers /\ Accepts(buffers[pv], u)
        BY <1>5 DEF PushOutcome
      <3>2. PICK c \in PushResults(buffers[pv], u) : buffers'[pv] = c
        BY <1>1, <3>1 DEF Push
      <3>3. RowsFrom(c, FirstRow(c)) = RowsFrom(buffers[pv], FirstRow(buffers[pv])) \cup RowsIn(u.rows)
        BY <1>0, <3>1, ExactlyPushed DEF Exact, TableTypeOK
      <3> QED
        BY <1>2, <1>5, <3>2, <3>3 DEF Remaining, Position
    <2> QED
      BY <1>1, <1>2, <1>5, <2>4, <2>5, <2>6, <2>7 DEF Pushed
  <1>6. CASE ~(q = pv /\ PushOutcome(pv, u) = "ok")
    <2>1. sent'[q] = sent[q]
      BY <1>3, <1>6 DEF Deliver, PushOutcome
    <2>2. RowsSent(q)' = RowsSent(q)
      BY <1>1, <2>1 DEF RowsSent
    <2>3. Future(q)' \subseteq Future(q)
      BY <1>1, <2>1 DEF Future
    <2>4. Remaining(q)' = Remaining(q)
      <3>1. CASE q = pv
        <4>1. ~Accepts(buffers[pv], u)
          BY <1>6, <3>1 DEF PushOutcome
        <4>2. PICK c \in PushResults(buffers[pv], u) : buffers'[pv] = c
          BY <1>1, <3>1 DEF Push
        <4>3. RowsFrom(c, FirstRow(c)) = RowsFrom(buffers[pv], FirstRow(buffers[pv]))
          BY <1>0, <3>1, <4>1, ExactlyPushed DEF Exact, TableTypeOK
        <4> QED
          BY <1>2, <3>1, <4>2, <4>3 DEF Remaining, Position
      <3>2. CASE q # pv
        <4>1. buffers'[q] = buffers[q]
          BY <1>1, <3>2 DEF Push
        <4> QED
          BY <1>2, <4>1 DEF Remaining, Position
      <3> QED
        BY <3>1, <3>2
    <2> QED
      BY <1>1, <1>2, <1>6, <2>2, <2>3, <2>4 DEF Pushed
  <1> QED
    BY <1>5, <1>6

\* A value that gives a buffer no type is refused, so no table is appended.
LEMMA DeliverKeepsSilent ==
    ASSUME Known, SilentAreEmpty, NEW pv \in PVs, NEW u \in NextUpdates(pv), Deliver(pv, u)
    PROVE  SilentAreEmpty'
  <1>0. DOMAIN buffers' = DOMAIN buffers /\ Push(pv, u) /\ u \in Update
    BY NextUpdatesType DEF Deliver, Push, Known, ReactorTypes, TypeOK
  <1>1. SUFFICES ASSUME NEW q \in DOMAIN buffers, ~Initialized(buffers'[q]) PROVE Empty(buffers'[q])
    BY <1>0 DEF SilentAreEmpty
  <1>2. CASE q # pv
    <2>1. buffers'[q] = buffers[q]
      BY <1>0, <1>2 DEF Push
    <2> QED
      BY <1>1, <2>1 DEF SilentAreEmpty
  <1>3. CASE q = pv
    <2>1. PICK c \in PushResults(buffers[pv], u) : buffers'[pv] = c
      BY <1>0, <1>3 DEF Push
    <2>2. /\ c.tables = IF Accepts(buffers[pv], u) THEN Append(buffers[pv].tables, u.rows) ELSE buffers[pv].tables
          /\ c.type = TypeAfter(buffers[pv], u)
      BY <1>0, <1>3, PushType DEF Known, ReactorTypes, TypeOK, TableTypeOK
    <2>3. TypeAfter(buffers[pv], u) = NoType
      BY <1>1, <1>3, <2>1, <2>2 DEF Initialized
    <2>4. ~Accepts(buffers[pv], u)
      BY <1>0, <2>3, ShapesAssumption DEF Accepts, Update
    <2>5. buffers[pv].type = NoType
      BY <2>3 DEF TypeAfter
    <2> QED
      BY <1>3, <2>1, <2>2, <2>4, <2>5 DEF SilentAreEmpty, Initialized, Empty
  <1> QED
    BY <1>2, <1>3

LEMMA AllInitialized ==
    ASSUME Known, rpc \notin {"prepare", "ended"}, NEW pv \in DOMAIN buffers
    PROVE  Initialized(buffers[pv])
  BY DEF Known, Described, TypeDescribesBuffers

\* The times of rows.
LEMMA RowTimes ==
    ASSUME Steady, Known, NEW pv \in DOMAIN buffers
    PROVE  /\ \A r \in RowsSent(pv) \cup Remaining(pv) \cup Future(pv) :
                r \in Row /\ r.ts \in TimeStamp /\ r.ts.ts \in Nat /\ r.ts.utag \in Nat
           /\ \A r \in RowsSent(pv), f \in Future(pv) : Less(r.ts, f.ts) /\ r.ts.ts <= f.ts.ts
  <1>1. pv \in PVs
    BY RemainingSent DEF Known
  <1>2. \A r \in RowsSent(pv) \cup Remaining(pv) : r \in Row
    BY <1>1, FeedTypes, RemainingSent DEF Known
  <1>3. \A f \in Future(pv) : f \in Row
    <2>1. \A i \in sent[pv] + 1 .. Len(feed[pv]) : i \in 1 .. Len(feed[pv])
      BY <1>1, FeedTypes DEF Known
    <2> QED
      BY <1>1, <2>1, FeedTypes DEF Known, Future
  <1>4. \A r \in RowsSent(pv) \cup Remaining(pv) \cup Future(pv) :
          r \in Row /\ r.ts \in TimeStamp /\ r.ts.ts \in Nat /\ r.ts.utag \in Nat
    BY <1>2, <1>3 DEF Row, TimeStamp
  <1>5. ASSUME NEW r \in RowsSent(pv), NEW f \in Future(pv) PROVE Less(r.ts, f.ts) /\ r.ts.ts <= f.ts.ts
    <2>1. Less(r.ts, f.ts)
      BY <1>1, FutureIsLater DEF Known
    <2> QED
      BY <1>4, <2>1 DEF Less
  <1> QED
    BY <1>4, <1>5

\* What is to come is after the window.
LEMMA FutureAfterWindow ==
    ASSUME Steady, Known, LockstepInv, WindowChosen, NEW pv \in DOMAIN buffers, NEW f \in Future(pv)
    PROVE  bounds.end.ts <= f.ts.ts
  <1>1. running["listener"] /\ Initialized(buffers[pv])
    BY AllInitialized DEF Future, WindowChosen
  <1>2. PICK r \in Remaining(pv) : bounds.end.ts <= r.ts.ts
    BY <1>1 DEF LockstepInv, KeepsUp
  <1>3. r \in RowsSent(pv)
    BY RemainingSent DEF Known
  <1>4. bounds.end.ts \in Nat
    BY DEF Known, ReactorTypes, TypeOK, ReactorTypeOK, Window, TimeStamp
  <1> QED
    BY <1>2, <1>3, <1>4, RowTimes

LEMMA DeliverKeepsLockstep ==
    ASSUME Steady, Known, LockstepInv, NEW pv \in PVs, NEW u \in NextUpdates(pv), Deliver(pv, u)
    PROVE  LockstepInv'
  <1> DEFINE new(q) == Pushed(pv, u, q)
  <1>0. /\ ~extracting /\ ~extracting' /\ DOMAIN buffers' = DOMAIN buffers
        /\ UNCHANGED <<feed, rpc, bounds, value, pv_, stamps, cells, window>> /\ Push(pv, u)
        /\ u \in Update
    <2>1. Push(pv, u) /\ UNCHANGED <<feed, reactorVars>>
      BY DEF Deliver
    <2>2. u \in Update
      BY NextUpdatesType DEF Known, ReactorTypes, TypeOK
    <2> QED
      BY <2>1, <2>2 DEF Push, extractVars, reactorVars
  <1>1. \A q \in DOMAIN buffers :
          /\ RowsSent(q)' = RowsSent(q) \cup new(q)
          /\ Remaining(q)' = Remaining(q) \cup new(q)
          /\ new(q) \subseteq Future(q) /\ Future(q)' \subseteq Future(q)
          /\ running["listener"]
    BY DeliverAdds
  <1> HIDE DEF new
  <1>2. \A q \in DOMAIN buffers : Passed(q)' \subseteq Passed(q) /\ Coming(q)' \subseteq Coming(q)
    BY <1>1 DEF Passed, Coming
  <1>3. InSkewSoFar'
    <2>1. SUFFICES ASSUME NEW p \in DOMAIN buffers, NEW q \in DOMAIN buffers, NEW r \in RowsSent(p)'
                   PROVE  \E s \in RowsSent(q) \cup {feed[q][i] : i \in {1} \cap DOMAIN feed[q]} :
                            r.ts.ts <= s.ts.ts + MaxSkew
      BY <1>0, <1>1 DEF InSkewSoFar
    <2>2. CASE r \in RowsSent(p)
      BY <2>2 DEF LockstepInv, InSkewSoFar
    <2>3. CASE r \in new(p)
      <3>1. r \in RowsIn(u.rows)
        BY <2>3 DEF new, Pushed
      <3>2. InSkew(u) /\ MaxSkew # NoLimit
        BY DEF NextUpdates, Steady, NoLaggard
      <3> QED
        BY <3>1, <3>2 DEF InSkew
    <2> QED
      BY <1>1, <2>2, <2>3
  <1>4. SilentAreEmpty'
    BY DeliverKeepsSilent DEF LockstepInv
  <1>5. KeepsUp'
    <2>1. SUFFICES ASSUME running'["listener"], NEW q \in DOMAIN buffers, Initialized(buffers'[q])
                   PROVE  \E r \in Remaining(q)' : WindowChosen => bounds.end.ts <= r.ts.ts
      BY <1>0 DEF KeepsUp, WindowChosen
    <2>2. CASE Initialized(buffers[q])
      BY <1>1, <2>2 DEF LockstepInv, KeepsUp
    <2>3. CASE ~Initialized(buffers[q])
      <3>1. q = pv
        BY <1>0, <2>1, <2>3 DEF Push
      <3>2. PushOutcome(pv, u) # "runtime_error"
        BY <2>1 DEF Deliver, Stopped, Known, ReactorTypes, TypeOK, Threads
      <3>3. PushOutcome(pv, u) = "ok"
        BY <3>1, <3>2 DEF PushOutcome
      <3>4. RowsIn(u.rows) # {}
        <4>1. Len(u.rows) \in Sizes /\ Len(u.rows) \in Nat /\ Len(u.rows) # 0
          BY NextUpdatesType, FeedsAssumption DEF Known, ReactorTypes, TypeOK, Steady
        <4>2. 1 \in DOMAIN u.rows
          BY <1>0, <4>1 DEF Update
        <4> QED
          BY <4>2 DEF RowsIn
      <3>5. ~WindowChosen
        BY <2>3, AllInitialized DEF WindowChosen
      <3> QED
        BY <1>1, <3>1, <3>3, <3>4, <3>5 DEF new, Pushed
    <2> QED
      BY <2>2, <2>3
  <1>6. Level'
    BY <1>0, <1>2 DEF LockstepInv, Level
  <1>7. IsWindow'
    BY <1>0, <1>2 DEF LockstepInv, IsWindow, WindowChosen
  <1>8. FromStart'
    <2>1. SUFFICES ASSUME rpc = "extract"
                   PROVE  /\ \A q \in DOMAIN buffers : \A r \in Remaining(q)' : bounds.start.ts <= r.ts.ts
                          /\ \E q \in DOMAIN buffers : \E r \in Remaining(q)' : bounds.start.ts = r.ts.ts
      BY <1>0 DEF FromStart
    <2>2. /\ \A q \in DOMAIN buffers : \A r \in Remaining(q) : bounds.start.ts <= r.ts.ts
          /\ \E q \in DOMAIN buffers : \E r \in Remaining(q) : bounds.start.ts = r.ts.ts
      BY <2>1 DEF LockstepInv, FromStart
    <2>3. bounds.start.ts \in Nat /\ bounds.end.ts \in Nat /\ bounds.start.ts <= bounds.end.ts
      <3>1. bounds.start.ts \in Nat
        BY DEF Known, ReactorTypes, TypeOK, ReactorTypeOK, Window, TimeStamp
      <3>2. bounds.end.ts = bounds.start.ts + Period
        BY <2>1 DEF LockstepInv, IsWindow, WindowChosen, Untagged
      <3> QED
        BY <3>1, <3>2, PeriodAssumption
    <2>4. ASSUME NEW q \in DOMAIN buffers, NEW r \in new(q) PROVE bounds.start.ts <= r.ts.ts
      <3>1. r \in Future(q)
        BY <1>1
      <3>2. bounds.end.ts <= r.ts.ts /\ r.ts.ts \in Nat
        BY <2>1, <3>1, FutureAfterWindow, RowTimes DEF WindowChosen
      <3> QED
        BY <2>3, <3>2
    <2> QED
      BY <1>1, <2>2, <2>4
  <1>9. InWindow'
    BY <1>0 DEF InWindow
  <1>10. AfterWindow'
    <2>1. SUFFICES ASSUME rpc = "post", NEW q \in DOMAIN buffers, NEW r \in Remaining(q)' PROVE bounds.end.ts <= r.ts.ts
      BY <1>0 DEF AfterWindow
    <2> QED
      BY <1>1, <2>1, FutureAfterWindow DEF LockstepInv, AfterWindow, WindowChosen
  <1>11. \A q \in DOMAIN buffers : pendingRows'[q] = pendingRows[q] \cup new(q)
    BY <1>0, <1>1 DEF pendingRows, RowsOf, Extracted
  <1>12. Windows'
    BY <1>0, <1>11 DEF LockstepInv, Windows, TableOfWindow
  <1>13. ShownFirst'
    BY <1>0, <1>1, <1>11 DEF LockstepInv, ShownFirst
  <1>14. NothingBetween'
    BY <1>0 DEF LockstepInv, NothingBetween
  <1> QED
    BY <1>3, <1>4, <1>5, <1>6, <1>7, <1>8, <1>9, <1>10, <1>12, <1>13, <1>14 DEF LockstepInv

LEMMA PendingRows ==
    /\ DOMAIN pendingRows = DOMAIN buffers
    /\ \A pv \in DOMAIN buffers :
         pendingRows[pv] = Remaining(pv) \cup RowsOf(Extracted, pv) \cup RowsOf(value, pv)
  BY DEF pendingRows

\* Rows are pending only if they were sent.
LEMMA PendingSent ==
    ASSUME Known, NEW pv \in DOMAIN buffers
    PROVE  pendingRows[pv] \subseteq RowsSent(pv)
  <1>1. ASSUME NEW t, Aligned(t) PROVE RowsOf(t, pv) \subseteq RowsSent(pv)
    BY <1>1 DEF RowsOf, Aligned
  <1> QED
    BY <1>1, PendingRows, RemainingSent DEF Known, SentOnly

LEMMA DeliverArrives ==
    ASSUME Steady, Known, LockstepInv, NEW pv \in PVs, NEW u \in NextUpdates(pv), Deliver(pv, u)
    PROVE  AM!Next \/ UNCHANGED AM!vars
  <1>0. /\ ~extracting /\ ~extracting' /\ DOMAIN buffers' = DOMAIN buffers
        /\ UNCHANGED <<feed, rpc, bounds, value, pv_, stamps, cells, window>>
    BY DEF Deliver, Push, extractVars, reactorVars
  <1> DEFINE new(q) == Pushed(pv, u, q)
  <1>1. \A q \in DOMAIN buffers : Remaining(q)' = Remaining(q) \cup new(q) /\ new(q) \subseteq Future(q)
    BY DeliverAdds
  <1>2. \A q \in DOMAIN buffers : q # pv => new(q) = {}
    BY DEF Pushed
  <1> HIDE DEF new
  <1>3. /\ DOMAIN pendingRows' = DOMAIN pendingRows /\ DOMAIN pendingRows = DOMAIN buffers
        /\ \A q \in DOMAIN buffers : pendingRows'[q] = pendingRows[q] \cup new(q)
    BY <1>0, <1>1 DEF pendingRows, RowsOf, Extracted
  <1>4. CASE pv \notin DOMAIN buffers
    <2>1. \A q \in DOMAIN buffers : pendingRows'[q] = pendingRows[q]
      BY <1>2, <1>3, <1>4
    <2>2. pendingRows' = pendingRows
      <3>1. pendingRows' = [q \in DOMAIN pendingRows' |-> pendingRows'[q]]
            /\ pendingRows = [q \in DOMAIN pendingRows |-> pendingRows[q]]
        BY DEF pendingRows
      <3> QED
        BY <1>3, <2>1, <3>1
    <2> QED
      BY <1>0, <2>2 DEF AM!vars
  <1>5. CASE pv \in DOMAIN buffers
    <2>1. pendingRows'[pv] \ pendingRows[pv] \subseteq new(pv)
      BY <1>3, <1>5
    <2>2. \A q \in DOMAIN pendingRows \ {pv} : pendingRows'[q] = pendingRows[q]
      BY <1>2, <1>3
    <2>3. ASSUME NEW r \in new(pv), NEW s \in AM!StampsOf(pendingRows[pv]) \cup pv_.table.stamps
          PROVE  AM!Less(s, r.ts)
      <3>1. r \in Future(pv)
        BY <1>1, <1>5
      <3>2. CASE s \in pv_.table.stamps
        BY <1>5, <3>1, <3>2 DEF LockstepInv, ShownFirst, AM!Less
      <3>3. CASE s \in AM!StampsOf(pendingRows[pv])
        <4>1. PICK o \in pendingRows[pv] : s = o.ts
          BY <3>3 DEF AM!StampsOf
        <4>2. o \in RowsSent(pv)
          BY <1>5, <4>1, PendingSent
        <4> QED
          BY <1>5, <3>1, <4>1, <4>2, RowTimes DEF Less, AM!Less
      <3> QED
        BY <3>2, <3>3
    <2>4. AM!Arrive
      BY <1>0, <1>3, <1>5, <2>1, <2>2, <2>3 DEF AM!Arrive
    <2> QED
      BY <2>4 DEF AM!Next
  <1> QED
    BY <1>4, <1>5

-----------------------------------------------------------------------------
(***************************************************************************)
(* Before the first window.                                                *)
(***************************************************************************)

LEMMA ListenerKeepsRunning ==
    ASSUME Known, ReactorNext
    PROVE  running'["listener"] = running["listener"]
  <1>1. UNCHANGED running \/ running' = [running EXCEPT !["reactor"] = FALSE]
    BY DEF ReactorNext, Prepare, OpenPV, TimeOut, StopRequested, ChooseWindow, CallExtract, InExtract, ExtractReturns,
           Post, PostToClosed, Stopped, runnableVars
  <1> QED
    BY <1>1 DEF Known, ReactorTypes, TypeOK, Threads

\* A step that leaves the rows of a PV alone.
LEMMA SameRows ==
    ASSUME Known, ReactorNext, UNCHANGED <<feed, sent>>, NEW q,
           buffers'[q] = buffers[q], Position(q)' = Position(q)
    PROVE  /\ RowsSent(q)' = RowsSent(q) /\ Remaining(q)' = Remaining(q) /\ Future(q)' = Future(q)
           /\ Passed(q)' = Passed(q) /\ Coming(q)' = Coming(q)
  <1>1. RowsSent(q)' = RowsSent(q) /\ Remaining(q)' = Remaining(q) /\ Future(q)' = Future(q)
    BY ListenerKeepsRunning DEF RowsSent, Remaining, Future
  <1> QED
    BY <1>1 DEF Passed, Coming

\* The parts that do not depend on where the reactor is.
LEMMA SameFeeds ==
    ASSUME LockstepInv, UNCHANGED feed, DOMAIN buffers' \subseteq DOMAIN buffers,
           \A q \in DOMAIN buffers' : RowsSent(q)' = RowsSent(q) /\ buffers'[q] = buffers[q]
    PROVE  InSkewSoFar' /\ SilentAreEmpty'
  <1>1. InSkewSoFar'
    BY DEF LockstepInv, InSkewSoFar
  <1>2. SilentAreEmpty'
    BY DEF LockstepInv, SilentAreEmpty
  <1> QED
    BY <1>1, <1>2

LEMMA PrepareKeepsLockstep ==
    ASSUME Steady, Known, LockstepInv, Prepare, UNCHANGED <<feed, sent>>
    PROVE  LockstepInv' /\ (AM!Next \/ UNCHANGED AM!vars)
  <1>1. /\ rpc = "prepare" /\ ~extracting /\ ~extracting' /\ rpc' \in {"open", "ended"}
        /\ UNCHANGED <<bounds, value, pv_, stamps, cells, window>>
        /\ value = NoTable /\ pv_.table = NoTable
    BY DEF Prepare, ForceInitialize, extractVars, LockstepInv, NothingBetween
  <1>2. /\ DOMAIN buffers' \subseteq DOMAIN buffers
        /\ \A q \in DOMAIN buffers' : buffers'[q] = buffers[q]
        /\ \A q \in DOMAIN buffers \ DOMAIN buffers' : ~Initialized(buffers[q])
    BY DEF Prepare, ForceInitialize
  <1>3. running'["listener"] = running["listener"]
    BY ListenerKeepsRunning DEF ReactorNext
  <1>4. \A q \in DOMAIN buffers' : Position(q)' = Position(q)
    BY <1>1, <1>2 DEF Position
  <1>5. \A q \in DOMAIN buffers' :
          /\ RowsSent(q)' = RowsSent(q) /\ Remaining(q)' = Remaining(q) /\ Future(q)' = Future(q)
          /\ Passed(q)' = Passed(q) /\ Coming(q)' = Coming(q)
    BY <1>2, <1>4, SameRows DEF ReactorNext
  <1>6. InSkewSoFar' /\ SilentAreEmpty'
    BY <1>2, <1>5, SameFeeds
  <1>7. KeepsUp'
    BY <1>1, <1>2, <1>3, <1>5 DEF LockstepInv, KeepsUp, WindowChosen
  <1>8. Level'
    BY <1>1, <1>2, <1>5 DEF LockstepInv, Level
  <1>9. IsWindow' /\ FromStart' /\ InWindow' /\ AfterWindow' /\ Windows'
    BY <1>1 DEF IsWindow, FromStart, InWindow, AfterWindow, Windows, WindowChosen
  <1>10. ShownFirst' /\ NothingBetween'
    BY <1>1 DEF ShownFirst, NothingBetween, NoTable
  <1>11. AM!GiveUp
    <2>1. DOMAIN pendingRows = DOMAIN buffers /\ DOMAIN pendingRows' = DOMAIN buffers'
      BY DEF pendingRows
    <2>2. \A q \in DOMAIN buffers' : pendingRows'[q] = pendingRows[q]
      BY <1>1, <1>2, <1>5 DEF pendingRows, RowsOf, Extracted
    <2>3. ASSUME NEW q \in DOMAIN buffers \ DOMAIN buffers' PROVE pendingRows[q] = {}
      <3>1. buffers[q].tables = <<>>
        BY <1>2 DEF LockstepInv, SilentAreEmpty, Empty
      <3>2. Remaining(q) = {}
        BY <3>1, InRowsFrom DEF Remaining
      <3>3. RowsOf(Extracted, q) = {} /\ RowsOf(value, q) = {}
        BY <1>1 DEF RowsOf, Extracted, NoTable, Known, OrderInv
      <3> QED
        BY <3>2, <3>3, PendingRows
    <2> QED
      BY <1>1, <1>2, <2>1, <2>2, <2>3 DEF AM!GiveUp, NoTable
  <1> QED
    BY <1>6, <1>7, <1>8, <1>9, <1>10, <1>11 DEF LockstepInv, AM!Next

\* Steps that leave the buffers and the tables alone, and do not choose a window.
LEMMA QuietKeepsLockstep ==
    ASSUME Steady, Known, LockstepInv, UNCHANGED <<feed, sent>>, OpenPV \/ TimeOut \/ StopRequested \/ PostToClosed
    PROVE  LockstepInv' /\ UNCHANGED AM!vars
  <1>1. /\ UNCHANGED <<tableVars, value, bounds>> /\ pv_'.table = pv_.table
        /\ rpc' \in {"loop", "ended", "aborted"}
        /\ rpc \in {"prepare", "open", "loop"} \/ (rpc = "post" /\ rpc' = "aborted")
    BY DEF OpenPV, TimeOut, StopRequested, PostToClosed, LockstepInv, NothingBetween
  <1>2. UNCHANGED <<buffers, type_, extracting, window, stamps, todo, cur, cursor, rest, cells>>
    BY <1>1 DEF tableVars, extractVars
  <1>3. running'["listener"] = running["listener"]
    BY ListenerKeepsRunning DEF ReactorNext
  <1>4. \A q : Position(q)' = Position(q)
    BY <1>2 DEF Position
  <1>5. \A q \in DOMAIN buffers' :
          /\ RowsSent(q)' = RowsSent(q) /\ Remaining(q)' = Remaining(q) /\ Future(q)' = Future(q)
          /\ Passed(q)' = Passed(q) /\ Coming(q)' = Coming(q)
    BY <1>2, <1>4, SameRows DEF ReactorNext
  <1>6. InSkewSoFar' /\ SilentAreEmpty'
    BY <1>2, <1>5, SameFeeds
  <1>7. pendingRows' = pendingRows
    BY <1>1, <1>2, <1>5 DEF pendingRows, RowsOf, Extracted
  <1>8. KeepsUp'
    BY <1>1, <1>2, <1>3, <1>5 DEF LockstepInv, KeepsUp, WindowChosen
  <1>9. Level'
    <2>1. CASE rpc # "post"
      BY <1>1, <1>2, <1>5, <2>1 DEF LockstepInv, Level
    <2>2. CASE rpc = "post"
      <3>1. SUFFICES ASSUME NEW p \in DOMAIN buffers, NEW q \in DOMAIN buffers, NEW o \in Passed(p), NEW r \in Coming(q)
                     PROVE  o.ts.ts < r.ts.ts
        BY <1>2, <1>5 DEF Level
      <3>2. o.ts.ts < bounds.end.ts
        BY <2>2 DEF LockstepInv, IsWindow, WindowChosen
      <3>3. bounds.end.ts <= r.ts.ts
        BY <2>2, FutureAfterWindow DEF LockstepInv, AfterWindow, WindowChosen, Coming
      <3>4. o.ts.ts \in Nat /\ r.ts.ts \in Nat /\ bounds.end.ts \in Nat
        BY RowTimes DEF Passed, Coming, Known, ReactorTypes, TypeOK, ReactorTypeOK, Window, TimeStamp
      <3> QED
        BY <3>2, <3>3, <3>4
    <2> QED
      BY <2>1, <2>2
  <1>10. IsWindow' /\ FromStart' /\ InWindow' /\ AfterWindow' /\ Windows'
    <2>1. ~extracting'
      BY <1>1, <1>2 DEF Known, ReactorTypes, Phase
    <2> QED
      BY <1>1, <2>1 DEF IsWindow, FromStart, InWindow, AfterWindow, Windows, WindowChosen
  <1>11. ShownFirst'
    BY <1>1, <1>2, <1>5, <1>7 DEF LockstepInv, ShownFirst
  <1>12. NothingBetween'
    BY <1>1 DEF LockstepInv, NothingBetween
  <1> QED
    BY <1>1, <1>6, <1>7, <1>8, <1>9, <1>10, <1>11, <1>12 DEF LockstepInv, AM!vars

-----------------------------------------------------------------------------
(***************************************************************************)
(* The choice of a window.                                                 *)
(***************************************************************************)

\* The latest of stamps without tags exists, if their times are bounded.
LEMMA LatestExists ==
    ASSUME NEW S, S \subseteq TimeStamp, S # {}, NEW m \in Nat, \A s \in S : s.ts <= m /\ s.utag = 0
    PROVE  Latest(S) \in S
  <1> DEFINE below == {m - s.ts : s \in S}
  <1>1. \A s \in S : s.ts \in Nat /\ s.utag \in Nat /\ m - s.ts \in Nat
    BY DEF TimeStamp
  <1>2. PICK n \in below : \A k \in below : n <= k
    <2>1. below \subseteq Nat /\ below # {}
      BY <1>1
    <2> HIDE DEF below
    <2> QED
      BY <2>1, LeastNatural
  <1>3. PICK l \in S : n = m - l.ts
    BY <1>2
  <1>4. ASSUME NEW o \in S PROVE LessEq(o, l)
    <2>1. m - l.ts <= m - o.ts
      BY <1>2, <1>3
    <2>2. o.ts <= l.ts
      BY <1>1, <2>1
    <2>3. o = l <=> o.ts = l.ts /\ o.utag = l.utag
      BY DEF TimeStamp
    <2> QED
      BY <1>1, <2>2, <2>3 DEF LessEq, Less
  <1> QED
    BY <1>3, <1>4 DEF Latest

\* What get_timebounds() returns, in terms of the buffers that hold a table.
LEMMA BoundsOfFilled ==
    ASSUME TimeBounds.valid
    PROVE  LET filled == {pv \in DOMAIN buffers : ~Empty(buffers[pv])}
           IN  /\ filled # {}
               /\ TimeBounds.earliest_start = Earliest({buffers[pv].start : pv \in filled})
               /\ TimeBounds.earliest_end = Earliest({buffers[pv].end : pv \in filled})
               /\ TimeBounds.latest_end = Latest({buffers[pv].end : pv \in filled})
  <1> DEFINE filled == {pv \in DOMAIN buffers : ~Empty(buffers[pv])}
             spans == {s \in {SpanOf(buffers[pv]) : pv \in DOMAIN buffers} : s.valid}
  <1>1. /\ spans # {}
        /\ TimeBounds.earliest_start = Earliest({s.start : s \in spans})
        /\ TimeBounds.earliest_end = Earliest({s.end : s \in spans})
        /\ TimeBounds.latest_end = Latest({s.end : s \in spans})
    BY DEF TimeBounds, BoundsOf
  <1>2. ASSUME NEW s \in spans
        PROVE  \E pv \in filled : s.start = buffers[pv].start /\ s.end = buffers[pv].end
    <2>1. PICK pv \in DOMAIN buffers : s = SpanOf(buffers[pv]) /\ s.valid
      OBVIOUS
    <2>2. ~Empty(buffers[pv]) /\ s.start = buffers[pv].start /\ s.end = buffers[pv].end
      BY <2>1 DEF SpanOf, TimeSpan, InvalidSpan
    <2> QED
      BY <2>2
  <1>3. ASSUME NEW pv \in filled
        PROVE  \E s \in spans : s.start = buffers[pv].start /\ s.end = buffers[pv].end
    <2>1. /\ SpanOf(buffers[pv]).valid
          /\ SpanOf(buffers[pv]).start = buffers[pv].start /\ SpanOf(buffers[pv]).end = buffers[pv].end
      BY DEF SpanOf, TimeSpan
    <2> QED
      BY <2>1
  <1> HIDE DEF filled, spans
  <1>4. {s.start : s \in spans} = {buffers[pv].start : pv \in filled}
    BY <1>2, <1>3
  <1>5. {s.end : s \in spans} = {buffers[pv].end : pv \in filled}
    BY <1>2, <1>3
  <1>6. filled # {}
    BY <1>1, <1>2
  <1> QED
    BY <1>1, <1>4, <1>5, <1>6 DEF filled

\* The span of a buffer is from its first row to one of its rows.
LEMMA SpanOfRows ==
    ASSUME Ordered, Known, ~extracting, NEW pv \in DOMAIN buffers, ~Empty(buffers[pv])
    PROVE  /\ buffers[pv].start \in TimeStamp /\ buffers[pv].start.utag = 0
           /\ buffers[pv].end \in TimeStamp /\ buffers[pv].end.utag = 0
           /\ \E r \in Remaining(pv) : r.ts.ts = buffers[pv].start.ts
           /\ \E r \in Remaining(pv) : r.ts.ts = buffers[pv].end.ts
           /\ \A r \in Remaining(pv) : buffers[pv].start.ts <= r.ts.ts
  <1>1. /\ buffers[pv] \in Buffer /\ Sound(buffers[pv]) /\ Increasing(buffers[pv])
        /\ Remaining(pv) = RowsFrom(buffers[pv], FirstRow(buffers[pv]))
    BY DEF Known, ReactorTypes, TypeOK, TableTypeOK, Exact, OrderInv, Remaining, Position
  <1>2. PICK f \in Remaining(pv), l \in Remaining(pv) :
             /\ buffers[pv].start = Untagged(f.ts.ts) /\ buffers[pv].end = Untagged(l.ts.ts)
             /\ \A r \in Remaining(pv) : r = f \/ f.id < r.id
    BY <1>1, EndsOfBuffer
  <1>3. ASSUME NEW r \in Remaining(pv) PROVE f.ts.ts <= r.ts.ts
    <2>1. f \in RowsSent(pv) /\ r \in RowsSent(pv) /\ pv \in PVs
      BY RemainingSent DEF Known
    <2>2. r = f \/ Less(f.ts, r.ts)
      BY <1>2, <2>1, SentInOrder DEF Known
    <2>3. f.ts.ts \in Nat /\ r.ts.ts \in Nat
      BY RemainingSent DEF Known, Row, TimeStamp
    <2> QED
      BY <2>2, <2>3 DEF Less
  <1>4. buffers[pv].start \in TimeStamp /\ buffers[pv].end \in TimeStamp
    BY <1>1 DEF Buffer
  <1> QED
    BY <1>2, <1>3, <1>4 DEF Untagged

\* The window starts at the first row there is, and when the reactor does not
\* wait for more, no buffer with rows ends before the window does.
LEMMA BoundsReached ==
    ASSUME Steady, Known, LockstepInv, rpc = "loop", ~extracting, TimeBounds.valid
    PROVE  LET start == TimeBounds.earliest_start
           IN  /\ start = Untagged(start.ts) /\ start.ts \in Nat
               /\ \E pv \in DOMAIN buffers : \E r \in Remaining(pv) : start.ts = r.ts.ts
               /\ \A pv \in DOMAIN buffers : \A r \in Remaining(pv) : start.ts <= r.ts.ts
               /\ ~WaitsForMore(TimeBounds) =>
                    \A pv \in DOMAIN buffers :
                      Remaining(pv) # {} => (\E r \in Remaining(pv) : start.ts + Period <= r.ts.ts)
  <1> DEFINE filled == {pv \in DOMAIN buffers : ~Empty(buffers[pv])}
             starts == {buffers[pv].start : pv \in filled}
             ends == {buffers[pv].end : pv \in filled}
             start == TimeBounds.earliest_start
  <1>1. /\ filled # {} /\ start = Earliest(starts)
        /\ TimeBounds.earliest_end = Earliest(ends) /\ TimeBounds.latest_end = Latest(ends)
    BY BoundsOfFilled
  <1>2. \A pv \in filled :
          /\ buffers[pv].start \in TimeStamp /\ buffers[pv].start.utag = 0
          /\ buffers[pv].end \in TimeStamp /\ buffers[pv].end.utag = 0
          /\ \E r \in Remaining(pv) : r.ts.ts = buffers[pv].start.ts
          /\ \E r \in Remaining(pv) : r.ts.ts = buffers[pv].end.ts
          /\ \A r \in Remaining(pv) : buffers[pv].start.ts <= r.ts.ts
    BY SpanOfRows, SteadyIsOrdered
  <1>3. ASSUME NEW pv \in DOMAIN buffers, Remaining(pv) # {} PROVE pv \in filled
    BY <1>3, InRowsFrom DEF Remaining, Empty
  <1>4. \A pv \in DOMAIN buffers : \A r \in Remaining(pv) : r.ts.ts \in Nat
    BY RowTimes
  <1> HIDE DEF filled
  <1>5. filled \subseteq DOMAIN buffers
    BY DEF filled
  <1>6. /\ starts # {} /\ starts \subseteq TimeStamp
        /\ ends # {} /\ ends \subseteq TimeStamp
    BY <1>1, <1>2
  <1>7. start \in starts /\ \A o \in starts : LessEq(start, o)
    BY <1>1, <1>6, EarliestExists
  <1>8. Earliest(ends) \in ends /\ \A o \in ends : LessEq(Earliest(ends), o)
    BY <1>6, EarliestExists
  <1>9. start \in TimeStamp /\ start.utag = 0 /\ start.ts \in Nat /\ start = Untagged(start.ts)
    BY <1>2, <1>6, <1>7 DEF TimeStamp, Untagged
  <1>10. \E pv \in DOMAIN buffers : \E r \in Remaining(pv) : start.ts = r.ts.ts
    <2>1. PICK pv \in filled : start = buffers[pv].start
      BY <1>7
    <2> QED
      BY <1>2, <1>5, <2>1
  <1>11. ASSUME NEW pv \in DOMAIN buffers, NEW r \in Remaining(pv) PROVE start.ts <= r.ts.ts
    <2>1. pv \in filled
      BY <1>3, <1>11
    <2>2. LessEq(start, buffers[pv].start) /\ buffers[pv].start.ts \in Nat
      BY <1>2, <1>7, <2>1 DEF TimeStamp
    <2>3. buffers[pv].start.ts <= r.ts.ts /\ r.ts.ts \in Nat
      BY <1>2, <1>4, <2>1
    <2> HIDE DEF start
    <2>4. start.ts <= buffers[pv].start.ts
      BY <1>9, <2>2 DEF LessEq, Less
    <2> QED
      BY <1>9, <2>2, <2>3, <2>4
  <1>12. ASSUME ~WaitsForMore(TimeBounds), NEW pv \in DOMAIN buffers, Remaining(pv) # {}
         PROVE  \E r \in Remaining(pv) : start.ts + Period <= r.ts.ts
    <2>1. pv \in filled
      BY <1>3, <1>12
    <2>2. \/ ~(Earliest(ends).ts < start.ts + Period)
          \/ ~(Latest(ends).ts < start.ts + Timeout)
      BY <1>1, <1>12 DEF WaitsForMore
    <2> HIDE DEF start
    <2>3. CASE ~(Earliest(ends).ts < start.ts + Period)
      <3>1. LessEq(Earliest(ends), buffers[pv].end) /\ buffers[pv].end.ts \in Nat
        BY <1>2, <1>8, <2>1 DEF TimeStamp
      <3>2. Earliest(ends).ts \in Nat
        BY <1>6, <1>8 DEF TimeStamp
      <3>3. Earliest(ends).ts <= buffers[pv].end.ts
        BY <3>1, <3>2 DEF LessEq, Less
      <3>4. start.ts + Period <= buffers[pv].end.ts
        BY <1>9, <2>3, <3>1, <3>2, <3>3, PeriodAssumption
      <3> QED
        BY <1>2, <2>1, <3>4
    <2>4. CASE ~(Latest(ends).ts < start.ts + Timeout)
      <3>0. MaxSkew \in Nat /\ MaxSkew + Period <= Timeout /\ Timeout \in Nat /\ Period \in Nat
        BY PeriodAssumption DEF Steady, NoLaggard
      <3>1. PICK r0 \in Remaining(pv) : TRUE
        BY <1>12
      <3>2. r0 \in RowsSent(pv) /\ pv \in PVs
        BY RemainingSent DEF Known
      <3>3. /\ sent[pv] \in Nat /\ Len(feed[pv]) \in Nat /\ sent[pv] <= Len(feed[pv])
            /\ \A i \in 1 .. Len(feed[pv]) : feed[pv][i].ts \in TimeStamp
            /\ feed \in Feeds /\ DOMAIN feed[pv] = 1 .. Len(feed[pv])
        BY <3>2, FeedTypes DEF Known
      <3>4. sent[pv] > 0 /\ sent[pv] \in 1 .. Len(feed[pv])
        BY <3>2, <3>3 DEF RowsSent
      <3>5. {feed[pv][i] : i \in {1} \cap DOMAIN feed[pv]} \subseteq RowsSent(pv)
        <4>1. 1 \in 1 .. sent[pv]
          BY <3>3, <3>4
        <4> QED
          BY <4>1 DEF RowsSent
      <3> DEFINE m == feed[pv][sent[pv]].ts.ts
      <3>6. m \in Nat /\ \A s \in RowsSent(pv) : s.ts.ts <= m
        <4>1. m \in Nat
          BY <3>3, <3>4 DEF TimeStamp
        <4>2. ASSUME NEW i \in 1 .. sent[pv] PROVE feed[pv][i].ts.ts <= m
          <5>1. i \in 1 .. Len(feed[pv]) /\ (i < sent[pv] \/ i = sent[pv])
            BY <3>3, <3>4
          <5>2. feed[pv][i].ts.ts \in Nat
            BY <3>3, <5>1 DEF TimeStamp
          <5>3. i < sent[pv] => Less(feed[pv][i].ts, feed[pv][sent[pv]].ts)
            BY <3>2, <3>3, <3>4, <5>1 DEF Steady, SameStamps, StampsIncrease
          <5> QED
            BY <4>1, <5>1, <5>2, <5>3 DEF Less
        <4> QED
          BY <4>1, <4>2 DEF RowsSent
      <3>7. ASSUME NEW p \in filled
            PROVE  \E s \in RowsSent(pv) : buffers[p].end.ts <= s.ts.ts + MaxSkew
        <4>1. PICK l \in Remaining(p) : l.ts.ts = buffers[p].end.ts
          BY <1>2
        <4>2. p \in DOMAIN buffers
          BY <1>5
        <4>3. l \in RowsSent(p)
          BY <4>2, RemainingSent DEF Known
        <4>4. \E s \in RowsSent(pv) \cup {feed[pv][i] : i \in {1} \cap DOMAIN feed[pv]} :
                 l.ts.ts <= s.ts.ts + MaxSkew
          BY <4>2, <4>3 DEF LockstepInv, InSkewSoFar
        <4> QED
          BY <3>5, <4>1, <4>4
      <3>8. \A o \in ends : o.ts <= m + MaxSkew /\ o.utag = 0
        <4> SUFFICES ASSUME NEW p \in filled PROVE buffers[p].end.ts <= m + MaxSkew /\ buffers[p].end.utag = 0
          OBVIOUS
        <4>1. PICK s \in RowsSent(pv) : buffers[p].end.ts <= s.ts.ts + MaxSkew
          BY <3>7
        <4>2. s.ts.ts \in Nat /\ s.ts.ts <= m /\ buffers[p].end.ts \in Nat
          BY <1>2, <3>6, RowTimes DEF TimeStamp
        <4> HIDE DEF m
        <4> QED
          BY <1>2, <3>0, <3>6, <4>1, <4>2
      <3>9. Latest(ends) \in ends
        <4>1. m + MaxSkew \in Nat
          BY <3>0, <3>6
        <4> HIDE DEF m, ends
        <4> QED
          BY <1>6, <3>8, <4>1, LatestExists
      <3>10. PICK p \in filled : Latest(ends) = buffers[p].end
        BY <3>9
      <3>11. PICK s \in RowsSent(pv) : buffers[p].end.ts <= s.ts.ts + MaxSkew
        BY <3>7
      <3>12. start.ts + Period <= s.ts.ts
        <4>1. s.ts.ts \in Nat /\ buffers[p].end.ts \in Nat
          BY <1>2, RowTimes DEF TimeStamp
        <4>2. start.ts + Timeout <= buffers[p].end.ts
          BY <1>9, <2>4, <3>0, <3>10, <4>1
        <4> QED
          BY <1>9, <3>0, <3>11, <4>1, <4>2
      <3>13. CASE s \in Remaining(pv)
        BY <3>12, <3>13
      <3>14. CASE s \notin Remaining(pv)
        <4>1. s \in Passed(pv) /\ r0 \in Coming(pv)
          BY <3>14 DEF Passed, Coming
        <4>2. s.ts.ts < r0.ts.ts
          BY <4>1 DEF LockstepInv, Level
        <4>3. s.ts.ts \in Nat /\ r0.ts.ts \in Nat
          BY RowTimes
        <4> QED
          BY <1>9, <3>0, <3>12, <4>2, <4>3
      <3> QED
        BY <3>13, <3>14
    <2> QED
      BY <2>2, <2>3, <2>4
  <1> QED
    BY <1>9, <1>10, <1>11, <1>12

LEMMA ChooseKeepsLockstep ==
    ASSUME Steady, Known, LockstepInv, ChooseWindow, UNCHANGED <<feed, sent>>
    PROVE  LockstepInv' /\ UNCHANGED AM!vars
  <1> DEFINE start == TimeBounds.earliest_start
  <1>1. /\ rpc = "loop" /\ rpc' = "extract" /\ ~extracting /\ TimeBounds.valid /\ ~WaitsForMore(TimeBounds)
        /\ bounds' = [start |-> start, end |-> [ts |-> start.ts + Period, utag |-> start.utag]]
        /\ UNCHANGED <<value, pv_, tableVars, runnableVars>>
    BY DEF ChooseWindow
  <1>2. UNCHANGED <<buffers, type_, extracting, window, stamps, todo, cur, cursor, rest, cells, running>>
    BY <1>1 DEF tableVars, extractVars, runnableVars
  <1>3. /\ start = Untagged(start.ts) /\ start.ts \in Nat
        /\ \E pv \in DOMAIN buffers : \E r \in Remaining(pv) : start.ts = r.ts.ts
        /\ \A pv \in DOMAIN buffers : \A r \in Remaining(pv) : start.ts <= r.ts.ts
        /\ \A pv \in DOMAIN buffers : Remaining(pv) # {} =>
             \E r \in Remaining(pv) : start.ts + Period <= r.ts.ts
    BY <1>1, BoundsReached
  <1> HIDE DEF start
  <1>4. \A q : Position(q)' = Position(q)
    BY <1>2 DEF Position
  <1>5. \A q \in DOMAIN buffers' :
          /\ RowsSent(q)' = RowsSent(q) /\ Remaining(q)' = Remaining(q) /\ Future(q)' = Future(q)
          /\ Passed(q)' = Passed(q) /\ Coming(q)' = Coming(q)
    BY <1>2, <1>4, SameRows DEF ReactorNext
  <1>6. InSkewSoFar' /\ SilentAreEmpty'
    BY <1>2, <1>5, SameFeeds
  <1>7. pendingRows' = pendingRows
    BY <1>1, <1>2, <1>5 DEF pendingRows, RowsOf, Extracted
  <1>8. bounds'.start = start /\ bounds'.start.ts = start.ts
        /\ bounds'.end.ts = start.ts + Period /\ bounds'.end.utag = 0
    BY <1>1, <1>3 DEF Untagged
  <1>9. KeepsUp'
    <2>1. SUFFICES ASSUME running["listener"], NEW pv \in DOMAIN buffers, Initialized(buffers[pv])
                   PROVE  \E r \in Remaining(pv) : start.ts + Period <= r.ts.ts
      BY <1>2, <1>5, <1>8 DEF KeepsUp
    <2>2. Remaining(pv) # {}
      BY <2>1 DEF LockstepInv, KeepsUp
    <2> QED
      BY <1>3, <2>2
  <1>10. Level'
    BY <1>1, <1>2, <1>5 DEF LockstepInv, Level
  <1>11. IsWindow'
    <2>1. bounds' = [start |-> Untagged(bounds'.start.ts), end |-> Untagged(bounds'.start.ts + Period)]
      BY <1>1, <1>3, <1>8 DEF Untagged
    <2>2. ASSUME NEW pv \in DOMAIN buffers, NEW o \in Passed(pv) PROVE o.ts.ts < bounds'.end.ts
      <3>1. PICK q \in DOMAIN buffers : \E r \in Remaining(q) : start.ts = r.ts.ts
        BY <1>3
      <3>2. o.ts.ts < start.ts
        BY <1>1, <3>1 DEF LockstepInv, Level, Coming
      <3>3. o.ts.ts \in Nat
        BY RowTimes DEF Passed
      <3> QED
        BY <1>3, <1>8, <3>2, <3>3, PeriodAssumption
    <2> QED
      BY <1>2, <1>5, <2>1, <2>2 DEF IsWindow
  <1>12. FromStart'
    BY <1>2, <1>3, <1>5, <1>8 DEF FromStart
  <1>13. InWindow' /\ AfterWindow' /\ Windows'
    BY <1>1, <1>2 DEF InWindow, AfterWindow, Windows
  <1>14. ShownFirst'
    BY <1>1, <1>2, <1>5, <1>7 DEF LockstepInv, ShownFirst
  <1>15. NothingBetween'
    BY <1>1 DEF LockstepInv, NothingBetween
  <1> QED
    BY <1>1, <1>6, <1>7, <1>9, <1>10, <1>11, <1>12, <1>13, <1>14, <1>15 DEF LockstepInv, AM!vars

-----------------------------------------------------------------------------
(***************************************************************************)
(* extract(): the call.                                                    *)
(***************************************************************************)

\* The bounds are times.
LEMMA InBounds ==
    ASSUME Known, LockstepInv, WindowChosen, NEW s \in TimeStamp
    PROVE  /\ LessEq(bounds.start, s) <=> bounds.start.ts <= s.ts
           /\ Less(s, bounds.end) <=> s.ts < bounds.end.ts
           /\ LessEq(s, bounds.end) <=> s.ts < bounds.end.ts \/ s = bounds.end
  <1>1. /\ bounds.start.ts \in Nat /\ bounds.end.ts \in Nat
        /\ bounds.start \in TimeStamp /\ bounds.end \in TimeStamp
    BY DEF Known, ReactorTypes, TypeOK, ReactorTypeOK, Window, TimeStamp
  <1>2. bounds.start.utag = 0 /\ bounds.end.utag = 0
    <2>1. bounds = [start |-> Untagged(bounds.start.ts), end |-> Untagged(bounds.start.ts + Period)]
      BY DEF LockstepInv, IsWindow
    <2> DEFINE a == Untagged(bounds.start.ts)  e == Untagged(bounds.start.ts + Period)
    <2>2. a.utag = 0 /\ e.utag = 0
      BY DEF Untagged
    <2>3. bounds.start = a /\ bounds.end = e
      BY <2>1
    <2> QED
      BY <2>2, <2>3
  <1>3. s.ts \in Nat /\ s.utag \in Nat
    BY DEF TimeStamp
  <1>4. s = bounds.start <=> s.ts = bounds.start.ts /\ s.utag = bounds.start.utag
    BY <1>1 DEF TimeStamp
  <1>5. s = bounds.end <=> s.ts = bounds.end.ts /\ s.utag = bounds.end.utag
    BY <1>1 DEF TimeStamp
  <1> QED
    BY <1>1, <1>2, <1>3, <1>4, <1>5 DEF LessEq, Less

\* The stamps of the output are those of rows that remain, in the window.
LEMMA StampsOfWindow ==
    ASSUME Steady, Known, LockstepInv, CallExtract, NEW s \in stamps'
    PROVE  /\ s \in TimeStamp /\ bounds.start.ts <= s.ts /\ s.ts < bounds.end.ts
           /\ \E pv \in DOMAIN buffers : \E r \in Remaining(pv) : r.ts = s
           /\ \A pv \in DOMAIN buffers : \A r \in RowsSent(pv) : r.ts = s => r \in Remaining(pv)
  <1> DEFINE rows(q) == UNION {{t[i] : i \in DOMAIN t} : t \in {buffers[q].tables[k] : k \in DOMAIN buffers[q].tables}}
  <1>1. rpc = "extract" /\ stamps' = UNION {StampsBetween(buffers[pv], bounds.start, bounds.end) : pv \in DOMAIN buffers}
    BY DEF CallExtract, BeginExtract
  <1>2. PICK q \in DOMAIN buffers : s \in StampsBetween(buffers[q], bounds.start, bounds.end)
    BY <1>1
  <1>3. s \in {r.ts : r \in rows(q)} /\ LessEq(bounds.start, s) /\ Less(s, bounds.end)
    BY <1>2 DEF StampsBetween
  <1>4. PICK r \in rows(q) : s = r.ts
    BY <1>3
  <1>5. PICK k \in DOMAIN buffers[q].tables : \E i \in DOMAIN buffers[q].tables[k] : r = buffers[q].tables[k][i]
    BY <1>4
  <1> HIDE DEF rows
  <1>6. r \in RowsSent(q)
    BY <1>5, IsBuffered DEF Known, SentOnly
  <1>7. s \in TimeStamp /\ s.ts \in Nat
    BY <1>4, <1>6, RowTimes
  <1>8. bounds.start.ts <= s.ts /\ s.ts < bounds.end.ts
    BY <1>1, <1>3, <1>7, InBounds DEF WindowChosen
  <1>9. ASSUME NEW pv \in DOMAIN buffers, NEW o \in RowsSent(pv), o.ts = s PROVE o \in Remaining(pv)
    <2>1. SUFFICES ASSUME o \in Passed(pv) PROVE FALSE
      BY <1>9 DEF Passed
    <2>2. PICK p \in DOMAIN buffers : \E l \in Remaining(p) : bounds.start.ts = l.ts.ts
      BY <1>1 DEF LockstepInv, FromStart
    <2>3. o.ts.ts < bounds.start.ts
      BY <1>1, <2>1, <2>2 DEF LockstepInv, Level, Coming
    <2>4. bounds.start.ts \in Nat
      BY DEF Known, ReactorTypes, TypeOK, ReactorTypeOK, Window, TimeStamp
    <2> QED
      BY <1>7, <1>8, <1>9, <2>3, <2>4
  <1> QED
    BY <1>4, <1>6, <1>7, <1>8, <1>9

LEMMA CallKeepsLockstep ==
    ASSUME Steady, Known, LockstepInv, CallExtract, UNCHANGED <<feed, sent>>
    PROVE  LockstepInv' /\ UNCHANGED AM!vars
  <1>1. /\ rpc = "extract" /\ rpc' = "extracting" /\ ~extracting /\ extracting'
        /\ window' = [start |-> bounds.start, end |-> bounds.end]
        /\ stamps' = UNION {StampsBetween(buffers[pv], bounds.start, bounds.end) : pv \in DOMAIN buffers}
        /\ cells' = [pv \in DOMAIN buffers |-> [s \in stamps' |-> Uninit]]
        /\ StartBuffer(buffers, DOMAIN buffers)
        /\ UNCHANGED <<buffers, type_, bounds, value, pv_, running>>
    BY DEF CallExtract, BeginExtract, runnableVars
  <1>2. /\ todo' = DOMAIN buffers /\ rest' = stamps'
        /\ todo' # {} => cursor' = FirstRow(buffers[cur'])
    BY <1>1 DEF StartBuffer
  <1>3. window' = bounds
    BY <1>1 DEF Known, ReactorTypes, TypeOK, ReactorTypeOK, Window
  <1>4. \A q : Position(q)' = Position(q)
    BY <1>1, <1>2 DEF Position
  <1>5. \A q \in DOMAIN buffers' :
          /\ RowsSent(q)' = RowsSent(q) /\ Remaining(q)' = Remaining(q) /\ Future(q)' = Future(q)
          /\ Passed(q)' = Passed(q) /\ Coming(q)' = Coming(q)
    BY <1>1, <1>4, SameRows DEF ReactorNext
  <1>6. InSkewSoFar' /\ SilentAreEmpty'
    BY <1>1, <1>5, SameFeeds
  <1>7. pendingRows' = pendingRows
    <2>1. \A q : RowsOf(Extracted, q) = {}
      BY <1>1 DEF RowsOf, Extracted, Known, OrderInv
    <2>2. \A q : RowsOf(Extracted, q)' = {}
      BY <1>1 DEF RowsOf, Extracted
    <2>3. \A q : RowsOf(value, q)' = RowsOf(value, q)
      BY <1>1 DEF RowsOf
    <2> QED
      BY <1>1, <1>5, <2>1, <2>2, <2>3 DEF pendingRows
  <1>8. KeepsUp'
    BY <1>1, <1>5 DEF LockstepInv, KeepsUp, WindowChosen
  <1>9. Level' /\ FromStart' /\ AfterWindow' /\ NothingBetween'
    BY <1>1 DEF LockstepInv, Level, FromStart, AfterWindow, NothingBetween
  <1>10. IsWindow'
    BY <1>1, <1>5 DEF LockstepInv, IsWindow, WindowChosen
  <1>11. InWindow'
    <2> SUFFICES ASSUME NEW pv \in DOMAIN buffers
                 PROVE  /\ \A r \in RowsSent(pv) :
                             r.ts.ts < bounds.end.ts => (r \in Remaining(pv) <=> r.ts \in stamps')
                        /\ \A s \in stamps' : cells'[pv][s] = Uninit
      BY <1>1, <1>2, <1>5 DEF InWindow, Unread
    <2>1. ASSUME NEW r \in RowsSent(pv), r.ts.ts < bounds.end.ts, r \in Remaining(pv) PROVE r.ts \in stamps'
      <3>1. bounds.start.ts <= r.ts.ts /\ r.ts \in TimeStamp
        BY <1>1, <2>1, RowTimes DEF LockstepInv, FromStart
      <3>2. LessEq(bounds.start, r.ts) /\ Less(r.ts, bounds.end)
        BY <1>1, <2>1, <3>1, InBounds DEF WindowChosen
      <3> DEFINE tables == {buffers[pv].tables[k] : k \in DOMAIN buffers[pv].tables}
                 rows == UNION {{t[i] : i \in DOMAIN t} : t \in tables}
      <3>3. r \in rows
        <4>1. PICK k \in DOMAIN buffers[pv].tables : \E i \in DOMAIN buffers[pv].tables[k] : r = buffers[pv].tables[k][i]
          BY <2>1, InRowsFrom DEF Remaining
        <4>2. buffers[pv].tables[k] \in tables /\ r \in {buffers[pv].tables[k][i] : i \in DOMAIN buffers[pv].tables[k]}
          BY <4>1
        <4> HIDE DEF tables
        <4> QED
          BY <4>2
      <3> HIDE DEF rows
      <3>4. r.ts \in StampsBetween(buffers[pv], bounds.start, bounds.end)
        BY <3>2, <3>3 DEF StampsBetween, rows
      <3> QED
        BY <1>1, <3>4
    <2>2. ASSUME NEW r \in RowsSent(pv), r.ts \in stamps' PROVE r \in Remaining(pv)
      BY <2>2, StampsOfWindow
    <2> QED
      BY <1>1, <2>1, <2>2
  <1>12. Windows'
    <2>1. TableOfWindow(Extracted)'
      <3>1. Extracted'.stamps = stamps' /\ DOMAIN Extracted'.cells = DOMAIN buffers
        BY <1>1 DEF Extracted
      <3>2. ASSUME NEW s \in stamps'
            PROVE  /\ bounds.start.ts <= s.ts /\ s.ts < bounds.end.ts
                   /\ \E pv \in DOMAIN buffers : \E r \in pendingRows[pv] : r.ts = s
        <4>1. /\ bounds.start.ts <= s.ts /\ s.ts < bounds.end.ts
              /\ \E pv \in DOMAIN buffers : \E r \in Remaining(pv) : r.ts = s
          BY StampsOfWindow
        <4> QED
          BY <4>1, PendingRows
      <3> QED
        BY <1>1, <1>7, <3>1, <3>2 DEF TableOfWindow
    <2> QED
      BY <1>1, <1>3, <2>1 DEF Windows
  <1>13. ShownFirst'
    BY <1>1, <1>5, <1>7 DEF LockstepInv, ShownFirst
  <1> QED
    BY <1>1, <1>6, <1>7, <1>8, <1>9, <1>10, <1>11, <1>12, <1>13 DEF LockstepInv, AM!vars

-----------------------------------------------------------------------------
(***************************************************************************)
(* extract(): its steps.  Rows only move from the buffer to the output, so *)
(* the same rows stay pending.                                             *)
(***************************************************************************)

LEMMA MovedKeepsLockstep ==
    ASSUME Steady, Known, LockstepInv, InExtract, UNCHANGED <<feed, sent>>,
           DOMAIN buffers' = DOMAIN buffers, DOMAIN cells' = DOMAIN buffers,
           \A q \in DOMAIN buffers : Initialized(buffers'[q]),
           \A q \in DOMAIN buffers : Remaining(q)' \subseteq Remaining(q),
           \A q \in DOMAIN buffers : \A r \in Remaining(q) : r \in Remaining(q)' \/ r.ts.ts < bounds.end.ts,
           pendingRows' = pendingRows,
           InWindow'
    PROVE  LockstepInv' /\ UNCHANGED AM!vars
  <1>1. /\ rpc = "extracting" /\ rpc' = "extracting" /\ extracting /\ extracting'
        /\ UNCHANGED <<window, stamps, bounds, value, pv_, running>>
    <2>1. rpc = "extracting" /\ UNCHANGED <<rpc, bounds, value, pv_, running>>
      BY DEF InExtract, reactorVars, runnableVars
    <2>2. UNCHANGED <<window, stamps, extracting>>
      BY DEF InExtract, ExtractStep, RowMatches, RowAhead, RowBehind, TableEnds, BufferEnds
    <2> QED
      BY <2>1, <2>2 DEF Known, ReactorTypes, Phase
  <1>2. \A q \in DOMAIN buffers :
          /\ RowsSent(q)' = RowsSent(q) /\ Future(q)' = Future(q)
          /\ \A o \in Passed(q)' : o \in Passed(q) \/ o.ts.ts < bounds.end.ts
    BY <1>1 DEF RowsSent, Future, Passed
  <1>3. InSkewSoFar' /\ SilentAreEmpty'
    BY <1>2 DEF LockstepInv, InSkewSoFar, SilentAreEmpty
  <1>4. KeepsUp'
    <2>1. SUFFICES ASSUME running["listener"], NEW q \in DOMAIN buffers
                   PROVE  \E r \in Remaining(q)' : bounds.end.ts <= r.ts.ts
      BY <1>1 DEF KeepsUp
    <2>2. Initialized(buffers[q])
      BY <1>1, AllInitialized
    <2>3. PICK r \in Remaining(q) : bounds.end.ts <= r.ts.ts
      BY <1>1, <2>1, <2>2 DEF LockstepInv, KeepsUp, WindowChosen
    <2>4. r.ts.ts \in Nat /\ bounds.end.ts \in Nat
      BY RowTimes DEF Known, ReactorTypes, TypeOK, ReactorTypeOK, Window, TimeStamp
    <2>5. ~(r.ts.ts < bounds.end.ts)
      BY <2>3, <2>4
    <2> QED
      BY <2>3, <2>5
  <1>5. Level' /\ FromStart' /\ AfterWindow' /\ NothingBetween'
    BY <1>1 DEF LockstepInv, Level, FromStart, AfterWindow, NothingBetween
  <1>6. IsWindow'
    BY <1>1, <1>2 DEF LockstepInv, IsWindow, WindowChosen
  <1>7. Windows'
    <2>1. TableOfWindow(Extracted)
      BY <1>1 DEF LockstepInv, Windows
    <2>2. TableOfWindow(Extracted)'
      BY <1>1, <2>1 DEF TableOfWindow, Extracted
    <2> QED
      BY <1>1, <2>2 DEF LockstepInv, Windows
  <1>8. ShownFirst'
    BY <1>1, <1>2 DEF LockstepInv, ShownFirst
  <1> QED
    BY <1>1, <1>3, <1>4, <1>5, <1>6, <1>7, <1>8 DEF LockstepInv, AM!vars

\* The buffer that is consumed, and the output row it is at.
LEMMA CurrentBuffer ==
    ASSUME Known, InExtract
    PROVE  /\ rpc = "extracting" /\ extracting /\ todo # {} /\ cur \in todo /\ cur \in DOMAIN buffers
           /\ buffers[cur] \in Buffer /\ cursor \in Cursor /\ Increasing(buffers[cur]) /\ Sound(buffers[cur])
           /\ Remaining(cur) = RowsFrom(buffers[cur], cursor) /\ Unread(cur) = rest
           /\ rest \subseteq stamps /\ stamps \subseteq TimeStamp
           /\ DOMAIN cells = DOMAIN buffers
           /\ \A q \in DOMAIN cells : cells[q] \in [stamps -> Cell]
  <1>1. rpc = "extracting" /\ extracting /\ todo # {}
    BY DEF InExtract, ExtractStep, RowMatches, RowAhead, RowBehind, TableEnds, BufferEnds, Proceeding, Consuming
  <1>2. /\ cur \in todo /\ cur \in DOMAIN buffers /\ buffers[cur] \in Buffer /\ cursor \in Cursor
        /\ rest \subseteq stamps /\ stamps \subseteq TimeStamp
        /\ \A q \in DOMAIN cells : cells[q] \in [stamps -> Cell]
    BY <1>1 DEF Known, ReactorTypes, TypeOK, TableTypeOK, IsTable, Extracted
  <1>3. Increasing(buffers[cur]) /\ Sound(buffers[cur]) /\ DOMAIN cells = DOMAIN buffers
    BY <1>1, <1>2 DEF Known, OrderInv, Exact, Described, TypeDescribesBuffers
  <1>4. Remaining(cur) = RowsFrom(buffers[cur], cursor) /\ Unread(cur) = rest
    BY <1>1, <1>2 DEF Remaining, Position, Unread
  <1> QED
    BY <1>1, <1>2, <1>3, <1>4

\* The row under the cursor is the first that remains.
LEMMA CursorRow ==
    ASSUME Ordered, Known, InExtract, AtRow(buffers[cur], cursor)
    PROVE  /\ BufRow \in Remaining(cur) /\ BufRow \in RowsSent(cur) /\ BufRow \in Row
           /\ \A r \in Remaining(cur) : r = BufRow \/ Less(BufRow.ts, r.ts)
           /\ \A r \in RowsFrom(buffers[cur], NextRow(cursor)) : r \in Remaining(cur) /\ r # BufRow
           /\ \A r \in Remaining(cur) : r = BufRow \/ r \in RowsFrom(buffers[cur], NextRow(cursor))
  <1>1. /\ cur \in DOMAIN buffers /\ buffers[cur] \in Buffer /\ cursor \in Cursor /\ Increasing(buffers[cur])
        /\ Remaining(cur) = RowsFrom(buffers[cur], cursor)
    BY CurrentBuffer
  <1>2. /\ BufRow \in Remaining(cur)
        /\ \A r \in RowsFrom(buffers[cur], NextRow(cursor)) : r \in Remaining(cur) /\ BufRow.id < r.id
        /\ \A r \in Remaining(cur) : r = BufRow \/ r \in RowsFrom(buffers[cur], NextRow(cursor))
    BY <1>1, RowsAfter, RowPassed DEF BufRow
  <1>3. Remaining(cur) \subseteq RowsSent(cur) /\ Remaining(cur) \subseteq Row /\ cur \in PVs
    BY <1>1, RemainingSent DEF Known
  <1>4. ASSUME NEW r \in Remaining(cur), r # BufRow PROVE Less(BufRow.ts, r.ts)
    BY <1>2, <1>3, <1>4, SentInOrder DEF Known
  <1>5. ASSUME NEW r \in RowsFrom(buffers[cur], NextRow(cursor)) PROVE r # BufRow
    <2>1. BufRow.id < r.id /\ BufRow.id \in Nat
      BY <1>2, <1>3 DEF Row
    <2> QED
      BY <2>1
  <1> QED
    BY <1>2, <1>3, <1>4, <1>5

\* All PVs having rows with the same stamps, the row under the cursor is the
\* one of the output row: neither is ever ahead of the other.
LEMMA RowIsRowTs ==
    ASSUME Steady, Known, LockstepInv, InExtract, Proceeding
    PROVE  BufRow.ts = RowTs /\ RowTs \in rest /\ RowTs.ts < bounds.end.ts
  <1> DEFINE row == BufRow  rt == RowTs
  <1>1. /\ extracting /\ cur \in DOMAIN buffers /\ cur \in PVs /\ Unread(cur) = rest
        /\ rest \subseteq stamps /\ stamps \subseteq TimeStamp /\ window = bounds /\ rpc = "extracting"
    BY CurrentBuffer, RemainingSent DEF Known, LockstepInv, Windows
  <1>2. AtRow(buffers[cur], cursor) /\ rest # {} /\ LessEq(row.ts, bounds.end)
    BY <1>1 DEF Proceeding
  <1>3. /\ row \in Remaining(cur) /\ row \in RowsSent(cur) /\ row \in Row
        /\ \A r \in Remaining(cur) : r = row \/ Less(row.ts, r.ts)
    BY <1>2, CursorRow, SteadyIsOrdered
  <1>4. rt \in rest /\ \A o \in rest : LessEq(rt, o)
    BY <1>1, <1>2, EarliestExists DEF RowTs
  <1> HIDE DEF row, rt
  <1>5. rt \in TimeStamp /\ row.ts \in TimeStamp /\ rt.ts \in Nat /\ row.ts.ts \in Nat
        /\ bounds.end.ts \in Nat
    BY <1>1, <1>3, <1>4 DEF Row, TimeStamp, Known, ReactorTypes, TypeOK, ReactorTypeOK, Window
  <1>6. rt.ts < bounds.end.ts /\ \E pv \in DOMAIN buffers : \E r \in pendingRows[pv] : r.ts = rt
    BY <1>1, <1>4 DEF LockstepInv, Windows, TableOfWindow, Extracted
  <1>7. ~Less(rt, row.ts)
    <2> SUFFICES ASSUME Less(rt, row.ts) PROVE FALSE
      OBVIOUS
    <2>1. PICK p \in DOMAIN buffers : \E r \in pendingRows[p] : r.ts = rt
      BY <1>6
    <2>2. PICK o \in RowsSent(p) : o.ts = rt
      BY <2>1, PendingSent
    <2>3. p \in PVs /\ ~Less(row.ts, o.ts)
      BY <1>5, <2>2, LessIsLinear, RemainingSent DEF Known
    <2>4. PICK m \in RowsSent(cur) : m.ts = rt
      BY <1>1, <1>3, <2>2, <2>3, SentAlike DEF Known
    <2>5. m \in Remaining(cur)
      BY <1>1, <1>4, <1>6, <2>4 DEF LockstepInv, InWindow
    <2>6. m = row \/ Less(row.ts, rt)
      BY <1>3, <2>4, <2>5
    <2> QED
      BY <1>5, <2>4, <2>6, LessIsLinear
  <1>8. ~Less(row.ts, rt)
    <2> SUFFICES ASSUME Less(row.ts, rt) PROVE FALSE
      OBVIOUS
    <2>1. row.ts.ts < bounds.end.ts
      BY <1>5, <1>6 DEF Less
    <2>2. row.ts \in rest
      BY <1>1, <1>3, <2>1 DEF LockstepInv, InWindow
    <2>3. LessEq(rt, row.ts)
      BY <1>4, <2>2
    <2> QED
      BY <1>5, <2>3, LessIsLinear DEF LessEq
  <1>9. row.ts = rt
    BY <1>5, <1>7, <1>8, LessIsLinear
  <1> QED
    BY <1>4, <1>6, <1>9 DEF row, rt

LEMMA MatchKeepsLockstep ==
    ASSUME Steady, Known, LockstepInv, InExtract, Proceeding, UNCHANGED <<feed, sent>>
    PROVE  LockstepInv' /\ UNCHANGED AM!vars
  <1> DEFINE row == BufRow  rt == RowTs
  <1>1. /\ rpc = "extracting" /\ extracting /\ todo # {} /\ cur \in todo /\ cur \in DOMAIN buffers
        /\ buffers[cur] \in Buffer /\ cursor \in Cursor
        /\ Remaining(cur) = RowsFrom(buffers[cur], cursor) /\ Unread(cur) = rest
        /\ rest \subseteq stamps /\ stamps \subseteq TimeStamp
        /\ DOMAIN cells = DOMAIN buffers /\ \A q \in DOMAIN cells : cells[q] \in [stamps -> Cell]
    BY CurrentBuffer
  <1>2. row.ts = rt /\ rt \in rest /\ rt.ts < bounds.end.ts
    BY RowIsRowTs
  <1>3. AtRow(buffers[cur], cursor) /\ row.ts \in TimeStamp /\ rt \in TimeStamp
    BY <1>1, <1>2 DEF Proceeding
  <1>4. ~Less(row.ts, rt) /\ ~Less(rt, row.ts)
    BY <1>2, <1>3, LessIsLinear
  <1>5. RowMatches
    BY <1>1, <1>3, <1>4 DEF InExtract, ExtractStep, RowAhead, RowBehind, TableEnds, BufferEnds, AtTableEnd
  <1>6. /\ cells' = [cells EXCEPT ![cur] = [@ EXCEPT ![rt] = row.id]]
        /\ rest' = rest \ {rt} /\ cursor' = NextRow(cursor)
        /\ UNCHANGED <<buffers, type_, extracting, window, stamps, todo, cur, reactorVars>>
    BY <1>5 DEF RowMatches, SetCell, InExtract
  <1>7. /\ row \in Remaining(cur) /\ row \in RowsSent(cur) /\ row \in Row
        /\ \A r \in RowsFrom(buffers[cur], NextRow(cursor)) : r \in Remaining(cur) /\ r # row
        /\ \A r \in Remaining(cur) : r = row \/ r \in RowsFrom(buffers[cur], NextRow(cursor))
    BY <1>3, CursorRow, SteadyIsOrdered
  <1> HIDE DEF row, rt
  <1>8. Remaining(cur)' = Remaining(cur) \ {row}
    <2>1. Remaining(cur)' = RowsFrom(buffers[cur], NextRow(cursor))
      BY <1>1, <1>6 DEF Remaining, Position
    <2> QED
      BY <1>7, <2>1
  <1>9. \A q \in DOMAIN buffers \ {cur} : Remaining(q)' = Remaining(q) /\ Unread(q)' = Unread(q) /\ cells'[q] = cells[q]
    BY <1>1, <1>6 DEF Remaining, Position, Unread
  <1>10. /\ Unread(cur)' = rest \ {rt} /\ DOMAIN cells' = DOMAIN buffers
         /\ cells'[cur] = [cells[cur] EXCEPT ![rt] = row.id]
    BY <1>1, <1>6 DEF Unread
  <1>11. /\ cells'[cur][rt] = row.id /\ \A s \in stamps \ {rt} : cells'[cur][s] = cells[cur][s]
         /\ cells[cur][rt] = Uninit /\ rt \in stamps
    <2>1. cells[cur] \in [stamps -> Cell] /\ rt \in stamps
      BY <1>1, <1>2
    <2>2. cells[cur][rt] = Uninit
      BY <1>1, <1>2, <2>1 DEF LockstepInv, InWindow
    <2> QED
      BY <1>10, <2>1, <2>2
  <1>12. row = [ts |-> rt, id |-> row.id] /\ row.id \notin {Invalid, Uninit}
    <2>1. row.id \in Nat /\ row.id # 0
      BY <1>7 DEF Row
    <2> QED
      BY <1>2, <1>7, <2>1 DEF Row, Invalid, Uninit
  <1>13. RowsOf(Extracted, cur)' = RowsOf(Extracted, cur) \cup {row}
    <2>1. RowsOf(Extracted, cur) =
            {[ts |-> s, id |-> cells[cur][s]] : s \in {o \in stamps : cells[cur][o] \notin {Invalid, Uninit}}}
      BY <1>1 DEF RowsOf, Extracted
    <2>2. RowsOf(Extracted, cur)' =
            {[ts |-> s, id |-> cells'[cur][s]] : s \in {o \in stamps : cells'[cur][o] \notin {Invalid, Uninit}}}
      BY <1>1, <1>6, <1>10 DEF RowsOf, Extracted
    <2>3. {o \in stamps : cells'[cur][o] \notin {Invalid, Uninit}} =
            {o \in stamps : cells[cur][o] \notin {Invalid, Uninit}} \cup {rt}
      BY <1>11, <1>12
    <2>4. ASSUME NEW r \in RowsOf(Extracted, cur)' PROVE r \in RowsOf(Extracted, cur) \cup {row}
      BY <1>11, <1>12, <2>1, <2>2, <2>3, <2>4
    <2>5. ASSUME NEW r \in RowsOf(Extracted, cur) PROVE r \in RowsOf(Extracted, cur)'
      BY <1>11, <1>12, <2>1, <2>2, <2>3, <2>5
    <2>6. row \in RowsOf(Extracted, cur)'
      BY <1>11, <1>12, <2>2, <2>3
    <2> QED
      BY <2>4, <2>5, <2>6
  <1>14. pendingRows' = pendingRows
    <2>1. pendingRows'[cur] = pendingRows[cur]
      <3>1. pendingRows'[cur] = Remaining(cur)' \cup RowsOf(Extracted, cur)' \cup RowsOf(value, cur)
        BY <1>1, <1>6 DEF pendingRows, RowsOf, reactorVars
      <3> QED
        BY <1>1, <1>7, <1>8, <1>13, <3>1, PendingRows
    <2>2. ASSUME NEW q \in DOMAIN buffers, q # cur PROVE pendingRows'[q] = pendingRows[q]
      BY <1>1, <1>6, <1>9, <1>10, <2>2 DEF pendingRows, RowsOf, Extracted, reactorVars
    <2>3. pendingRows' = [q \in DOMAIN buffers |-> pendingRows'[q]] /\ pendingRows = [q \in DOMAIN buffers |-> pendingRows[q]]
      BY <1>6 DEF pendingRows
    <2> QED
      BY <2>1, <2>2, <2>3
  <1>15. InWindow'
    <2>1. \A q \in DOMAIN buffers : RowsSent(q)' = RowsSent(q)
      BY DEF RowsSent
    <2>2. ASSUME NEW r \in RowsSent(cur), r.ts.ts < bounds.end.ts
          PROVE  r \in Remaining(cur) \ {row} <=> r.ts \in rest \ {rt}
      <3>1. r \in Remaining(cur) <=> r.ts \in rest
        BY <1>1, <2>2 DEF LockstepInv, InWindow
      <3>2. r.ts = rt => r = row
        BY <1>1, <1>2, <1>7, SentInOrder, SteadyIsOrdered, RemainingSent DEF Known
      <3> QED
        BY <1>2, <3>1, <3>2
    <2>3. ASSUME NEW s \in stamps PROVE cells'[cur][s] = Uninit <=> s \in rest \ {rt}
      BY <1>1, <1>11, <1>12, <2>3 DEF LockstepInv, InWindow
    <2> QED
      BY <1>1, <1>6, <1>8, <1>9, <1>10, <2>1, <2>2, <2>3 DEF LockstepInv, InWindow, reactorVars
  <1>16. \A q \in DOMAIN buffers : \A r \in Remaining(q) : r \in Remaining(q)' \/ r.ts.ts < bounds.end.ts
    BY <1>2, <1>6, <1>8, <1>9
  <1>17. \A q \in DOMAIN buffers : Remaining(q)' \subseteq Remaining(q)
    BY <1>6, <1>8, <1>9
  <1>18. \A q \in DOMAIN buffers : Initialized(buffers'[q])
    BY <1>1, <1>6, AllInitialized
  <1> QED
    BY <1>6, <1>10, <1>14, <1>15, <1>16, <1>17, <1>18, MovedKeepsLockstep

LEMMA TableEndKeepsLockstep ==
    ASSUME Steady, Known, LockstepInv, InExtract, TableEnds, UNCHANGED <<feed, sent>>
    PROVE  LockstepInv' /\ UNCHANGED AM!vars
  <1>1. /\ rpc = "extracting" /\ extracting /\ todo # {} /\ cur \in todo /\ cur \in DOMAIN buffers
        /\ buffers[cur] \in Buffer /\ cursor \in Cursor /\ Remaining(cur) = RowsFrom(buffers[cur], cursor)
        /\ DOMAIN cells = DOMAIN buffers
    BY CurrentBuffer
  <1>2. /\ AtTableEnd(buffers[cur], cursor) /\ cursor' = NextTable(cursor)
        /\ UNCHANGED <<buffers, type_, extracting, window, stamps, todo, cur, rest, cells, reactorVars>>
    BY DEF TableEnds, InExtract
  <1>3. Remaining(cur)' = Remaining(cur)
    <2>1. Remaining(cur)' = RowsFrom(buffers[cur], NextTable(cursor))
      BY <1>1, <1>2 DEF Remaining, Position
    <2> QED
      BY <1>1, <1>2, <2>1, NoRowPassed
  <1>4. \A q \in DOMAIN buffers : Remaining(q)' = Remaining(q) /\ Unread(q)' = Unread(q) /\ RowsSent(q)' = RowsSent(q)
    BY <1>2, <1>3 DEF Remaining, Position, Unread, RowsSent
  <1>5. pendingRows' = pendingRows
    BY <1>2, <1>4 DEF pendingRows, RowsOf, Extracted, reactorVars
  <1>6. InWindow'
    BY <1>1, <1>2, <1>4 DEF LockstepInv, InWindow, reactorVars
  <1>7. \A q \in DOMAIN buffers : Initialized(buffers'[q])
    BY <1>1, <1>2, AllInitialized
  <1> QED
    BY <1>1, <1>2, <1>4, <1>5, <1>6, <1>7, MovedKeepsLockstep

\* What a buffer drops was passed, and the next one is read from its first row.
LEMMA BufferEndDropsPassed ==
    ASSUME Known, InExtract, BufferEnds
    PROVE  /\ todo' = todo \ {cur} /\ rest' = stamps
           /\ todo' # {} => cur' \in todo' /\ cursor' = FirstRow(buffers'[cur'])
           /\ DOMAIN buffers' = DOMAIN buffers
           /\ \A q \in DOMAIN buffers : Remaining(q)' = Remaining(q) /\ buffers'[q].type = buffers[q].type
           /\ \A q \in todo' : buffers'[q] = buffers[q]
  <1>1. /\ todo # {} /\ cur \in todo /\ cur \in DOMAIN buffers /\ extracting
        /\ buffers[cur] \in Buffer /\ cursor \in Cursor /\ Increasing(buffers[cur])
        /\ Remaining(cur) = RowsFrom(buffers[cur], cursor)
        /\ todo \subseteq DOMAIN buffers
    BY CurrentBuffer DEF Known, ReactorTypes, TypeOK, TableTypeOK
  <1>2. PICK c \in ConsumeResults(buffers[cur], cursor) : buffers' = [buffers EXCEPT ![cur] = c]
    BY DEF BufferEnds
  <1>3. RowsFrom(c, FirstRow(c)) = RowsFrom(buffers[cur], cursor) /\ c.type = buffers[cur].type
    BY <1>1, ExactlyConsumed, ConsumeType
  <1>p. PICK pv : pv = cur
    OBVIOUS
  <1>4. DOMAIN buffers' = DOMAIN buffers /\ buffers'[pv] = c /\ \A q \in DOMAIN buffers \ {pv} : buffers'[q] = buffers[q]
    BY <1>p, <1>1, <1>2
  <1>5. /\ todo' = todo \ {pv} /\ rest' = stamps
        /\ todo' # {} => cur' \in todo' /\ cursor' = FirstRow(buffers'[cur'])
    <2>1. /\ todo' = todo \ {pv} /\ rest' = stamps
          /\ todo' # {} => cur' \in todo' /\ cursor' = FirstRow(buffers[cur'])
      BY <1>p DEF BufferEnds, StartBuffer, FirstOf
    <2> QED
      BY <1>1, <1>4, <2>1
  <1>6. \A q : Position(q)' = FirstRow(buffers'[q])
    BY <1>5 DEF Position
  <1>7. Remaining(pv)' = Remaining(pv)
    BY <1>p, <1>1, <1>3, <1>4, <1>6 DEF Remaining
  <1>8. ASSUME NEW q \in DOMAIN buffers, q # pv PROVE Remaining(q)' = Remaining(q)
    BY <1>p, <1>4, <1>6, <1>8 DEF Remaining, Position
  <1> QED
    BY <1>p, <1>1, <1>3, <1>4, <1>5, <1>7, <1>8

LEMMA BufferEndKeepsLockstep ==
    ASSUME Steady, Known, LockstepInv, InExtract, BufferEnds, UNCHANGED <<feed, sent>>
    PROVE  LockstepInv' /\ UNCHANGED AM!vars
  <1>1. /\ rpc = "extracting" /\ extracting /\ todo # {} /\ cur \in todo /\ cur \in DOMAIN buffers
        /\ buffers[cur] \in Buffer /\ cursor \in Cursor /\ Increasing(buffers[cur])
        /\ Remaining(cur) = RowsFrom(buffers[cur], cursor) /\ Unread(cur) = rest /\ window = bounds
        /\ rest \subseteq stamps
        /\ DOMAIN cells = DOMAIN buffers /\ \A q \in DOMAIN cells : cells[q] \in [stamps -> Cell]
    BY CurrentBuffer DEF LockstepInv, Windows
  <1>2. /\ ~AtTableEnd(buffers[cur], cursor) /\ ~Proceeding
        /\ cells' = [cells EXCEPT ![cur] = [s \in stamps |-> IF s \in rest THEN Invalid ELSE @[s]]]
        /\ StartBuffer(buffers, todo \ {cur})
        /\ UNCHANGED <<type_, extracting, window, stamps, reactorVars>>
    BY DEF BufferEnds, InExtract
  <1>5. /\ todo' = todo \ {cur} /\ rest' = stamps
        /\ todo' # {} => cur' \in todo' /\ cursor' = FirstRow(buffers'[cur'])
        /\ DOMAIN buffers' = DOMAIN buffers
        /\ \A q \in DOMAIN buffers : Remaining(q)' = Remaining(q) /\ buffers'[q].type = buffers[q].type
    BY BufferEndDropsPassed
  <1>p. PICK pv : pv = cur
    OBVIOUS
  <1>8. /\ \A q \in DOMAIN buffers \ {pv} : Unread(q)' = Unread(q) /\ cells'[q] = cells[q]
        /\ Unread(pv)' = {} /\ DOMAIN cells' = DOMAIN buffers
        /\ cells'[pv] = [s \in stamps |-> IF s \in rest THEN Invalid ELSE cells[pv][s]]
    BY <1>p, <1>1, <1>2, <1>5 DEF Unread
  <1>9. \A s \in stamps : cells'[pv][s] = IF s \in rest THEN Invalid ELSE cells[pv][s]
    BY <1>p, <1>8
  <1>10. \A s \in stamps : cells[pv][s] = Uninit <=> s \in rest
    BY <1>p, <1>1 DEF LockstepInv, InWindow
  <1>11. pendingRows' = pendingRows
    <2>1. RowsOf(Extracted, pv)' = RowsOf(Extracted, pv)
      <3>1. RowsOf(Extracted, pv) =
              {[ts |-> s, id |-> cells[pv][s]] : s \in {o \in stamps : cells[pv][o] \notin {Invalid, Uninit}}}
        BY <1>p, <1>1 DEF RowsOf, Extracted
      <3>2. RowsOf(Extracted, pv)' =
              {[ts |-> s, id |-> cells'[pv][s]] : s \in {o \in stamps : cells'[pv][o] \notin {Invalid, Uninit}}}
        BY <1>p, <1>1, <1>2, <1>8 DEF RowsOf, Extracted
      <3>3. \A s \in stamps : \/ cells'[pv][s] = cells[pv][s]
                              \/ cells'[pv][s] = Invalid /\ cells[pv][s] = Uninit
        BY <1>p, <1>9, <1>10
      <3> QED
        BY <3>1, <3>2, <3>3
    <2>2. ASSUME NEW q \in DOMAIN buffers, q # pv PROVE RowsOf(Extracted, q)' = RowsOf(Extracted, q)
      BY <1>p, <1>1, <1>2, <1>8, <2>2 DEF RowsOf, Extracted
    <2>3. \A q \in DOMAIN buffers : RowsOf(value, q)' = RowsOf(value, q)
      BY <1>p, <1>2 DEF RowsOf, reactorVars
    <2> QED
      BY <1>p, <1>5, <2>1, <2>2, <2>3 DEF pendingRows
  <1>12. ASSUME NEW r \in RowsSent(pv), r.ts.ts < bounds.end.ts PROVE r \notin Remaining(pv)
    <2> SUFFICES ASSUME r \in Remaining(pv) PROVE FALSE
      OBVIOUS
    <2>1. r.ts \in rest
      BY <1>p, <1>1, <1>12 DEF LockstepInv, InWindow
    <2>2. ~AtEnd(buffers[cur], cursor)
      BY <1>p, <1>1, NoRowsAtEnd
    <2>3. AtRow(buffers[cur], cursor)
      BY <1>p, <1>2, <2>2 DEF AtTableEnd
    <2>4. ~LessEq(BufRow.ts, bounds.end)
      BY <1>p, <1>1, <1>2, <2>1, <2>3 DEF Proceeding, Consuming
    <2>5. BufRow \in RowsSent(pv) /\ (r = BufRow \/ Less(BufRow.ts, r.ts))
      BY <1>p, <2>3, CursorRow, SteadyIsOrdered
    <2>6. BufRow.ts \in TimeStamp /\ BufRow.ts.ts \in Nat /\ r.ts.ts \in Nat /\ bounds.end.ts \in Nat
      BY <1>p, <1>1, <2>5, RowTimes DEF Known, ReactorTypes, TypeOK, ReactorTypeOK, Window, TimeStamp
    <2>7. ~(BufRow.ts.ts < bounds.end.ts)
      BY <1>p, <1>1, <2>4, <2>6, InBounds DEF WindowChosen
    <2> QED
      BY <1>p, <1>12, <2>5, <2>6, <2>7 DEF Less
  <1>13. InWindow'
    <2>1. \A q \in DOMAIN buffers : RowsSent(q)' = RowsSent(q)
      BY DEF RowsSent
    <2>2. \A s \in stamps : cells'[pv][s] # Uninit
      BY <1>p, <1>9, <1>10 DEF Invalid, Uninit
    <2> QED
      BY <1>p, <1>1, <1>2, <1>5, <1>8, <1>12, <2>1, <2>2 DEF LockstepInv, InWindow, reactorVars
  <1>14. \A q \in DOMAIN buffers : Initialized(buffers'[q])
    BY <1>1, <1>5, AllInitialized DEF Initialized
  <1> QED
    BY <1>p, <1>5, <1>8, <1>11, <1>13, <1>14, MovedKeepsLockstep

LEMMA ExtractStepKeepsLockstep ==
    ASSUME Steady, Known, LockstepInv, InExtract, UNCHANGED <<feed, sent>>
    PROVE  LockstepInv' /\ UNCHANGED AM!vars
  <1>1. Proceeding \/ TableEnds \/ BufferEnds
    BY DEF InExtract, ExtractStep, RowMatches, RowAhead, RowBehind
  <1> QED
    BY <1>1, MatchKeepsLockstep, TableEndKeepsLockstep, BufferEndKeepsLockstep

-----------------------------------------------------------------------------
(***************************************************************************)
(* extract() returns, and its table is posted.                             *)
(***************************************************************************)

LEMMA ReturnKeepsLockstep ==
    ASSUME Steady, Known, LockstepInv, ExtractReturns, UNCHANGED <<feed, sent>>
    PROVE  LockstepInv' /\ UNCHANGED AM!vars
  <1>1. /\ rpc = "extracting" /\ rpc' = "post" /\ extracting /\ ~extracting' /\ todo = {} /\ todo' = {}
        /\ value' = Extracted /\ stamps' = {} /\ value = NoTable
        /\ UNCHANGED <<buffers, bounds, pv_, running>>
    BY DEF ExtractReturns, EndExtract, runnableVars, LockstepInv, NothingBetween
  <1>2. \A q : Position(q)' = Position(q)
    BY <1>1 DEF Position
  <1>3. \A q \in DOMAIN buffers' :
          /\ RowsSent(q)' = RowsSent(q) /\ Remaining(q)' = Remaining(q) /\ Future(q)' = Future(q)
          /\ Passed(q)' = Passed(q) /\ Coming(q)' = Coming(q)
    BY <1>1, <1>2, SameRows DEF ReactorNext
  <1>4. InSkewSoFar' /\ SilentAreEmpty'
    BY <1>1, <1>3, SameFeeds
  <1>5. pendingRows' = pendingRows
    <2>1. \A q : RowsOf(value, q) = {} /\ RowsOf(Extracted, q)' = {} /\ RowsOf(value, q)' = RowsOf(Extracted, q)
      BY <1>1 DEF RowsOf, Extracted, NoTable
    <2> QED
      BY <1>1, <1>3, <2>1 DEF pendingRows
  <1>6. KeepsUp'
    BY <1>1, <1>3 DEF LockstepInv, KeepsUp, WindowChosen
  <1>7. Level' /\ FromStart' /\ InWindow' /\ NothingBetween'
    BY <1>1 DEF LockstepInv, Level, FromStart, InWindow, NothingBetween
  <1>8. IsWindow'
    BY <1>1, <1>3 DEF LockstepInv, IsWindow, WindowChosen
  <1>9. AfterWindow'
    <2>1. SUFFICES ASSUME NEW q \in DOMAIN buffers, NEW r \in Remaining(q) PROVE bounds.end.ts <= r.ts.ts
      BY <1>1, <1>3 DEF AfterWindow
    <2>2. r \in RowsSent(q) /\ r.ts.ts \in Nat /\ bounds.end.ts \in Nat
      BY RemainingSent, RowTimes DEF Known, ReactorTypes, TypeOK, ReactorTypeOK, Window, TimeStamp
    <2>3. ~(r.ts.ts < bounds.end.ts)
      BY <1>1, <2>2 DEF LockstepInv, InWindow, Unread
    <2> QED
      BY <2>2, <2>3
  <1>10. Windows'
    <2>1. TableOfWindow(Extracted) /\ \A q \in DOMAIN buffers : \A s \in stamps : cells[q][s] # Uninit
      BY <1>1 DEF LockstepInv, Windows, InWindow, Unread
    <2>2. TableOfWindow(value)'
      BY <1>1, <1>5, <2>1 DEF TableOfWindow, Extracted
    <2> QED
      BY <1>1, <2>1, <2>2 DEF Windows, Extracted
  <1>11. ShownFirst'
    BY <1>1, <1>3, <1>5 DEF LockstepInv, ShownFirst
  <1> QED
    BY <1>1, <1>4, <1>5, <1>6, <1>7, <1>8, <1>9, <1>10, <1>11 DEF LockstepInv, AM!vars

LEMMA PostPublishes ==
    ASSUME Steady, Known, LockstepInv, Post, UNCHANGED <<feed, sent>>
    PROVE  LockstepInv' /\ AM!Publish
  <1>1. /\ rpc = "post" /\ rpc' = "loop" /\ ~extracting /\ ~extracting' /\ stamps = {}
        /\ pv_'.table = value /\ value' = NoTable
        /\ UNCHANGED <<buffers, extracting, stamps, todo, cur, cursor, cells, running>>
    BY DEF Post, tableVars, extractVars, runnableVars, Known, ReactorTypes, Phase, OrderInv
  <1>2. \A q : Position(q)' = Position(q)
    BY <1>1 DEF Position
  <1>3. \A q \in DOMAIN buffers' :
          /\ RowsSent(q)' = RowsSent(q) /\ Remaining(q)' = Remaining(q) /\ Future(q)' = Future(q)
          /\ Passed(q)' = Passed(q) /\ Coming(q)' = Coming(q)
    BY <1>1, <1>2, SameRows DEF ReactorNext
  <1>4. \A q : RowsOf(Extracted, q) = {} /\ RowsOf(Extracted, q)' = {} /\ RowsOf(value, q)' = {}
    BY <1>1 DEF RowsOf, Extracted, NoTable
  <1>5. \A q \in DOMAIN buffers : pendingRows[q] = Remaining(q) \cup RowsOf(value, q) /\ pendingRows'[q] = Remaining(q)
    BY <1>1, <1>3, <1>4 DEF pendingRows
  <1>6. DOMAIN pendingRows = DOMAIN buffers /\ pendingRows' = [q \in DOMAIN buffers |-> Remaining(q)]
    BY <1>1, <1>3, <1>4 DEF pendingRows
  <1>7. /\ DOMAIN value.cells = DOMAIN buffers /\ value.stamps # {} /\ value.stamps \subseteq TimeStamp
        /\ \A s \in value.stamps :
             /\ bounds.start.ts <= s.ts /\ s.ts < bounds.end.ts
             /\ \E q \in DOMAIN buffers : \E r \in pendingRows[q] : r.ts = s
        /\ \A q \in DOMAIN buffers : \A s \in value.stamps : value.cells[q][s] # Uninit
    BY <1>1 DEF LockstepInv, Windows, TableOfWindow, Known, WindowHolds, ReactorTypes, TypeOK, ReactorTypeOK, IsTable
  <1>8. /\ bounds.start.ts \in Nat /\ bounds.end.ts = bounds.start.ts + Period /\ bounds.end.ts \in Nat
        /\ Period \in Nat /\ \A s \in value.stamps : s.ts \in Nat
    <2>1. bounds = [start |-> Untagged(bounds.start.ts), end |-> Untagged(bounds.start.ts + Period)]
      BY <1>1 DEF LockstepInv, IsWindow, WindowChosen
    <2>2. bounds.end.ts = bounds.start.ts + Period
      BY <2>1 DEF Untagged
    <2> QED
      BY <1>7, <2>2, PeriodAssumption DEF Known, ReactorTypes, TypeOK, ReactorTypeOK, Window, TimeStamp
  <1>9. \A q \in DOMAIN buffers : \A r \in Coming(q) : r.ts.ts \in Nat /\ bounds.end.ts <= r.ts.ts
    <2> TAKE q \in DOMAIN buffers
    <2> TAKE r \in Coming(q)
    <2>1. r.ts.ts \in Nat
      BY RowTimes DEF Coming
    <2> QED
      BY <1>1, <2>1, FutureAfterWindow DEF LockstepInv, AfterWindow, WindowChosen, Coming
  <1>10. \A q \in DOMAIN buffers : \A r \in Remaining(q) : r.ts.ts \in Nat /\ bounds.end.ts <= r.ts.ts /\ r.ts \notin value.stamps
    <2> TAKE q \in DOMAIN buffers
    <2> TAKE r \in Remaining(q)
    <2>1. r.ts.ts \in Nat /\ bounds.end.ts <= r.ts.ts
      BY <1>9 DEF Coming
    <2> QED
      BY <1>7, <1>8, <2>1
  <1>11. \A q \in DOMAIN buffers :
           RowsOf(value, q) = {[ts |-> s, id |-> value.cells[q][s]] :
                                 s \in {o \in value.stamps : value.cells[q][o] \notin {Invalid, Uninit}}}
    BY <1>7 DEF RowsOf
  <1>12. \A q \in DOMAIN buffers : \A r \in RowsOf(value, q) :
           r.ts \in value.stamps /\ r = [ts |-> r.ts, id |-> value.cells[q][r.ts]]
    BY <1>11
  <1>13. LockstepInv'
    <2>1. InSkewSoFar' /\ SilentAreEmpty'
      BY <1>1, <1>3, SameFeeds
    <2>2. KeepsUp'
      BY <1>1, <1>3 DEF LockstepInv, KeepsUp, WindowChosen
    <2>3. Level'
      <3>1. SUFFICES ASSUME NEW p \in DOMAIN buffers, NEW q \in DOMAIN buffers, NEW o \in Passed(p), NEW r \in Coming(q)
                     PROVE  o.ts.ts < r.ts.ts
        BY <1>1, <1>3 DEF Level
      <3>2. o.ts.ts < bounds.end.ts /\ o.ts.ts \in Nat
        BY <1>1, RowTimes DEF LockstepInv, IsWindow, WindowChosen, Passed
      <3> QED
        BY <1>8, <1>9, <3>2
    <2>4. IsWindow' /\ FromStart' /\ InWindow' /\ AfterWindow' /\ Windows' /\ NothingBetween'
      BY <1>1 DEF IsWindow, FromStart, InWindow, AfterWindow, Windows, WindowChosen, NothingBetween
    <2>5. ShownFirst'
      <3>1. SUFFICES ASSUME NEW o \in value.stamps, NEW q \in DOMAIN buffers, NEW r \in Coming(q) PROVE o.ts < r.ts.ts
        BY <1>1, <1>3, <1>5 DEF ShownFirst, Coming
      <3> QED
        BY <1>7, <1>8, <1>9
    <2> QED
      BY <2>1, <2>2, <2>3, <2>4, <2>5 DEF LockstepInv
  <1>14. AM!Publish
    <2> DEFINE All == UNION {AM!StampsOf(pendingRows[q]) : q \in DOMAIN pendingRows}
    <2>1. \A o : o \in All <=> \E q \in DOMAIN buffers : \E r \in pendingRows[q] : r.ts = o
      BY <1>6 DEF AM!StampsOf
    <2> HIDE DEF All
    <2>2. value.stamps \subseteq All
      BY <1>7, <2>1
    <2>3. ASSUME NEW s \in value.stamps, NEW o \in All, AM!Less(o, s) PROVE o \in value.stamps
      <3>1. PICK q \in DOMAIN buffers : \E r \in pendingRows[q] : r.ts = o
        BY <2>1
      <3>2. PICK r \in pendingRows[q] : r.ts = o
        BY <3>1
      <3>3. CASE r \in RowsOf(value, q)
        BY <1>12, <3>2, <3>3
      <3>4. CASE r \in Remaining(q)
        <4>1. bounds.end.ts <= o.ts /\ o.ts \in Nat /\ s.ts < bounds.end.ts /\ s.ts \in Nat
          BY <1>7, <1>8, <1>10, <3>2, <3>4
        <4>2. o.ts <= s.ts
          BY <2>3, <4>1 DEF AM!Less
        <4> QED
          BY <1>8, <4>1, <4>2
      <3> QED
        BY <1>5, <3>2, <3>3, <3>4
    <2>4. ASSUME NEW s \in value.stamps, NEW o \in value.stamps PROVE o.ts < s.ts + Period
      BY <1>7, <1>8
    <2>5. ASSUME NEW s \in value.stamps, NEW o \in pv_.table.stamps PROVE AM!Less(o, s)
      BY <1>7 DEF LockstepInv, ShownFirst, AM!Less
    <2>6. ASSUME NEW q \in DOMAIN buffers, NEW s \in value.stamps, s \in AM!StampsOf(pendingRows[q])
          PROVE  [ts |-> s, id |-> value.cells[q][s]] \in pendingRows[q]
      <3>1. PICK r \in pendingRows[q] : r.ts = s
        BY <2>6 DEF AM!StampsOf
      <3>2. r \in RowsOf(value, q)
        BY <1>5, <1>10, <3>1
      <3> QED
        BY <1>12, <3>1, <3>2
    <2>7. ASSUME NEW q \in DOMAIN buffers, NEW s \in value.stamps, s \notin AM!StampsOf(pendingRows[q])
          PROVE  value.cells[q][s] = Invalid
      <3>1. SUFFICES ASSUME value.cells[q][s] \notin {Invalid, Uninit} PROVE FALSE
        BY <1>7
      <3> DEFINE r == [ts |-> s, id |-> value.cells[q][s]]
      <3>2. r \in RowsOf(value, q) /\ r.ts = s
        BY <1>11, <3>1
      <3> HIDE DEF r
      <3> QED
        BY <1>5, <2>7, <3>2 DEF AM!StampsOf
    <2>8. pendingRows' = [q \in DOMAIN pendingRows |-> {r \in pendingRows[q] : r.ts \notin value.stamps}]
      <3>1. \A q \in DOMAIN buffers : Remaining(q) = {r \in pendingRows[q] : r.ts \notin value.stamps}
        BY <1>5, <1>10, <1>12
      <3> QED
        BY <1>6, <3>1
    <2> QED
      BY <1>1, <1>6, <1>7, <2>2, <2>3, <2>4, <2>5, <2>6, <2>7, <2>8 DEF AM!Publish, All
  <1> QED
    BY <1>13, <1>14

-----------------------------------------------------------------------------
(***************************************************************************)
(* The theorem.                                                            *)
(***************************************************************************)

LEMMA StepsImplement ==
    ASSUME Steady, Known, LockstepInv, [Next]_mergeVars
    PROVE  LockstepInv' /\ [AM!Next]_AM!vars
  <1>1. ASSUME NEW pv \in PVs, NEW u \in NextUpdates(pv), Deliver(pv, u)
        PROVE  LockstepInv' /\ [AM!Next]_AM!vars
    BY <1>1, DeliverKeepsLockstep, DeliverArrives
  <1>2. CASE ReactorNext /\ UNCHANGED <<feed, sent>>
    BY <1>2, PrepareKeepsLockstep, QuietKeepsLockstep, ChooseKeepsLockstep, CallKeepsLockstep, ExtractStepKeepsLockstep,
       ReturnKeepsLockstep, PostPublishes DEF ReactorNext, AM!Next
  <1>3. CASE UNCHANGED mergeVars
    <2>1. UNCHANGED <<feed, sent, buffers, extracting, window, stamps, todo, cur, cursor, rest, cells,
                      rpc, bounds, value, pv_, running>>
      BY <1>3 DEF mergeVars, reactorVars, runnableVars, tableVars, extractVars
    <2>2. \A q : /\ RowsSent(q)' = RowsSent(q) /\ Remaining(q)' = Remaining(q) /\ Future(q)' = Future(q)
                 /\ Unread(q)' = Unread(q)
      BY <2>1 DEF RowsSent, Remaining, Position, Future, Unread
    <2>3. \A q : Passed(q)' = Passed(q) /\ Coming(q)' = Coming(q)
      BY <2>2 DEF Passed, Coming
    <2>4. pendingRows' = pendingRows
      BY <2>1, <2>2 DEF pendingRows, RowsOf, Extracted
    <2>5. InSkewSoFar' /\ SilentAreEmpty'
      BY <2>1, <2>2, SameFeeds
    <2>6. KeepsUp' /\ Level' /\ IsWindow' /\ FromStart' /\ AfterWindow'
      BY <2>1, <2>2, <2>3 DEF LockstepInv, KeepsUp, Level, IsWindow, FromStart, AfterWindow, WindowChosen
    <2>7. InWindow'
      BY <2>1, <2>2 DEF LockstepInv, InWindow
    <2>8. Windows'
      BY <2>1, <2>4 DEF LockstepInv, Windows, TableOfWindow, Extracted
    <2>9. ShownFirst' /\ NothingBetween'
      BY <2>1, <2>2, <2>4 DEF LockstepInv, ShownFirst, NothingBetween
    <2> QED
      BY <2>1, <2>4, <2>5, <2>6, <2>7, <2>8, <2>9 DEF LockstepInv, AM!vars
  <1> QED
    BY <1>1, <1>2, <1>3 DEF Next

LEMMA InitImplements ==
    ASSUME Init
    PROVE  LockstepInv /\ AM!Init
  <1>1. /\ buffers = [pv \in PVs |-> NewBuffer] /\ sent = [pv \in PVs |-> 0] /\ ~extracting /\ stamps = {}
        /\ rpc = "prepare" /\ value = NoTable /\ pv_.table = NoTable
    BY DEF Init, TableInit, ReactorInit
  <1>2. \A q \in DOMAIN buffers : buffers[q].tables = <<>> /\ buffers[q].type = NoType
    BY <1>1 DEF NewBuffer
  <1>3. \A q \in DOMAIN buffers : RowsSent(q) = {} /\ Remaining(q) = {} /\ Passed(q) = {}
    <2> TAKE q \in DOMAIN buffers
    <2>1. RowsSent(q) = {}
      BY <1>1 DEF RowsSent
    <2>2. Remaining(q) = {}
      BY <1>2, InRowsFrom DEF Remaining
    <2> QED
      BY <2>1, <2>2 DEF Passed
  <1>4. InSkewSoFar /\ SilentAreEmpty /\ KeepsUp
    BY <1>2, <1>3 DEF InSkewSoFar, SilentAreEmpty, KeepsUp, Initialized, Empty
  <1>5. Level /\ IsWindow /\ FromStart /\ InWindow /\ AfterWindow /\ Windows /\ ShownFirst /\ NothingBetween
    BY <1>1, <1>3 DEF Level, IsWindow, FromStart, InWindow, AfterWindow, Windows, ShownFirst, NothingBetween,
                      WindowChosen, NoTable
  <1>6. \A q \in DOMAIN buffers : pendingRows[q] = {}
    BY <1>1, <1>3, PendingRows DEF RowsOf, Extracted, NoTable
  <1>7. AM!Init
    <2>1. pendingRows = [pv \in PVs |-> {}]
      BY <1>1, <1>6 DEF pendingRows
    <2> QED
      BY <1>1, <2>1 DEF AM!Init, NoTable
  <1> QED
    BY <1>4, <1>5, <1>7 DEF LockstepInv

\* ImplementsAlignedMerge of MergeRefinement: rows that all PVs send alike are
\* published once each, the earliest first, with their neighbours of less than a
\* period, each in the row of its timestamp and none invalid, whatever the sizes
\* of the updates and however pushes interleave with the reactor
\* (taligntable.cpp:203-330, tablebuffer.cpp:168-205, mergerMain.cpp:229-299).
THEOREM MergeImplementsAlignedMerge ==
    ASSUME Steady
    PROVE  Spec => ImplementsAlignedMerge
  <1>1. FeedsIncrease /\ 0 \notin Sizes
    BY DEF Steady
  <1>2. Init => LockstepInv /\ AM!Init
    BY InitImplements
  <1>3. Known /\ LockstepInv /\ [Next]_mergeVars => LockstepInv' /\ [AM!Next]_AM!vars
    BY StepsImplement
  <1>4. Spec => []ReactorTypes /\ []Described /\ []Exact /\ []SentOnly /\ []WindowHolds /\ []OrderInv
    BY <1>1, TypesInvariant, DescribedInvariant, ExactInvariant, SentInvariant, WindowInvariant, OrderInvariant, PTL
  <1>5. ReactorTypes /\ Described /\ Exact /\ SentOnly /\ WindowHolds /\ OrderInv => Known
    BY DEF Known
  <1> QED
    BY <1>2, <1>3, <1>4, <1>5, PTL DEF Spec, ImplementsAlignedMerge, AM!Spec

-----------------------------------------------------------------------------
(***************************************************************************)
(* Inputs of which only the order is known.  While extract() is on a       *)
(* buffer, its two positions hold each other: what it has passed of the    *)
(* output is not after all it has passed of the buffer (OutputFollows),    *)
(* and what it has passed of the buffer is before the rest of the output,  *)
(* unless it passed it for a gap (BufferFollows).  So the buffer can only  *)
(* be behind the output if it began behind the window, and ahead of it     *)
(* only after a gap.                                                       *)
(***************************************************************************)

\* The rows of the buffer that are passed.
Read == Given(cur) \ Remaining(cur)

StampsCollected ==
    extracting =>
      /\ \A s \in stamps : Less(s, window.end)
      /\ \A pv \in todo : \A r \in Given(pv) :
           LessEq(window.start, r.ts) /\ Less(r.ts, window.end) => r.ts \in stamps

OutputFollows == Consuming => IsLate(cur) \/ \A s \in stamps \ rest : \E u \in Read : ~Less(u.ts, s)

BufferFollows == Consuming => IsLate(cur) \/ \A u \in Read, s \in rest : Less(u.ts, s) \/ HasGapBefore(cur, u)

\* No row was copied yet into what is to be passed of the output.
CellsFree ==
    Consuming => \A pv \in todo : \A s \in stamps : pv # cur \/ s \in rest => cells[pv][s] \in {Invalid, Uninit}

NothingTwice == rpc \notin {"post", "aborted"} => value = NoTable

JoinInv ==
    /\ SilentAreEmpty /\ NothingTwice /\ StampsCollected
    /\ Consuming => Remaining(cur) \subseteq Given(cur)
    /\ OutputFollows /\ BufferFollows /\ CellsFree

\* What no step has to do with.
LEMMA KeptIfMoved ==
    ASSUME NEW pv \in DOMAIN buffers, pv \in DOMAIN buffers', NEW r \in pendingRows[pv],
           RowsOf(Extracted, pv) \subseteq RowsOf(Extracted, pv)' \cup RowsOf(value, pv)',
           RowsOf(value, pv) \subseteq RowsOf(value, pv)' \cup RowsOf(pv_.table, pv)',
           Remaining(pv) \subseteq Remaining(pv)'
    PROVE  IsKept(pv, r)
  <1>1. r \in Remaining(pv) \cup RowsOf(Extracted, pv) \cup RowsOf(value, pv)
    BY PendingRows
  <1>2. pendingRows'[pv] = Remaining(pv)' \cup RowsOf(Extracted, pv)' \cup RowsOf(value, pv)'
    BY DEF pendingRows
  <1>3. RowsOf(pv_.table, pv)' = RowsOf(pv_.table', pv)
    BY DEF RowsOf
  <1> QED
    BY <1>1, <1>2, <1>3 DEF IsKept

\* Cells without a row may be written; the rows in the others stay.
LEMMA CellsKeepRows ==
    ASSUME NEW pv, DOMAIN cells' = DOMAIN cells, stamps' = stamps,
           \A s \in stamps : cells[pv][s] \in {Invalid, Uninit} \/ cells'[pv][s] = cells[pv][s]
    PROVE  RowsOf(Extracted, pv) \subseteq RowsOf(Extracted, pv)'
  <1>1. SUFFICES ASSUME pv \in DOMAIN cells, NEW r \in RowsOf(Extracted, pv) PROVE r \in RowsOf(Extracted, pv)'
    BY DEF RowsOf, Extracted
  <1>2. PICK s \in stamps : cells[pv][s] \notin {Invalid, Uninit} /\ r = [ts |-> s, id |-> cells[pv][s]]
    BY <1>1 DEF RowsOf, Extracted
  <1>3. s \in stamps' /\ cells'[pv][s] \notin {Invalid, Uninit} /\ r = [ts |-> s, id |-> cells'[pv][s]]
    BY <1>2
  <1> QED
    BY <1>1, <1>3 DEF RowsOf, Extracted

\* The rows passed are before those that remain.
LEMMA ReadIsBefore ==
    ASSUME Ordered, Known, InExtract, NEW u \in Read, NEW r \in Remaining(cur)
    PROVE  u \in Row /\ r \in Row /\ Less(u.ts, r.ts)
  <1> DEFINE b == buffers[cur]
  <1>1. /\ cur \in DOMAIN buffers /\ b \in Buffer /\ cursor \in Cursor /\ Increasing(b)
        /\ Remaining(cur) = RowsFrom(b, cursor) /\ cur \in PVs
    BY CurrentBuffer, RemainingSent DEF Known
  <1> HIDE DEF b
  <1>2. u \in RowsFrom(b, FirstRow(b)) /\ u \notin RowsFrom(b, cursor) /\ r \in RowsFrom(b, cursor)
    BY <1>1 DEF Read, Given, b
  <1>3. PICK k \in DOMAIN b.tables : \E i \in DOMAIN b.tables[k] : u = b.tables[k][i]
    BY <1>2, InRowsFrom
  <1>4. PICK i \in DOMAIN b.tables[k] : u = b.tables[k][i]
    BY <1>3
  <1>5. PICK l \in DOMAIN b.tables : \E j \in DOMAIN b.tables[l] :
               l > cursor.outer /\ (l > cursor.outer + 1 \/ j > cursor.inner) /\ r = b.tables[l][j]
    BY <1>2, InRowsFrom
  <1>6. PICK j \in DOMAIN b.tables[l] :
               l > cursor.outer /\ (l > cursor.outer + 1 \/ j > cursor.inner) /\ r = b.tables[l][j]
    BY <1>5
  <1>7. ~(k > cursor.outer /\ (k > cursor.outer + 1 \/ i > cursor.inner))
    BY <1>2, <1>4, InRowsFrom
  <1>8. k \in Nat /\ i \in Nat /\ l \in Nat /\ j \in Nat /\ cursor.outer \in Nat /\ cursor.inner \in Nat
    BY <1>1, TableTypes DEF Cursor
  <1>9. k < l \/ (k = l /\ i < j)
    BY <1>6, <1>7, <1>8
  <1>10. u.id < r.id
    BY <1>1, <1>4, <1>6, <1>9 DEF Increasing
  <1>11. u \in RowsSent(cur) /\ r \in RowsSent(cur)
    BY <1>1, <1>4, <1>6, IsBuffered DEF Known, SentOnly, b
  <1> QED
    BY <1>1, <1>10, <1>11, SentInOrder, FeedTypes DEF Known

\* Where extract() is, when the function does not ask to stop.
LEMMA AtOutputRow ==
    ASSUME Ordered, Known, InExtract, Proceeding
    PROVE  /\ RowTs \in rest /\ RowTs \in stamps /\ \A o \in rest : o = RowTs \/ Less(RowTs, o)
           /\ RowTs \in TimeStamp /\ BufRow.ts \in TimeStamp /\ window.start \in TimeStamp /\ window.end \in TimeStamp
           /\ AtRow(buffers[cur], cursor) /\ LessEq(BufRow.ts, window.end)
  <1>1. /\ AtRow(buffers[cur], cursor) /\ rest # {} /\ LessEq(BufRow.ts, window.end)
        /\ rest \subseteq stamps /\ stamps \subseteq TimeStamp
    BY CurrentBuffer DEF Proceeding
  <1>2. RowTs \in rest /\ \A o \in rest : LessEq(RowTs, o)
    BY <1>1, EarliestExists DEF RowTs
  <1>3. BufRow \in Row /\ window \in Window
    BY <1>1, CursorRow DEF Known, ReactorTypes, TypeOK, TableTypeOK
  <1> QED
    BY <1>1, <1>2, <1>3 DEF Row, Window, LessEq

\* A buffer that is behind the output began behind the window.
LEMMA BehindIfLate ==
    ASSUME Ordered, Known, JoinInv, InExtract, Proceeding, Less(BufRow.ts, RowTs)
    PROVE  IsLate(cur)
  <1> DEFINE row == BufRow  rt == RowTs
  <1>1. /\ rt \in rest /\ rt \in stamps /\ \A o \in rest : o = rt \/ Less(rt, o)
        /\ rt \in TimeStamp /\ row.ts \in TimeStamp /\ window.start \in TimeStamp /\ window.end \in TimeStamp
        /\ AtRow(buffers[cur], cursor) /\ Less(row.ts, rt)
    BY AtOutputRow
  <1>2. extracting /\ cur \in todo /\ Consuming
    BY CurrentBuffer DEF Consuming
  <1>3. row \in Remaining(cur) /\ row \in Given(cur)
    BY <1>1, <1>2, CursorRow DEF JoinInv
  <1> HIDE DEF row, rt
  <1>4. SUFFICES ASSUME ~IsLate(cur) PROVE FALSE
    OBVIOUS
  <1>5. LessEq(window.start, row.ts)
    BY <1>1, <1>3, <1>4, LessIsLinear DEF IsLate, LessEq
  <1>6. Less(row.ts, window.end)
    <2>1. Less(rt, window.end)
      BY <1>1, <1>2 DEF JoinInv, StampsCollected
    <2> QED
      BY <1>1, <2>1, LessIsTransitive
  <1>7. row.ts \in stamps
    BY <1>2, <1>3, <1>5, <1>6 DEF JoinInv, StampsCollected
  <1>8. row.ts \notin rest
    BY <1>1, LessIsLinear
  <1>9. PICK u \in Read : ~Less(u.ts, row.ts)
    BY <1>2, <1>4, <1>7, <1>8 DEF JoinInv, OutputFollows
  <1> QED
    BY <1>3, <1>9, ReadIsBefore

\* A buffer that is ahead of the output lacks a row of it, that one or one before.
LEMMA AheadIfGap ==
    ASSUME Ordered, Known, JoinInv, InExtract, Proceeding, Less(RowTs, BufRow.ts)
    PROVE  HasGapBefore(cur, BufRow) \/ IsLate(cur)
  <1> DEFINE row == BufRow  rt == RowTs
  <1>1. /\ rt \in rest /\ rt \in stamps /\ rt \in TimeStamp /\ row.ts \in TimeStamp
        /\ AtRow(buffers[cur], cursor) /\ Less(rt, row.ts)
    BY AtOutputRow
  <1>2. /\ Consuming /\ stamps \subseteq TimeStamp
        /\ \A r \in Remaining(cur) : r = row \/ Less(row.ts, r.ts)
    BY <1>1, CurrentBuffer, CursorRow DEF Consuming
  <1> HIDE DEF row, rt
  <1>3. SUFFICES ASSUME NEW g \in Given(cur), g.ts = rt, ~IsLate(cur) PROVE HasGapBefore(cur, row)
    BY <1>1 DEF HasGapBefore, row
  <1>4. g \in Read
    BY <1>1, <1>2, <1>3, LessIsLinear DEF Read
  <1>5. HasGapBefore(cur, g)
    <2>1. ~Less(g.ts, rt)
      BY <1>1, <1>3, LessIsLinear
    <2> QED
      BY <1>1, <1>2, <1>3, <1>4, <2>1 DEF JoinInv, BufferFollows
  <1>6. PICK s \in stamps : Less(s, rt) /\ s \notin {o.ts : o \in Given(cur)}
    BY <1>3, <1>5 DEF HasGapBefore
  <1>7. Less(s, row.ts)
    BY <1>1, <1>2, <1>6, LessIsTransitive
  <1> QED
    BY <1>6, <1>7 DEF HasGapBefore

\* Passing the row under the cursor makes it the last of those passed.
LEMMA RowIsRead ==
    ASSUME Ordered, Known, JoinInv, InExtract, AtRow(buffers[cur], cursor), cursor' = NextRow(cursor),
           UNCHANGED <<buffers, extracting, window, stamps, todo, cur>>
    PROVE  /\ Read' = Read \cup {BufRow}
           /\ Remaining(cur)' \subseteq Remaining(cur) /\ Remaining(cur) \subseteq Remaining(cur)' \cup {BufRow}
           /\ \A q : q # cur => Remaining(q)' = Remaining(q)
           /\ \A q : Given(q)' = Given(q) /\ IsLate(q)' = IsLate(q)
           /\ \A q, r : HasGapBefore(q, r)' = HasGapBefore(q, r)
           /\ BufRow \in Row
  <1>1. Consuming /\ Remaining(cur) = RowsFrom(buffers[cur], cursor)
    BY CurrentBuffer DEF Consuming
  <1>2. Remaining(cur)' = RowsFrom(buffers[cur], NextRow(cursor)) /\ \A q : q # cur => Remaining(q)' = Remaining(q)
    BY <1>1 DEF Consuming, Remaining, Position
  <1>3. \A q : Given(q)' = Given(q)
    BY DEF Given
  <1>4. /\ \A q : IsLate(q)' = IsLate(q)
        /\ \A q, r : HasGapBefore(q, r)' = HasGapBefore(q, r)
    BY <1>3 DEF IsLate, HasGapBefore
  <1>5. Remaining(cur) \subseteq Given(cur)
    BY <1>1 DEF JoinInv
  <1>6. /\ BufRow \in Remaining(cur) /\ BufRow \in Row
        /\ \A r \in Remaining(cur)' : r \in Remaining(cur) /\ r # BufRow
        /\ \A r \in Remaining(cur) : r = BufRow \/ r \in Remaining(cur)'
    BY <1>2, CursorRow
  <1>7. Read' = Read \cup {BufRow}
    BY <1>3, <1>5, <1>6 DEF Read
  <1> QED
    BY <1>2, <1>3, <1>4, <1>6, <1>7

\* The parts of the invariant that have to do with the rows of the buffer only.
LEMMA StepKeepsRest ==
    ASSUME Known, JoinInv, InExtract,
           UNCHANGED <<buffers, extracting, window, stamps, todo, cur>>,
           Remaining(cur)' \subseteq Remaining(cur)
    PROVE  /\ SilentAreEmpty' /\ NothingTwice' /\ StampsCollected'
           /\ Consuming' => Remaining(cur)' \subseteq Given(cur)'
           /\ \A q : RowsOf(value, q)' = RowsOf(value, q)
  <1>1. Consuming /\ UNCHANGED <<rpc, value>>
    BY CurrentBuffer DEF Consuming, InExtract, reactorVars
  <1>2. \A q : Given(q)' = Given(q)
    BY DEF Given
  <1>3. StampsCollected'
    BY <1>2 DEF JoinInv, StampsCollected
  <1> QED
    BY <1>1, <1>2, <1>3 DEF JoinInv, SilentAreEmpty, NothingTwice, RowsOf

LEMMA MatchJoins ==
    ASSUME Ordered, Known, JoinInv, InExtract, RowMatches
    PROVE  JoinInv' /\ \A pv \in DOMAIN buffers : \A r \in pendingRows[pv] : IsKept(pv, r)
  <1> DEFINE row == BufRow  rt == RowTs
  <1>1. /\ Proceeding /\ row.ts = rt /\ cells' = [cells EXCEPT ![cur] = [@ EXCEPT ![rt] = row.id]]
        /\ rest' = rest \ {rt} /\ cursor' = NextRow(cursor)
        /\ UNCHANGED <<buffers, extracting, window, stamps, todo, cur, value, pv_>>
    BY DEF RowMatches, SetCell, InExtract, reactorVars
  <1>2. /\ rt \in rest /\ rt \in stamps /\ \A o \in rest : o = rt \/ Less(rt, o)
        /\ AtRow(buffers[cur], cursor) /\ rt \in TimeStamp
    BY <1>1, AtOutputRow
  <1>3. /\ Read' = Read \cup {row}
        /\ Remaining(cur)' \subseteq Remaining(cur) /\ Remaining(cur) \subseteq Remaining(cur)' \cup {row}
        /\ \A q : q # cur => Remaining(q)' = Remaining(q)
        /\ \A q : IsLate(q)' = IsLate(q)
        /\ \A q, r : HasGapBefore(q, r)' = HasGapBefore(q, r)
        /\ row \in Row
    BY <1>1, <1>2, RowIsRead
  <1>4. /\ Consuming /\ cur \in todo /\ cur \in DOMAIN buffers /\ DOMAIN cells = DOMAIN buffers
        /\ todo \subseteq DOMAIN buffers
        /\ \A q \in DOMAIN cells : cells[q] \in [stamps -> Cell]
    BY CurrentBuffer DEF Consuming, Known, ReactorTypes, TypeOK, TableTypeOK
  <1> HIDE DEF row, rt
  <1>5. /\ DOMAIN cells' = DOMAIN cells /\ \A q \in DOMAIN cells : q # cur => cells'[q] = cells[q]
        /\ cells'[cur][rt] = row.id /\ \A s \in stamps : s # rt => cells'[cur][s] = cells[cur][s]
    BY <1>1, <1>2, <1>4
  <1>6. cells[cur][rt] \in {Invalid, Uninit}
    BY <1>2, <1>4 DEF JoinInv, CellsFree
  <1>7. OutputFollows'
    <2>1. SUFFICES ASSUME ~IsLate(cur), NEW s \in stamps \ rest' PROVE \E u \in Read' : ~Less(u.ts, s)
      BY <1>1, <1>3 DEF OutputFollows
    <2>2. CASE s = rt
      BY <1>1, <1>2, <1>3, <2>2, LessIsLinear
    <2>3. CASE s # rt
      BY <1>1, <1>3, <1>4, <2>1, <2>3 DEF JoinInv, OutputFollows
    <2> QED
      BY <2>2, <2>3
  <1>8. BufferFollows'
    <2>1. SUFFICES ASSUME ~IsLate(cur), NEW u \in Read', NEW s \in rest' PROVE Less(u.ts, s) \/ HasGapBefore(cur, u)
      BY <1>1, <1>3 DEF BufferFollows
    <2>2. CASE u = row
      BY <1>1, <1>2, <2>2
    <2>3. CASE u \in Read
      BY <1>1, <1>4, <2>1, <2>3 DEF JoinInv, BufferFollows
    <2> QED
      BY <1>3, <2>2, <2>3
  <1>9. CellsFree'
    BY <1>1, <1>4, <1>5 DEF JoinInv, CellsFree
  <1>10. JoinInv' /\ \A q : RowsOf(value, q)' = RowsOf(value, q)
    BY <1>1, <1>3, <1>7, <1>8, <1>9, StepKeepsRest DEF JoinInv
  <1>11. \A q \in DOMAIN buffers : RowsOf(Extracted, q) \subseteq RowsOf(Extracted, q)'
    BY <1>1, <1>4, <1>5, <1>6, CellsKeepRows
  <1>12. row \in RowsOf(Extracted, cur)'
    <2>1. row = [ts |-> rt, id |-> row.id] /\ row.id \notin {Invalid, Uninit}
      BY <1>1, <1>3 DEF Row, Invalid, Uninit
    <2> QED
      BY <1>1, <1>2, <1>4, <1>5, <2>1 DEF RowsOf, Extracted
  <1>13. ASSUME NEW pv \in DOMAIN buffers, NEW r \in pendingRows[pv] PROVE IsKept(pv, r)
    <2>1. r \in Remaining(pv) \cup RowsOf(Extracted, pv) \cup RowsOf(value, pv)
      BY <1>13, PendingRows
    <2>2. pendingRows'[pv] = Remaining(pv)' \cup RowsOf(Extracted, pv)' \cup RowsOf(value, pv)'
      BY <1>1 DEF pendingRows
    <2>3. r \in Remaining(pv) => r \in Remaining(pv)' \cup RowsOf(Extracted, pv)'
      <3>1. CASE pv = cur
        <4>1. r \in Remaining(cur) => r \in Remaining(cur)' \cup RowsOf(Extracted, cur)'
          BY <1>3, <1>12
        <4> QED
          BY <1>1, <3>1, <4>1 DEF Remaining, Position, RowsOf
      <3>2. CASE pv # cur
        BY <1>3, <3>2
      <3> QED
        BY <3>1, <3>2
    <2>4. r \in pendingRows'[pv]
      BY <1>10, <1>11, <2>1, <2>2, <2>3
    <2> QED
      BY <1>1, <2>4 DEF IsKept
  <1> QED
    BY <1>10, <1>13

\* The row under the cursor is passed over, or every row stays.
LEMMA PassedOver ==
    ASSUME Ordered, Known, JoinInv, InExtract, Proceeding, cursor' = NextRow(cursor),
           UNCHANGED <<buffers, extracting, window, stamps, todo, cur>>,
           \A q \in DOMAIN buffers : RowsOf(Extracted, q) \subseteq RowsOf(Extracted, q)',
           HasGapBefore(cur, BufRow) \/ IsLate(cur)
    PROVE  \A pv \in DOMAIN buffers : \A r \in pendingRows[pv] : IsKept(pv, r)
  <1>1. AtRow(buffers[cur], cursor) /\ LessEq(BufRow.ts, window.end) /\ Consuming
    BY AtOutputRow, CurrentBuffer DEF Consuming
  <1>2. /\ Remaining(cur) \subseteq Remaining(cur)' \cup {BufRow} /\ Remaining(cur)' \subseteq Remaining(cur)
        /\ \A q : q # cur => Remaining(q)' = Remaining(q)
    BY <1>1, RowIsRead
  <1>3. \A q : RowsOf(value, q)' = RowsOf(value, q)
    BY <1>2, StepKeepsRest
  <1>4. SUFFICES ASSUME NEW pv \in DOMAIN buffers, NEW r \in pendingRows[pv] PROVE IsKept(pv, r)
    OBVIOUS
  <1>5. r \in Remaining(pv) \cup RowsOf(Extracted, pv) \cup RowsOf(value, pv)
    BY <1>4, PendingRows
  <1>6. pendingRows'[pv] = Remaining(pv)' \cup RowsOf(Extracted, pv)' \cup RowsOf(value, pv)'
    BY DEF pendingRows
  <1>7. r \in pendingRows'[pv] \/ (pv = cur /\ r = BufRow)
    BY <1>2, <1>3, <1>5, <1>6
  <1> QED
    BY <1>1, <1>7 DEF IsKept

LEMMA AheadJoins ==
    ASSUME Ordered, Known, JoinInv, InExtract, RowAhead
    PROVE  JoinInv' /\ \A pv \in DOMAIN buffers : \A r \in pendingRows[pv] : IsKept(pv, r)
  <1>1. /\ Proceeding /\ Less(RowTs, BufRow.ts) /\ cells' = [cells EXCEPT ![cur] = [@ EXCEPT ![RowTs] = Invalid]]
        /\ cursor' = NextRow(cursor)
        /\ UNCHANGED <<buffers, extracting, window, stamps, todo, cur, rest, value, pv_>>
    BY DEF RowAhead, SetCell, InExtract, reactorVars
  <1>2. RowTs \in rest /\ RowTs \in stamps /\ AtRow(buffers[cur], cursor)
    BY <1>1, AtOutputRow
  <1>3. /\ Read' = Read \cup {BufRow} /\ Remaining(cur)' \subseteq Remaining(cur)
        /\ \A q : IsLate(q)' = IsLate(q)
        /\ \A q, r : HasGapBefore(q, r)' = HasGapBefore(q, r)
    BY <1>1, <1>2, RowIsRead
  <1>4. /\ Consuming /\ cur \in todo /\ cur \in DOMAIN buffers /\ DOMAIN cells = DOMAIN buffers
        /\ todo \subseteq DOMAIN buffers
        /\ \A q \in DOMAIN cells : cells[q] \in [stamps -> Cell]
    BY CurrentBuffer DEF Consuming, Known, ReactorTypes, TypeOK, TableTypeOK
  <1>5. /\ DOMAIN cells' = DOMAIN cells /\ \A q \in DOMAIN cells : q # cur => cells'[q] = cells[q]
        /\ cells'[cur][RowTs] = Invalid /\ \A s \in stamps : s # RowTs => cells'[cur][s] = cells[cur][s]
    BY <1>1, <1>2, <1>4
  <1>6. cells[cur][RowTs] \in {Invalid, Uninit}
    BY <1>2, <1>4 DEF JoinInv, CellsFree
  <1>7. HasGapBefore(cur, BufRow) \/ IsLate(cur)
    BY <1>1, AheadIfGap
  <1>8. OutputFollows' /\ BufferFollows'
    BY <1>1, <1>3, <1>4, <1>7 DEF JoinInv, OutputFollows, BufferFollows
  <1>9. CellsFree'
    BY <1>1, <1>4, <1>5 DEF JoinInv, CellsFree
  <1>10. JoinInv'
    BY <1>1, <1>3, <1>8, <1>9, StepKeepsRest DEF JoinInv
  <1>11. \A q \in DOMAIN buffers : RowsOf(Extracted, q) \subseteq RowsOf(Extracted, q)'
    BY <1>1, <1>4, <1>5, <1>6, CellsKeepRows
  <1> QED
    BY <1>1, <1>7, <1>10, <1>11, PassedOver

LEMMA BehindJoins ==
    ASSUME Ordered, Known, JoinInv, InExtract, RowBehind
    PROVE  JoinInv' /\ \A pv \in DOMAIN buffers : \A r \in pendingRows[pv] : IsKept(pv, r)
  <1>1. /\ Proceeding /\ Less(BufRow.ts, RowTs) /\ cursor' = NextRow(cursor) /\ rest' = rest \ {RowTs}
        /\ UNCHANGED <<buffers, extracting, window, stamps, todo, cur, cells, value, pv_>>
    BY DEF RowBehind, InExtract, reactorVars
  <1>2. AtRow(buffers[cur], cursor)
    BY <1>1, AtOutputRow
  <1>3. Remaining(cur)' \subseteq Remaining(cur) /\ \A q : IsLate(q)' = IsLate(q)
    BY <1>1, <1>2, RowIsRead
  <1>4. IsLate(cur)
    BY <1>1, BehindIfLate
  <1>5. OutputFollows' /\ BufferFollows'
    BY <1>1, <1>3, <1>4 DEF OutputFollows, BufferFollows
  <1>6. Consuming /\ CellsFree'
    BY <1>1, CurrentBuffer DEF JoinInv, CellsFree, Consuming
  <1>7. JoinInv'
    BY <1>1, <1>3, <1>5, <1>6, StepKeepsRest DEF JoinInv
  <1>8. \A q : RowsOf(Extracted, q)' = RowsOf(Extracted, q)
    BY <1>1 DEF RowsOf, Extracted
  <1> QED
    BY <1>1, <1>4, <1>7, <1>8, PassedOver

LEMMA TableEndJoins ==
    ASSUME Ordered, Known, JoinInv, InExtract, TableEnds
    PROVE  JoinInv' /\ \A pv \in DOMAIN buffers : \A r \in pendingRows[pv] : IsKept(pv, r)
  <1>1. /\ AtTableEnd(buffers[cur], cursor) /\ cursor' = NextTable(cursor)
        /\ UNCHANGED <<buffers, extracting, window, stamps, todo, cur, rest, cells, value, pv_>>
    BY DEF TableEnds, InExtract, reactorVars
  <1>2. \A q : Remaining(q)' = Remaining(q)
    <2>1. Consuming /\ buffers[cur] \in Buffer /\ cursor \in Cursor /\ Remaining(cur) = RowsFrom(buffers[cur], cursor)
      BY CurrentBuffer DEF Consuming
    <2>2. Remaining(cur)' = RowsFrom(buffers[cur], NextTable(cursor))
      BY <1>1, <2>1 DEF Consuming, Remaining, Position
    <2>3. Remaining(cur)' = Remaining(cur)
      BY <1>1, <2>1, <2>2, NoRowPassed
    <2> QED
      BY <1>1, <2>3 DEF Remaining, Position
  <1>3. \A q : Given(q)' = Given(q)
    BY <1>1 DEF Given
  <1>4. /\ Read' = Read /\ \A q : IsLate(q)' = IsLate(q)
        /\ \A q, r : HasGapBefore(q, r)' = HasGapBefore(q, r)
    BY <1>1, <1>2, <1>3 DEF Read, IsLate, HasGapBefore
  <1>5. OutputFollows' /\ BufferFollows' /\ CellsFree'
    BY <1>1, <1>4 DEF JoinInv, OutputFollows, BufferFollows, CellsFree, Consuming
  <1>6. JoinInv'
    BY <1>1, <1>2, <1>5, StepKeepsRest DEF JoinInv
  <1>7. \A q : /\ RowsOf(Extracted, q)' = RowsOf(Extracted, q) /\ RowsOf(value, q)' = RowsOf(value, q)
    BY <1>1 DEF RowsOf, Extracted
  <1> QED
    BY <1>1, <1>2, <1>6, <1>7, KeptIfMoved

\* What holds when a buffer is about to be read from its first row.
LEMMA FromFirstRow ==
    ASSUME Consuming' => rest' = stamps' /\ cursor' = FirstRow(buffers'[cur'])
    PROVE  /\ OutputFollows' /\ BufferFollows'
           /\ Consuming' => Remaining(cur)' \subseteq Given(cur)'
  <1>1. SUFFICES ASSUME Consuming'
                 PROVE  /\ OutputFollows' /\ BufferFollows'
                        /\ Remaining(cur)' \subseteq Given(cur)'
    BY DEF OutputFollows, BufferFollows
  <1>2. Remaining(cur)' = Given(cur)'
    BY <1>1 DEF Remaining, Position, Given
  <1>3. Read' = {}
    BY <1>2 DEF Read
  <1> QED
    BY <1>1, <1>2, <1>3 DEF OutputFollows, BufferFollows

LEMMA BufferEndJoins ==
    ASSUME Ordered, Known, JoinInv, InExtract, BufferEnds
    PROVE  JoinInv' /\ \A pv \in DOMAIN buffers : \A r \in pendingRows[pv] : IsKept(pv, r)
  <1>1. /\ cells' = [cells EXCEPT ![cur] = [s \in stamps |-> IF s \in rest THEN Invalid ELSE @[s]]]
        /\ UNCHANGED <<extracting, window, stamps, rpc, value, pv_>>
    BY DEF BufferEnds, InExtract, reactorVars
  <1>2. /\ todo' = todo \ {cur} /\ rest' = stamps
        /\ todo' # {} => cur' \in todo' /\ cursor' = FirstRow(buffers'[cur'])
        /\ DOMAIN buffers' = DOMAIN buffers
        /\ \A q \in DOMAIN buffers : Remaining(q)' = Remaining(q) /\ buffers'[q].type = buffers[q].type
        /\ \A q \in todo' : buffers'[q] = buffers[q]
    BY BufferEndDropsPassed
  <1>3. /\ rpc = "extracting" /\ Consuming /\ cur \in todo /\ cur \in DOMAIN cells /\ DOMAIN cells = DOMAIN buffers
        /\ cells[cur] \in [stamps -> Cell] /\ todo \subseteq DOMAIN buffers
    BY CurrentBuffer DEF Consuming, Known, ReactorTypes, TypeOK, TableTypeOK
  <1>p. PICK pv : pv = cur
    OBVIOUS
  <1>4. /\ DOMAIN cells' = DOMAIN cells /\ \A q \in DOMAIN cells \ {pv} : cells'[q] = cells[q]
        /\ \A s \in stamps : cells'[pv][s] = IF s \in rest THEN Invalid ELSE cells[pv][s]
    BY <1>p, <1>1, <1>3
  <1>5. SilentAreEmpty'
    BY <1>1, <1>2, <1>3, AllInitialized DEF SilentAreEmpty, Initialized
  <1>6. StampsCollected'
    <2>1. \A q \in todo' : Given(q)' = Given(q)
      BY <1>2 DEF Given
    <2> QED
      BY <1>1, <1>2, <2>1 DEF JoinInv, StampsCollected
  <1>7. /\ OutputFollows' /\ BufferFollows'
        /\ Consuming' => Remaining(cur)' \subseteq Given(cur)'
    BY <1>1, <1>2, FromFirstRow DEF Consuming
  <1>8. CellsFree'
    BY <1>p, <1>1, <1>2, <1>3, <1>4 DEF JoinInv, CellsFree
  <1>9. JoinInv'
    BY <1>1, <1>5, <1>6, <1>7, <1>8 DEF JoinInv, NothingTwice
  <1>10. \A q \in DOMAIN buffers : RowsOf(Extracted, q) \subseteq RowsOf(Extracted, q)'
    <2>1. \A s \in rest : cells[pv][s] \in {Invalid, Uninit}
      BY <1>p, <1>3 DEF JoinInv, CellsFree, Known, ReactorTypes, TypeOK, TableTypeOK
    <2> QED
      BY <1>1, <1>3, <1>4, <2>1, CellsKeepRows
  <1>11. \A q : RowsOf(value, q)' = RowsOf(value, q)
    BY <1>1 DEF RowsOf
  <1> QED
    BY <1>2, <1>9, <1>10, <1>11, KeptIfMoved

\* Outside extract().
LEMMA BetweenJoins ==
    ASSUME ~extracting', SilentAreEmpty', NothingTwice'
    PROVE  JoinInv'
  BY DEF JoinInv, StampsCollected, OutputFollows, BufferFollows, CellsFree, Consuming

LEMMA CallJoins ==
    ASSUME Known, JoinInv, CallExtract
    PROVE  JoinInv' /\ \A pv \in DOMAIN buffers : \A r \in pendingRows[pv] : IsKept(pv, r)
  <1>1. /\ rpc' = "extracting" /\ rpc = "extract" /\ ~extracting /\ window' = [start |-> bounds.start, end |-> bounds.end]
        /\ stamps' = UNION {StampsBetween(buffers[pv], bounds.start, bounds.end) : pv \in DOMAIN buffers}
        /\ cells' = [pv \in DOMAIN buffers |-> [s \in stamps' |-> Uninit]]
        /\ UNCHANGED <<buffers, value, pv_>>
    BY DEF CallExtract, BeginExtract
  <1>2. todo' = DOMAIN buffers /\ rest' = stamps' /\ (todo' # {} => cursor' = FirstRow(buffers'[cur']))
    BY DEF CallExtract, BeginExtract, StartBuffer
  <1>3. \A q : Remaining(q)' = Remaining(q) /\ Given(q)' = Given(q)
    BY <1>1, <1>2 DEF Remaining, Position, Given
  <1>4. StampsCollected'
    <2>1. ASSUME NEW s \in stamps' PROVE Less(s, bounds.end)
      BY <1>1, <2>1 DEF StampsBetween
    <2>2. ASSUME NEW pv \in DOMAIN buffers, NEW r \in Given(pv), LessEq(bounds.start, r.ts), Less(r.ts, bounds.end)
          PROVE  r.ts \in stamps'
      <3> DEFINE tables == {buffers[pv].tables[k] : k \in DOMAIN buffers[pv].tables}
                 rows == UNION {{t[i] : i \in DOMAIN t} : t \in tables}
      <3>1. PICK k \in DOMAIN buffers[pv].tables : \E i \in DOMAIN buffers[pv].tables[k] : r = buffers[pv].tables[k][i]
        BY <2>2, InRowsFrom DEF Given
      <3>2. buffers[pv].tables[k] \in tables /\ r \in {buffers[pv].tables[k][i] : i \in DOMAIN buffers[pv].tables[k]}
        BY <3>1
      <3> HIDE DEF tables
      <3>3. r \in rows
        BY <3>2
      <3> HIDE DEF rows
      <3>4. r.ts \in StampsBetween(buffers[pv], bounds.start, bounds.end)
        BY <2>2, <3>3 DEF StampsBetween, rows, tables
      <3> QED
        BY <1>1, <3>4
    <2> QED
      BY <1>1, <1>2, <1>3, <2>1, <2>2 DEF StampsCollected
  <1>5. /\ OutputFollows' /\ BufferFollows'
        /\ Consuming' => Remaining(cur)' \subseteq Given(cur)'
    BY <1>2, FromFirstRow DEF Consuming
  <1>6. CellsFree'
    BY <1>1, <1>2 DEF CellsFree
  <1>7. JoinInv'
    BY <1>1, <1>4, <1>5, <1>6 DEF JoinInv, SilentAreEmpty, NothingTwice
  <1>8. \A q : RowsOf(Extracted, q) = {} /\ RowsOf(value, q)' = RowsOf(value, q)
    BY <1>1 DEF RowsOf, Extracted, Known, OrderInv
  <1> QED
    BY <1>1, <1>3, <1>7, <1>8, KeptIfMoved

LEMMA ReturnJoins ==
    ASSUME Known, JoinInv, ExtractReturns
    PROVE  JoinInv' /\ \A pv \in DOMAIN buffers : \A r \in pendingRows[pv] : IsKept(pv, r)
  <1>1. /\ rpc = "extracting" /\ rpc' = "post" /\ ~extracting' /\ todo = {} /\ value = NoTable /\ value' = Extracted
        /\ UNCHANGED <<buffers, pv_>>
    BY DEF ExtractReturns, EndExtract, JoinInv, NothingTwice
  <1>2. \A q : Remaining(q)' = Remaining(q)
    BY <1>1 DEF Remaining, Position
  <1>3. JoinInv'
    BY <1>1, BetweenJoins DEF JoinInv, SilentAreEmpty, NothingTwice
  <1>4. \A q : RowsOf(value, q) = {} /\ RowsOf(value, q)' = RowsOf(Extracted, q)
    BY <1>1 DEF RowsOf, Extracted, NoTable
  <1> QED
    BY <1>1, <1>2, <1>3, <1>4, KeptIfMoved

LEMMA PostJoins ==
    ASSUME Known, JoinInv, Post
    PROVE  JoinInv' /\ \A pv \in DOMAIN buffers : \A r \in pendingRows[pv] : IsKept(pv, r)
  <1>1. /\ rpc = "post" /\ value' = NoTable /\ pv_'.table = value
        /\ UNCHANGED <<buffers, extracting, stamps, cells, todo, cur, cursor>>
    BY DEF Post, tableVars, extractVars
  <1>2. ~extracting
    BY <1>1 DEF Known, ReactorTypes, Phase
  <1>3. \A q : Remaining(q)' = Remaining(q)
    BY <1>1 DEF Remaining, Position
  <1>4. JoinInv'
    BY <1>1, <1>2, BetweenJoins DEF JoinInv, SilentAreEmpty, NothingTwice
  <1>5. \A q : RowsOf(Extracted, q)' = RowsOf(Extracted, q) /\ RowsOf(pv_.table, q)' = RowsOf(value, q)
    BY <1>1 DEF RowsOf, Extracted
  <1> QED
    BY <1>1, <1>3, <1>4, <1>5, KeptIfMoved

LEMMA PrepareJoins ==
    ASSUME Known, JoinInv, Prepare
    PROVE  JoinInv' /\ \A pv \in DOMAIN buffers : \A r \in pendingRows[pv] : IsKept(pv, r)
  <1>1. /\ rpc = "prepare" /\ ~extracting /\ rpc' \in {"open", "ended"} /\ value = NoTable
        /\ UNCHANGED <<extracting, stamps, cells, todo, cur, cursor, value, pv_>>
        /\ DOMAIN buffers' \subseteq DOMAIN buffers
        /\ \A q \in DOMAIN buffers' : buffers'[q] = buffers[q]
        /\ \A q \in DOMAIN buffers \ DOMAIN buffers' : ~Initialized(buffers[q])
    BY DEF Prepare, ForceInitialize, extractVars, JoinInv, NothingTwice
  <1>2. JoinInv'
    BY <1>1, BetweenJoins DEF JoinInv, SilentAreEmpty, NothingTwice
  <1>3. \A q \in DOMAIN buffers' : Remaining(q)' = Remaining(q)
    BY <1>1 DEF Remaining, Position
  <1>4. \A q : RowsOf(Extracted, q)' = RowsOf(Extracted, q) /\ RowsOf(value, q)' = RowsOf(value, q)
    BY <1>1 DEF RowsOf, Extracted
  <1>5. ASSUME NEW q \in DOMAIN buffers \ DOMAIN buffers' PROVE pendingRows[q] = {}
    <2>1. buffers[q].tables = <<>>
      BY <1>1 DEF JoinInv, SilentAreEmpty, Empty
    <2>2. Remaining(q) = {}
      BY <2>1, InRowsFrom DEF Remaining
    <2>3. RowsOf(Extracted, q) = {} /\ RowsOf(value, q) = {}
      BY <1>1 DEF RowsOf, Extracted, NoTable, Known, OrderInv
    <2> QED
      BY <2>2, <2>3, PendingRows
  <1> QED
    BY <1>1, <1>2, <1>3, <1>4, <1>5, KeptIfMoved

LEMMA QuietJoins ==
    ASSUME Known, JoinInv, OpenPV \/ TimeOut \/ StopRequested \/ ChooseWindow \/ PostToClosed
    PROVE  JoinInv' /\ \A pv \in DOMAIN buffers : \A r \in pendingRows[pv] : IsKept(pv, r)
  <1>1. /\ UNCHANGED <<tableVars, value>> /\ rpc # "extracting"
        /\ rpc \in {"post", "aborted"} => rpc' \in {"post", "aborted"}
    BY DEF OpenPV, TimeOut, StopRequested, ChooseWindow, PostToClosed
  <1>2. UNCHANGED <<buffers, extracting, stamps, todo, cur, cursor, cells>> /\ ~extracting
    BY <1>1 DEF tableVars, extractVars, Known, ReactorTypes, Phase
  <1>3. JoinInv'
    BY <1>1, <1>2, BetweenJoins DEF JoinInv, SilentAreEmpty, NothingTwice
  <1>4. \A q : /\ Remaining(q)' = Remaining(q)
               /\ RowsOf(Extracted, q)' = RowsOf(Extracted, q) /\ RowsOf(value, q)' = RowsOf(value, q)
    BY <1>1, <1>2 DEF Remaining, Position, RowsOf, Extracted
  <1> QED
    BY <1>2, <1>3, <1>4, KeptIfMoved

LEMMA DeliverJoins ==
    ASSUME Known, JoinInv, NEW pv \in PVs, NEW u \in NextUpdates(pv), Deliver(pv, u)
    PROVE  JoinInv' /\ \A q \in DOMAIN buffers : \A r \in pendingRows[q] : IsKept(q, r)
  <1>1. /\ ~extracting' /\ DOMAIN buffers' = DOMAIN buffers
        /\ UNCHANGED <<rpc, value, pv_, stamps, cells>>
    BY DEF Deliver, Push, extractVars, reactorVars
  <1>2. \A q \in DOMAIN buffers : Remaining(q) \subseteq Remaining(q)'
    BY DeliverAdds
  <1>3. JoinInv'
    BY <1>1, DeliverKeepsSilent, BetweenJoins DEF JoinInv, NothingTwice
  <1>4. \A q : RowsOf(Extracted, q)' = RowsOf(Extracted, q) /\ RowsOf(value, q)' = RowsOf(value, q)
    BY <1>1 DEF RowsOf, Extracted
  <1> QED
    BY <1>1, <1>2, <1>3, <1>4, KeptIfMoved

LEMMA StepsKeepRows ==
    ASSUME Ordered, Known, JoinInv, Next
    PROVE  JoinInv' /\ \A pv \in DOMAIN buffers : \A r \in pendingRows[pv] : IsKept(pv, r)
  <1>1. ASSUME NEW pv \in PVs, NEW u \in NextUpdates(pv), Deliver(pv, u)
        PROVE  JoinInv' /\ \A q \in DOMAIN buffers : \A r \in pendingRows[q] : IsKept(q, r)
    BY <1>1, DeliverJoins
  <1>2. CASE InExtract
    BY <1>2, MatchJoins, AheadJoins, BehindJoins, TableEndJoins, BufferEndJoins DEF InExtract, ExtractStep
  <1>3. CASE ReactorNext
    BY <1>2, <1>3, PrepareJoins, QuietJoins, CallJoins, ReturnJoins, PostJoins DEF ReactorNext
  <1> QED
    BY <1>1, <1>3 DEF Next

LEMMA InitJoins == Init => JoinInv
  <1>1. SUFFICES ASSUME Init PROVE JoinInv
    OBVIOUS
  <1>2. buffers = [pv \in PVs |-> NewBuffer] /\ ~extracting /\ value = NoTable
    BY <1>1 DEF Init, TableInit, ReactorInit
  <1> QED
    BY <1>2 DEF JoinInv, SilentAreEmpty, NothingTwice, StampsCollected, OutputFollows, BufferFollows, CellsFree,
                Consuming, NewBuffer, Empty

\* What makes a buffer late is always a push after get_timebounds(): no row that
\* is buffered when the window is chosen is earlier than the window
\* (mergerMain.cpp:232-262, tablebuffer.cpp:94-106).
LEMMA WindowBeginsWithRows ==
    ASSUME Ordered, Known, ChooseWindow, NEW pv \in DOMAIN buffers, NEW r \in Given(pv)
    PROVE  ~Less(r.ts, bounds'.start)
  <1> DEFINE starts == {buffers[q].start : q \in {p \in DOMAIN buffers : ~Empty(buffers[p])}}
  <1>1. TimeBounds.valid /\ bounds'.start = TimeBounds.earliest_start /\ ~extracting
    BY DEF ChooseWindow, Known, ReactorTypes, Phase
  <1>2. bounds'.start = Earliest(starts)
    BY <1>1, BoundsOfFilled
  <1>3. Remaining(pv) = Given(pv)
    BY <1>1 DEF Remaining, Position, Given
  <1>4. ~Empty(buffers[pv])
    BY <1>3, InRowsFrom DEF Remaining, Empty
  <1>5. /\ buffers[pv].start \in TimeStamp /\ buffers[pv].start.utag = 0
        /\ buffers[pv].start.ts <= r.ts.ts /\ r \in Row
    BY <1>1, <1>3, <1>4, SpanOfRows, RemainingSent DEF Known
  <1>6. /\ starts # {} /\ starts \subseteq TimeStamp
        /\ buffers[pv].start \in starts /\ \A s \in starts : s.utag = 0
    BY <1>1, <1>4, SpanOfRows
  <1> HIDE DEF starts
  <1>7. /\ bounds'.start \in TimeStamp /\ bounds'.start.utag = 0
        /\ LessEq(bounds'.start, buffers[pv].start)
    BY <1>2, <1>6, EarliestExists
  <1>8. /\ bounds'.start.ts \in Nat /\ buffers[pv].start.ts \in Nat
        /\ r.ts.ts \in Nat /\ r.ts.utag \in Nat
    BY <1>5, <1>7 DEF TimeStamp, Row
  <1>9. bounds'.start.ts <= buffers[pv].start.ts
    BY <1>7, <1>8 DEF LessEq, Less
  <1> QED
    BY <1>5, <1>7, <1>8, <1>9 DEF Less

\* RowsAreShownOrPassedOver of MergeRefinement, whatever the inputs lack and
\* however late they are, as long as each sends its rows in order and no update
\* is without rows: what is pushed stays pending until it is shown, through every
\* push, drop of a PV, stale window and consumed table, and extract() leaves out
\* rows only of a PV with a gap before them or that came too late
\* (tablebuffer.cpp:168-205, taligntable.cpp:203-330, mergerMain.cpp:232-268).
THEOREM RowsAreNeverOverlooked ==
    ASSUME Ordered, 0 \notin Sizes
    PROVE  Spec => RowsAreShownOrPassedOver
  <1>1. FeedsIncrease
    BY DEF Ordered
  <1>2. Init => JoinInv
    BY InitJoins
  <1>3. Known /\ JoinInv /\ [Next]_mergeVars => JoinInv'
    <2>1. ASSUME JoinInv, UNCHANGED mergeVars PROVE JoinInv'
      <3>1. UNCHANGED <<buffers, extracting, window, stamps, todo, cur, cursor, rest, cells, rpc, value>>
        BY <2>1 DEF mergeVars, reactorVars, tableVars, extractVars
      <3>2. \A q : Remaining(q)' = Remaining(q) /\ Given(q)' = Given(q)
        BY <3>1 DEF Remaining, Position, Given
      <3>3. Read' = Read /\ \A q : IsLate(q)' = IsLate(q) /\ \A r : HasGapBefore(q, r)' = HasGapBefore(q, r)
        BY <3>1, <3>2 DEF Read, IsLate, HasGapBefore
      <3> QED
        BY <2>1, <3>1, <3>2, <3>3 DEF JoinInv, SilentAreEmpty, NothingTwice, StampsCollected,
                                      OutputFollows, BufferFollows, CellsFree, Consuming
    <2> QED
      BY <2>1, StepsKeepRows
  <1>4. Known /\ JoinInv /\ [Next]_mergeVars =>
          [\A pv \in DOMAIN buffers : \A r \in pendingRows[pv] : IsKept(pv, r)]_mergeVars
    BY StepsKeepRows
  <1>5. Spec => []ReactorTypes /\ []Described /\ []Exact /\ []SentOnly /\ []WindowHolds /\ []OrderInv
    BY <1>1, TypesInvariant, DescribedInvariant, ExactInvariant, SentInvariant, WindowInvariant, OrderInvariant, PTL
  <1>6. ReactorTypes /\ Described /\ Exact /\ SentOnly /\ WindowHolds /\ OrderInv => Known
    BY DEF Known
  <1> QED
    BY <1>2, <1>3, <1>4, <1>5, <1>6, PTL DEF Spec, RowsAreShownOrPassedOver
=============================================================================
