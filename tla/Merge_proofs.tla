---------------------------- MODULE Merge_proofs ----------------------------
(***************************************************************************)
(* The invariants of Merge, for any PVs, feeds, period and timeout.        *)
(***************************************************************************)
EXTENDS Merge, TableBuffer_proofs

-----------------------------------------------------------------------------
(***************************************************************************)
(* Types.                                                                  *)
(***************************************************************************)

\* extract() runs while the reactor is in it; between calls nothing is left
\* to consume.
Phase ==
    /\ extracting <=> rpc = "extracting"
    /\ ~extracting => todo = {}

\* What a PV sends is an update of rows of its feed, in order.
LEMMA NextUpdatesType ==
    ASSUME feed \in Feeds, sent \in [PVs -> Nat], NEW pv \in PVs, NEW u \in NextUpdates(pv)
    PROVE  /\ u \in Update
           /\ Len(u.rows) \in Sizes
           /\ sent[pv] + Len(u.rows) <= Len(feed[pv])
           /\ \A i \in DOMAIN u.rows : u.rows[i] = feed[pv][sent[pv] + i]
  <1>1. feed[pv] \in Seq(Row) /\ sent[pv] \in Nat
    BY FeedsAssumption
  <1>2. PICK n \in {m \in Sizes : sent[pv] + m <= Len(feed[pv])} :
          u.rows = SubSeq(feed[pv], sent[pv] + 1, sent[pv] + n)
    BY DEF NextUpdates
  <1>3. n \in Nat /\ n \in Sizes /\ sent[pv] + n <= Len(feed[pv])
    BY FeedsAssumption
  <1>4. \A i \in sent[pv] + 1 .. sent[pv] + n : feed[pv][i] \in Row
    BY <1>1, <1>3, ElementOfSeq
  <1>5. /\ u.rows \in Seq(Row)
        /\ Len(u.rows) = n
        /\ \A i \in 1 .. n : u.rows[i] = feed[pv][sent[pv] + i]
    <2> DEFINE f == feed[pv]  from == sent[pv] + 1  to == sent[pv] + n
    <2>1. /\ SubSeq(f, from, to) \in Seq(Row)
          /\ Len(SubSeq(f, from, to)) = IF from <= to THEN to - from + 1 ELSE 0
          /\ \A i \in 1 .. to - from + 1 : SubSeq(f, from, to)[i] = f[from + i - 1]
      BY <1>1, <1>3, <1>4, SubSeqProperties, SMTT(30)
    <2>2. Len(SubSeq(f, from, to)) = n
      BY <1>1, <1>3, <2>1
    <2>3. ASSUME NEW i \in 1 .. n
          PROVE  SubSeq(f, from, to)[i] = f[sent[pv] + i]
      <3>1. i \in 1 .. to - from + 1 /\ from + i - 1 = sent[pv] + i
        BY <1>1, <1>3
      <3> QED
        BY <2>1, <3>1
    <2>4. u.rows = SubSeq(f, from, to)
      BY <1>2
    <2> HIDE DEF from, to
    <2> QED
      BY <2>1, <2>2, <2>3, <2>4
  <1>6. u \in [shape : SentShapes, ragged : SentRagged, rows : {u.rows}]
    BY DEF NextUpdates
  <1>7. u \in Update
    BY <1>5, <1>6, FeedsAssumption DEF Update
  <1>8. DOMAIN u.rows = 1 .. n
    BY <1>5
  <1> QED
    BY <1>3, <1>5, <1>7, <1>8

LEMMA TypeInit == Init => TypeOK /\ Phase
  <1> SUFFICES ASSUME Init PROVE TypeOK /\ Phase
    OBVIOUS
  <1> USE DEF Init, TableInit, RunnableInit, ReactorInit
  <1>1. NewBuffer \in Buffer
    BY DEF NewBuffer, Buffer, Untagged, TimeStamp
  <1>2. IsTable(NoTable)
    BY DEF IsTable, NoTable
  <1>3. NoWindow \in Window
    BY DEF NoWindow, Window, Untagged, TimeStamp
  <1>4. TableTypeOK
    BY <1>1, <1>3 DEF TableTypeOK, IsTable, Extracted, Cursor, NotBuilt
  <1>5. ReactorTypeOK
    BY <1>2, <1>3 DEF ReactorTypeOK
  <1>6. dead \in Seq(Threads)
    OBVIOUS
  <1> QED
    BY <1>4, <1>5, <1>6 DEF TypeOK, Phase, Threads

-----------------------------------------------------------------------------
\* initialize() keeps a merged type that was built.
LEMMA TypeOverType ==
    ASSUME NEW bufs, type_.built \in BOOLEAN
    PROVE  /\ TypeOver(bufs).built \in BOOLEAN
           /\ type_.built => TypeOver(bufs) = type_
  <1>1. CASE TypeOver(bufs) = type_
    BY <1>1
  <1>2. CASE TypeOver(bufs) # type_
    <2>1. ~type_.built /\ TypeOver(bufs) = [built |-> TRUE, cols |-> [pv \in DOMAIN bufs |-> bufs[pv].type]]
      BY <1>2 DEF TypeOver
    <2> QED
      BY <2>1
  <1> QED
    BY <1>1, <1>2

\* One step of a method of the table, one lemma per method.
LEMMA PushKeepsTypes ==
    ASSUME TableTypeOK, NEW pv \in PVs, NEW u \in Update, Push(pv, u)
    PROVE  TableTypeOK'
  <1> USE DEF TableTypeOK
  <1>1. CASE pv \notin DOMAIN buffers
    BY <1>1 DEF Push, extractVars, IsTable, Extracted
  <1>2. CASE pv \in DOMAIN buffers
    <2>1. PICK c \in PushResults(buffers[pv], u) : buffers' = [buffers EXCEPT ![pv] = c]
      BY <1>2 DEF Push
    <2>2. c \in Buffer
      BY <1>2, PushType
    <2>3. type_'.built \in BOOLEAN
      BY <1>2, TypeOverType DEF Push
    <2>4. UNCHANGED <<extracting, window, stamps, todo, cur, cursor, rest, cells>>
      BY DEF Push, extractVars
    <2> QED
      BY <2>1, <2>2, <2>3, <2>4 DEF IsTable, Extracted
  <1> QED
    BY <1>1, <1>2

LEMMA ForceInitializeKeepsTypes ==
    ASSUME TableTypeOK, Phase, ForceInitialize
    PROVE  TableTypeOK'
  <1> USE DEF TableTypeOK
  <1>1. /\ DOMAIN buffers' \subseteq DOMAIN buffers
        /\ \A pv \in DOMAIN buffers' : buffers'[pv] = buffers[pv]
    BY DEF ForceInitialize
  <1>2. type_'.built \in BOOLEAN
    BY TypeOverType DEF ForceInitialize
  <1>3. UNCHANGED <<extracting, window, stamps, todo, cur, cursor, rest, cells>> /\ todo = {}
    BY DEF ForceInitialize, extractVars, Phase
  <1> QED
    BY <1>1, <1>2, <1>3 DEF IsTable, Extracted

\* The stamps that extract() collects are stamps of buffered rows.
LEMMA StampsBetweenType ==
    ASSUME NEW b \in Buffer, NEW start, NEW end, NEW s \in StampsBetween(b, start, end)
    PROVE  /\ s \in TimeStamp
           /\ \E k \in DOMAIN b.tables : \E i \in DOMAIN b.tables[k] : s = b.tables[k][i].ts
  <1>1. PICK k \in DOMAIN b.tables : \E i \in DOMAIN b.tables[k] : s = b.tables[k][i].ts
    BY DEF StampsBetween
  <1>2. b.tables[k] \in Seq(Row)
    BY ElementOfSeq DEF Buffer
  <1>3. \A i \in DOMAIN b.tables[k] : b.tables[k][i] \in Row
    BY <1>2, ElementOfSeq
  <1> QED
    BY <1>1, <1>3 DEF Row

LEMMA StartBufferKeepsTypes ==
    ASSUME NEW bufs, NEW pvs, pvs \subseteq DOMAIN bufs,
           \A pv \in DOMAIN bufs : bufs[pv] \in Buffer,
           cursor \in Cursor, StartBuffer(bufs, pvs)
    PROVE  /\ todo' = pvs
           /\ todo' # {} => cur' \in todo'
           /\ cursor' \in Cursor
           /\ rest' = stamps'
  BY DEF StartBuffer, FirstOf, FirstRow, Cursor, Buffer

LEMMA BeginExtractKeepsTypes ==
    ASSUME TableTypeOK, bounds \in Window, BeginExtract(bounds.start, bounds.end)
    PROVE  TableTypeOK'
  <1>1. stamps' \subseteq TimeStamp
    BY StampsBetweenType DEF BeginExtract, TableTypeOK
  <1>2. window' \in Window
    BY DEF BeginExtract, Window
  <1>3. IsTable(Extracted)'
    BY <1>1 DEF BeginExtract, IsTable, Extracted, Cell, TableTypeOK
  <1>4. /\ todo' = DOMAIN buffers
        /\ todo' # {} => cur' \in todo'
        /\ cursor' \in Cursor
        /\ rest' = stamps'
    BY StartBufferKeepsTypes DEF BeginExtract, TableTypeOK
  <1> QED
    BY <1>2, <1>3, <1>4 DEF BeginExtract, TableTypeOK

\* The row that the loop is at is a row.
LEMMA RowAtType ==
    ASSUME NEW b \in Buffer, NEW c \in Cursor, AtRow(b, c)
    PROVE  /\ RowAt(b, c) \in Row
           /\ c.outer + 1 \in DOMAIN b.tables
           /\ c.inner + 1 \in DOMAIN b.tables[c.outer + 1]
  <1>1. b.tables \in Seq(Seq(Row)) /\ c.outer \in Nat /\ c.inner \in Nat
    BY DEF Buffer, Cursor
  <1>2. c.outer + 1 \in 1 .. Len(b.tables)
    BY <1>1 DEF AtRow, AtEnd
  <1>3. b.tables[c.outer + 1] \in Seq(Row)
    BY <1>1, <1>2, ElementOfSeq
  <1>4. c.inner + 1 \in 1 .. Len(b.tables[c.outer + 1])
    BY <1>1, <1>3 DEF AtRow
  <1>5. b.tables[c.outer + 1][c.inner + 1] \in Row
    BY <1>3, <1>4, ElementOfSeq
  <1> QED
    BY <1>1, <1>2, <1>3, <1>4, <1>5 DEF RowAt

\* Writing a cell, wherever the output iterator is.
LEMMA SetCellKeepsTables ==
    ASSUME IsTable(Extracted), NEW c \in Cell, SetCell(c), UNCHANGED stamps
    PROVE  IsTable(Extracted)'
  BY DEF IsTable, Extracted, SetCell

LEMMA ExtractStepKeepsTypes ==
    ASSUME TableTypeOK, ExtractStep
    PROVE  TableTypeOK'
  <1> USE DEF TableTypeOK
  <1>0. /\ Proceeding => BufRow \in Row
        /\ NextRow(cursor) \in Cursor
        /\ NextTable(cursor) \in Cursor
    BY RowAtType DEF Proceeding, Consuming, BufRow, NextRow, NextTable, Cursor
  <1>1. CASE RowMatches
    <2>1. IsTable(Extracted)'
      BY <1>0, <1>1, SetCellKeepsTables DEF RowMatches, Row, Cell
    <2> QED
      BY <1>0, <1>1, <2>1 DEF RowMatches
  <1>2. CASE RowAhead
    <2>1. IsTable(Extracted)'
      BY <1>2, SetCellKeepsTables DEF RowAhead, Invalid, Cell
    <2> QED
      BY <1>0, <1>2, <2>1 DEF RowAhead
  <1>3. CASE RowBehind
    BY <1>0, <1>3 DEF RowBehind, IsTable, Extracted
  <1>4. CASE TableEnds
    BY <1>0, <1>4 DEF TableEnds, IsTable, Extracted
  <1>5. CASE BufferEnds
    <2>1. PICK c \in ConsumeResults(buffers[cur], cursor) : buffers' = [buffers EXCEPT ![cur] = c]
      BY <1>5 DEF BufferEnds
    <2>2. c \in Buffer
      BY <1>5, ConsumeType DEF BufferEnds, Consuming
    <2>3. DOMAIN buffers' = DOMAIN buffers /\ \A pv \in DOMAIN buffers : buffers'[pv] \in Buffer
      BY <2>1, <2>2
    <2>4. /\ todo' = todo \ {cur}
          /\ todo' # {} => cur' \in todo'
          /\ cursor' \in Cursor
          /\ rest' = stamps'
      BY <1>5, StartBufferKeepsTypes DEF BufferEnds
    <2>5. IsTable(Extracted)'
      BY <1>5 DEF BufferEnds, IsTable, Extracted, Cell, Invalid
    <2> QED
      BY <1>5, <2>3, <2>4, <2>5 DEF BufferEnds
  <1> QED
    BY <1>1, <1>2, <1>3, <1>4, <1>5 DEF ExtractStep

-----------------------------------------------------------------------------
(***************************************************************************)
(* The inductive invariant of the types, one step per action.              *)
(***************************************************************************)
ReactorTypes == TypeOK /\ Phase

LEMMA StoppedType ==
    ASSUME running \in [Threads -> BOOLEAN], dead \in Seq(Threads), NEW t \in Threads, Stopped(t)
    PROVE  running' \in [Threads -> BOOLEAN] /\ dead' \in Seq(Threads)
  BY DEF Stopped

\* The bounds the reactor chooses: from a stamp, if any buffer holds a table.
LEMMA BoundsType ==
    ASSUME TableTypeOK, TimeBounds.valid
    PROVE  /\ TimeBounds.earliest_start \in TimeStamp
           /\ \E pv \in DOMAIN buffers :
                ~Empty(buffers[pv]) /\ TimeBounds.earliest_start = buffers[pv].start
           /\ [start |-> TimeBounds.earliest_start,
               end |-> [ts   |-> TimeBounds.earliest_start.ts + Period,
                        utag |-> TimeBounds.earliest_start.utag]] \in Window
  <1> DEFINE filled == {p \in DOMAIN buffers : ~Empty(buffers[p])}
             spans == {s \in {SpanOf(buffers[pv]) : pv \in DOMAIN buffers} : s.valid}
             starts == {s.start : s \in spans}
  <1>0. ASSUME NEW s \in spans PROVE \E pv \in filled : s.start = buffers[pv].start
    <2>1. PICK pv \in DOMAIN buffers : s = SpanOf(buffers[pv]) /\ s.valid
      OBVIOUS
    <2>2. ~Empty(buffers[pv]) /\ s.start = buffers[pv].start
      BY <2>1 DEF SpanOf, TimeSpan, InvalidSpan
    <2> QED
      BY <2>2
  <1>1. spans # {} /\ TimeBounds.earliest_start = Earliest(starts)
    BY DEF TimeBounds, BoundsOf
  <1>2. starts # {} /\ starts \subseteq TimeStamp
    <2>1. starts # {}
      BY <1>1
    <2>2. ASSUME NEW t \in starts PROVE t \in TimeStamp
      <3>1. PICK pv \in DOMAIN buffers : t = buffers[pv].start
        BY <1>0
      <3>2. buffers[pv] \in Buffer
        BY DEF TableTypeOK
      <3> QED
        BY <3>1, <3>2 DEF Buffer
    <2> QED
      BY <2>1, <2>2
  <1>3. Earliest(starts) \in starts
    BY <1>2, EarliestExists
  <1>4. TimeBounds.earliest_start \in TimeStamp
    BY <1>1, <1>2, <1>3
  <1>5. \E pv \in DOMAIN buffers :
          ~Empty(buffers[pv]) /\ TimeBounds.earliest_start = buffers[pv].start
    <2>1. PICK s \in spans : TimeBounds.earliest_start = s.start
      BY <1>1, <1>3
    <2>2. PICK pv \in filled : s.start = buffers[pv].start
      BY <1>0
    <2> QED
      BY <2>1, <2>2
  <1>6. [ts   |-> TimeBounds.earliest_start.ts + Period,
         utag |-> TimeBounds.earliest_start.utag] \in TimeStamp
    <2> DEFINE first == TimeBounds.earliest_start
    <2>1. first.ts \in Nat /\ first.utag \in Nat
      BY <1>4 DEF TimeStamp
    <2>2. first.ts + Period \in Nat
      BY <2>1, PeriodAssumption
    <2> QED
      BY <2>1, <2>2 DEF TimeStamp
  <1> QED
    BY <1>4, <1>5, <1>6 DEF Window

LEMMA DeliverKeepsTypes ==
    ASSUME ReactorTypes, NEW pv \in PVs, NEW u \in NextUpdates(pv), Deliver(pv, u)
    PROVE  ReactorTypes'
  <1> USE DEF ReactorTypes
  <1>1. u \in Update /\ Len(u.rows) \in Nat
    BY NextUpdatesType, FeedsAssumption DEF TypeOK
  <1>2. TableTypeOK' /\ UNCHANGED <<extracting, todo, feed, rpc, bounds, value, pv_>>
    BY <1>1, PushKeepsTypes DEF Deliver, Push, TypeOK, extractVars, reactorVars
  <1>3. sent' \in [PVs -> Nat]
    <2>1. Len(feed[pv]) \in Nat /\ sent[pv] \in Nat
      BY FeedsAssumption DEF TypeOK
    <2>2. \/ sent' = [sent EXCEPT ![pv] = sent[pv] + Len(u.rows)]
          \/ sent' = [sent EXCEPT ![pv] = Len(feed[pv])]
          \/ sent' = sent
      BY DEF Deliver, PushOutcome
    <2> QED
      BY <1>1, <2>1, <2>2 DEF TypeOK
  <1>4. running' \in [Threads -> BOOLEAN] /\ dead' \in Seq(Threads)
    <2>1. UNCHANGED runnableVars \/ Stopped("listener")
      BY DEF Deliver, PushOutcome
    <2> QED
      BY <2>1, StoppedType DEF TypeOK, runnableVars, Threads
  <1> QED
    BY <1>2, <1>3, <1>4 DEF TypeOK, ReactorTypeOK, Phase, IsTable

LEMMA ReactorKeepsTypes ==
    ASSUME ReactorTypes, ReactorNext, UNCHANGED <<feed, sent>>
    PROVE  ReactorTypes'
  <1> USE DEF ReactorTypes
  <1>0. /\ Stopped("reactor") => running' \in [Threads -> BOOLEAN] /\ dead' \in Seq(Threads)
        /\ UNCHANGED runnableVars => running' \in [Threads -> BOOLEAN] /\ dead' \in Seq(Threads)
    BY StoppedType DEF TypeOK, runnableVars, Threads
  <1>a. UNCHANGED tableVars => TableTypeOK'
    BY DEF TypeOK, TableTypeOK, IsTable, Extracted, tableVars, extractVars
  <1>b. IsTable(NoTable) /\ NoWindow \in Window
    BY DEF IsTable, NoTable, NoWindow, Window, Untagged, TimeStamp
  <1>1. CASE Prepare
    <2>1. TableTypeOK' /\ UNCHANGED <<extracting, todo, bounds, value, pv_>> /\ ~extracting
      BY <1>1, ForceInitializeKeepsTypes DEF Prepare, ForceInitialize, TypeOK, extractVars
    <2>2. rpc' \in {"ended", "open"} /\ (Stopped("reactor") \/ UNCHANGED runnableVars)
      BY <1>1 DEF Prepare
    <2> QED
      BY <1>0, <2>1, <2>2 DEF TypeOK, ReactorTypeOK, Phase, IsTable
  <1>2. CASE OpenPV
    BY <1>2, <1>0, <1>a, <1>b DEF OpenPV, TypeOK, ReactorTypeOK, Phase, IsTable, tableVars, extractVars
  <1>3. CASE TimeOut
    BY <1>3, <1>0, <1>a DEF TimeOut, TypeOK, ReactorTypeOK, Phase, IsTable, tableVars, extractVars
  <1>4. CASE StopRequested
    BY <1>4, <1>0, <1>a DEF StopRequested, TypeOK, ReactorTypeOK, Phase, IsTable, tableVars, extractVars
  <1>5. CASE ChooseWindow
    <2>1. bounds' \in Window
      BY <1>5, BoundsType DEF ChooseWindow, TypeOK
    <2> QED
      BY <1>5, <1>0, <1>a, <2>1 DEF ChooseWindow, TypeOK, ReactorTypeOK, Phase, IsTable, tableVars, extractVars
  <1>6. CASE CallExtract
    <2>1. TableTypeOK'
      BY <1>6, BeginExtractKeepsTypes DEF CallExtract, TypeOK, ReactorTypeOK
    <2> QED
      BY <1>6, <1>0, <2>1 DEF CallExtract, BeginExtract, TypeOK, ReactorTypeOK, Phase, IsTable
  <1>7. CASE InExtract
    <2>1. TableTypeOK'
      BY <1>7, ExtractStepKeepsTypes DEF InExtract, TypeOK
    <2>2. extracting /\ UNCHANGED <<extracting, rpc, bounds, value, pv_>>
      BY <1>7 DEF InExtract, ExtractStep, RowMatches, RowAhead, RowBehind, TableEnds, BufferEnds,
                  Proceeding, Consuming, reactorVars
    <2> QED
      BY <1>7, <1>0, <2>1, <2>2 DEF InExtract, TypeOK, ReactorTypeOK, Phase, IsTable
  <1>8. CASE ExtractReturns
    <2>1. TableTypeOK'
      BY <1>8, <1>b DEF ExtractReturns, EndExtract, TypeOK, TableTypeOK, IsTable, Extracted, Cursor
    <2> QED
      BY <1>8, <1>0, <2>1 DEF ExtractReturns, EndExtract, TypeOK, TableTypeOK, ReactorTypeOK, Phase, IsTable
  <1>9. CASE Post
    BY <1>9, <1>0, <1>a, <1>b DEF Post, TypeOK, ReactorTypeOK, Phase, IsTable, tableVars, extractVars
  <1>10. CASE PostToClosed
    BY <1>10, <1>0, <1>a DEF PostToClosed, TypeOK, ReactorTypeOK, Phase, IsTable, tableVars, extractVars
  <1> QED
    BY <1>1, <1>2, <1>3, <1>4, <1>5, <1>6, <1>7, <1>8, <1>9, <1>10 DEF ReactorNext

LEMMA TypesInvariant == Spec => []ReactorTypes
  <1>1. Init => ReactorTypes
    BY TypeInit DEF ReactorTypes
  <1>2. ReactorTypes /\ [Next]_mergeVars => ReactorTypes'
    <2> SUFFICES ASSUME ReactorTypes, [Next]_mergeVars PROVE ReactorTypes'
      OBVIOUS
    <2>1. ASSUME NEW pv \in PVs, NEW u \in NextUpdates(pv), Deliver(pv, u)
          PROVE  ReactorTypes'
      BY <2>1, DeliverKeepsTypes
    <2>2. CASE ReactorNext /\ UNCHANGED <<feed, sent>>
      BY <2>2, ReactorKeepsTypes
    <2>3. CASE UNCHANGED mergeVars
      BY <2>3 DEF ReactorTypes, TypeOK, ReactorTypeOK, TableTypeOK, Phase, IsTable, Extracted,
                  mergeVars, reactorVars, runnableVars, tableVars, extractVars
    <2> QED
      BY <2>1, <2>2, <2>3 DEF Next
  <1> QED
    BY <1>1, <1>2, PTL DEF Spec

\* Every variable keeps to its type: TypeOK of Merge, whatever the listener
\* delivers and however it interleaves with the reactor.
THEOREM TypeCorrect == Spec => []TypeOK
  <1>1. ReactorTypes => TypeOK
    BY DEF ReactorTypes
  <1> QED
    BY <1>1, TypesInvariant, PTL

-----------------------------------------------------------------------------
(***************************************************************************)
(* The merged type.  Once it is built no buffer is without a type, so no   *)
(* push can change the type of a buffer any more.                          *)
(***************************************************************************)
Described ==
    /\ type_.built => \A pv \in DOMAIN buffers : Initialized(buffers[pv])
    /\ TypeDescribesBuffers

\* Steps that leave the merged type and the types of the buffers alone.
LEMMA SameTypes ==
    ASSUME Described, type_' = type_, DOMAIN buffers' = DOMAIN buffers,
           \A pv \in DOMAIN buffers : buffers'[pv].type = buffers[pv].type,
           rpc' \in {"prepare", "ended"} \/ rpc \notin {"prepare", "ended"},
           extracting' => DOMAIN cells' = DOMAIN buffers
    PROVE  Described'
  BY DEF Described, TypeDescribesBuffers, Initialized

\* initialize(), called with buffers of which those that had a type keep it.
LEMMA TypeOverDescribes ==
    ASSUME Described, NEW bufs, DOMAIN bufs \subseteq DOMAIN buffers,
           type_.built => /\ DOMAIN bufs = DOMAIN buffers
                          /\ \A pv \in DOMAIN bufs : bufs[pv].type = buffers[pv].type
    PROVE  LET t == TypeOver(bufs)
           IN  t.built => /\ t.cols = [pv \in DOMAIN bufs |-> bufs[pv].type]
                          /\ \A pv \in DOMAIN bufs : Initialized(bufs[pv])
  <1>1. CASE type_.built
    BY <1>1 DEF TypeOver, Described, TypeDescribesBuffers, Initialized
  <1>2. CASE ~type_.built
    BY <1>2 DEF TypeOver
  <1> QED
    BY <1>1, <1>2

LEMMA PushDescribes ==
    ASSUME ReactorTypes, Described, NEW pv \in PVs, NEW u \in Update, Push(pv, u),
           rpc' = rpc
    PROVE  Described'
  <1>0. UNCHANGED <<extracting, cells>> /\ ~extracting
    BY DEF Push, extractVars
  <1>1. CASE pv \notin DOMAIN buffers
    BY <1>0, <1>1, SameTypes DEF Push
  <1>2. CASE pv \in DOMAIN buffers
    <2>1. PICK c \in PushResults(buffers[pv], u) : buffers' = [buffers EXCEPT ![pv] = c]
      BY <1>2 DEF Push
    <2>2. c.type = TypeAfter(buffers[pv], u)
      BY <1>2, PushType DEF ReactorTypes, TypeOK, TableTypeOK
    <2>3. DOMAIN buffers' = DOMAIN buffers
      BY <2>1
    <2>4. type_.built => \A q \in DOMAIN buffers : buffers'[q].type = buffers[q].type
      BY <1>2, <2>1, <2>2 DEF Described, Initialized, TypeAfter
    <2>5. type_.built => type_' = type_
      BY <1>2 DEF Push, TypeOver
    <2>6. CASE type_.built
      BY <1>0, <2>3, <2>4, <2>5, <2>6, SameTypes DEF Described, TypeDescribesBuffers
    <2>7. CASE ~type_.built /\ Accepts(buffers[pv], u)
      <3>1. type_' = TypeOver(buffers')
        BY <1>2, <2>7 DEF Push
      <3>2. type_'.built => /\ type_'.cols = [q \in DOMAIN buffers' |-> buffers'[q].type]
                            /\ \A q \in DOMAIN buffers' : Initialized(buffers'[q])
        BY <2>3, <2>7, <3>1, TypeOverDescribes
      <3> QED
        BY <1>0, <2>3, <2>7, <3>2 DEF Described, TypeDescribesBuffers
    <2>8. CASE ~type_.built /\ ~Accepts(buffers[pv], u)
      <3>1. type_' = type_
        BY <1>2, <2>8 DEF Push
      <3> QED
        BY <1>0, <2>3, <2>8, <3>1 DEF Described, TypeDescribesBuffers
    <2> QED
      BY <2>6, <2>7, <2>8
  <1> QED
    BY <1>1, <1>2

LEMMA PrepareDescribes ==
    ASSUME ReactorTypes, Described, Prepare
    PROVE  Described'
  <1>1. /\ ~extracting /\ extracting' = extracting
        /\ DOMAIN buffers' = {p \in DOMAIN buffers : Initialized(buffers[p])}
        /\ \A pv \in DOMAIN buffers' : buffers'[pv] = buffers[pv]
        /\ type_' = TypeOver(buffers')
    BY DEF Prepare, ForceInitialize
  <1>2. type_.built => DOMAIN buffers' = DOMAIN buffers
    BY <1>1 DEF Described
  <1>3. type_'.built => /\ type_'.cols = [q \in DOMAIN buffers' |-> buffers'[q].type]
                        /\ \A q \in DOMAIN buffers' : Initialized(buffers'[q])
    BY <1>1, <1>2, TypeOverDescribes
  <1>4. type_'.built
    BY <1>1 DEF TypeOver
  <1>5. DOMAIN buffers' # {} \/ rpc' = "ended"
    BY DEF Prepare
  <1> QED
    BY <1>1, <1>3, <1>4, <1>5 DEF Described, TypeDescribesBuffers

LEMMA ReactorDescribes ==
    ASSUME ReactorTypes, Described, ReactorNext
    PROVE  Described'
  <1>0. UNCHANGED tableVars => /\ type_' = type_ /\ buffers' = buffers
                               /\ extracting' = extracting /\ cells' = cells
    BY DEF tableVars, extractVars
  <1>1. CASE Prepare
    BY <1>1, PrepareDescribes
  <1>3. CASE OpenPV \/ TimeOut \/ StopRequested \/ ChooseWindow \/ Post \/ PostToClosed
    <2>1. UNCHANGED tableVars /\ (rpc' = "ended" \/ rpc \notin {"prepare", "ended"})
      BY <1>3 DEF OpenPV, TimeOut, StopRequested, ChooseWindow, Post, PostToClosed
    <2>2. extracting => DOMAIN cells = DOMAIN buffers
      BY DEF Described, TypeDescribesBuffers
    <2> QED
      BY <1>0, <2>1, <2>2, SameTypes
  <1>4. CASE CallExtract
    BY <1>4, SameTypes DEF CallExtract, BeginExtract
  <1>5. CASE InExtract
    <2>1. type_' = type_ /\ rpc' = rpc /\ rpc = "extracting" /\ DOMAIN cells' = DOMAIN cells
      BY <1>5 DEF InExtract, ExtractStep, RowMatches, RowAhead, RowBehind, TableEnds, BufferEnds,
                  SetCell, reactorVars
    <2>2. CASE BufferEnds
      <3>1. PICK c \in ConsumeResults(buffers[cur], cursor) : buffers' = [buffers EXCEPT ![cur] = c]
        BY <2>2 DEF BufferEnds
      <3>2. cur \in DOMAIN buffers /\ c.type = buffers[cur].type
        BY <2>2, ConsumeType DEF BufferEnds, Consuming, ReactorTypes, TypeOK, TableTypeOK
      <3>3. DOMAIN buffers' = DOMAIN buffers /\ \A pv \in DOMAIN buffers : buffers'[pv].type = buffers[pv].type
        BY <3>1, <3>2
      <3>4. DOMAIN cells = DOMAIN buffers
        BY <2>2 DEF BufferEnds, Consuming, Described, TypeDescribesBuffers
      <3> QED
        BY <2>1, <3>3, <3>4, SameTypes
    <2>3. CASE ~BufferEnds
      <3>1. buffers' = buffers /\ extracting
        BY <1>5, <2>3 DEF InExtract, ExtractStep, RowMatches, RowAhead, RowBehind, TableEnds,
                          Proceeding, Consuming
      <3>2. DOMAIN cells = DOMAIN buffers
        BY <3>1 DEF Described, TypeDescribesBuffers
      <3> QED
        BY <2>1, <3>1, <3>2, SameTypes
    <2> QED
      BY <2>2, <2>3
  <1>6. CASE ExtractReturns
    BY <1>6, SameTypes DEF ExtractReturns, EndExtract
  <1> QED
    BY <1>1, <1>3, <1>4, <1>5, <1>6 DEF ReactorNext

LEMMA DescribedInvariant == Spec => []Described
  <1>1. Init => Described
    BY DEF Init, TableInit, ReactorInit, NotBuilt, Described, TypeDescribesBuffers
  <1>2. ReactorTypes /\ Described /\ [Next]_mergeVars => Described'
    <2> SUFFICES ASSUME ReactorTypes, Described, [Next]_mergeVars PROVE Described'
      OBVIOUS
    <2>1. ASSUME NEW pv \in PVs, NEW u \in NextUpdates(pv), Deliver(pv, u)
          PROVE  Described'
      <3>1. u \in Update
        BY NextUpdatesType DEF ReactorTypes, TypeOK
      <3> QED
        BY <2>1, <3>1, PushDescribes DEF Deliver, reactorVars
    <2>2. CASE ReactorNext
      BY <2>2, ReactorDescribes
    <2>3. CASE UNCHANGED mergeVars
      BY <2>3 DEF Described, TypeDescribesBuffers, mergeVars, reactorVars, tableVars, extractVars
    <2> QED
      BY <2>1, <2>2, <2>3 DEF Next
  <1> QED
    BY <1>1, <1>2, TypesInvariant, PTL DEF Spec

\* TypeDescribesBuffers of Merge: from the end of prepare() on the merged type
\* is that of the buffers that were kept, and no update can change that.
THEOREM TypeIsOfBuffers == Spec => []TypeDescribesBuffers
  <1>1. Described => TypeDescribesBuffers
    BY DEF Described
  <1> QED
    BY <1>1, DescribedInvariant, PTL

-----------------------------------------------------------------------------
(***************************************************************************)
(* The cached times, as long as no update without rows is sent.            *)
(***************************************************************************)
Exact ==
    /\ \A pv \in DOMAIN buffers : Sound(buffers[pv])
    /\ todo # {} => IsPosition(buffers[cur], cursor)

\* The loop over a buffer starts at a row of it, or behind the last table.
LEMMA FirstRowIsPosition ==
    ASSUME NEW b \in Buffer, Sound(b)
    PROVE  IsPosition(b, FirstRow(b))
  <1>1. b.tables \in Seq(Seq(Row)) /\ b.inner \in Nat /\ Len(b.tables) \in Nat
    BY DEF Buffer
  <1>2. CASE b.tables = <<>>
    BY <1>1, <1>2 DEF Sound, Positioned, IsPosition, FirstRow
  <1>3. CASE b.tables # <<>>
    <2>1. Len(b.tables) > 0 /\ b.tables[1] \in Seq(Row)
      BY <1>1, <1>3
    <2> QED
      BY <1>1, <1>3, <2>1 DEF Sound, Positioned, IsPosition, FirstRow
  <1> QED
    BY <1>2, <1>3

LEMMA NextIsPosition ==
    ASSUME NEW b \in Buffer, NEW p \in Cursor, IsPosition(b, p)
    PROVE  /\ AtRow(b, p) => IsPosition(b, NextRow(p))
           /\ AtTableEnd(b, p) => IsPosition(b, NextTable(p))
  <1>1. b.tables \in Seq(Seq(Row)) /\ p.outer \in Nat /\ p.inner \in Nat /\ Len(b.tables) \in Nat
    BY DEF Buffer, Cursor
  <1>2. \A k \in 1 .. Len(b.tables) : Len(b.tables[k]) \in Nat
    <2> TAKE k \in 1 .. Len(b.tables)
    <2>1. b.tables[k] \in Seq(Row)
      BY <1>1, ElementOfSeq
    <2> QED
      BY <2>1
  <1>3. AtRow(b, p) => IsPosition(b, NextRow(p))
    BY <1>1, <1>2 DEF AtRow, AtEnd, IsPosition, NextRow
  <1>4. AtTableEnd(b, p) => IsPosition(b, NextTable(p))
    BY <1>1, <1>2 DEF AtTableEnd, AtRow, AtEnd, IsPosition, NextTable
  <1> QED
    BY <1>3, <1>4

\* Starting on the next buffer, none of those left to do being changed.
LEMMA StartBufferPosition ==
    ASSUME NEW bufs, NEW pvs, StartBuffer(bufs, pvs),
           \A pv \in pvs : bufs[pv] \in Buffer /\ Sound(bufs[pv]) /\ buffers'[pv] = bufs[pv]
    PROVE  todo' # {} => IsPosition(buffers'[cur'], cursor')
  <1> SUFFICES ASSUME todo' # {} PROVE IsPosition(buffers'[cur'], cursor')
    OBVIOUS
  <1>1. pvs # {} /\ cur' = FirstOf(pvs) /\ cursor' = FirstRow(bufs[cur'])
    BY DEF StartBuffer
  <1>2. cur' \in pvs
    BY <1>1 DEF FirstOf
  <1> QED
    BY <1>1, <1>2, FirstRowIsPosition

LEMMA DeliverKeepsExact ==
    ASSUME 0 \notin Sizes, ReactorTypes, Exact,
           NEW pv \in PVs, NEW u \in NextUpdates(pv), Deliver(pv, u)
    PROVE  Exact'
  <1>1. u \in Update /\ Len(u.rows) \in Sizes
    BY NextUpdatesType DEF ReactorTypes, TypeOK
  <1>2. Len(u.rows) > 0
    BY <1>1, FeedsAssumption
  <1>3. Push(pv, u) /\ todo = {} /\ todo' = {}
    BY DEF Deliver, Push, extractVars, ReactorTypes, Phase
  <1>4. CASE pv \notin DOMAIN buffers
    BY <1>3, <1>4 DEF Push, Exact
  <1>5. CASE pv \in DOMAIN buffers
    <2>1. PICK c \in PushResults(buffers[pv], u) : buffers' = [buffers EXCEPT ![pv] = c]
      BY <1>3, <1>5 DEF Push
    <2>2. Sound(c)
      BY <1>1, <1>2, <1>5, PushSound DEF Exact, ReactorTypes, TypeOK, TableTypeOK
    <2> QED
      BY <1>3, <2>1, <2>2 DEF Exact
  <1> QED
    BY <1>4, <1>5

LEMMA ReactorKeepsExact ==
    ASSUME ReactorTypes, Exact, ReactorNext
    PROVE  Exact'
  <1> USE DEF ReactorTypes, TypeOK, TableTypeOK
  <1>1. CASE Prepare
    BY <1>1 DEF Prepare, ForceInitialize, extractVars, Exact, Phase
  <1>2. CASE OpenPV \/ TimeOut \/ StopRequested \/ ChooseWindow \/ Post \/ PostToClosed
    BY <1>2 DEF OpenPV, TimeOut, StopRequested, ChooseWindow, Post, PostToClosed,
                tableVars, extractVars, Exact
  <1>3. CASE CallExtract
    <2>1. buffers' = buffers /\ StartBuffer(buffers, DOMAIN buffers)
      BY <1>3 DEF CallExtract, BeginExtract
    <2> QED
      BY <2>1, StartBufferPosition DEF Exact
  <1>4. CASE InExtract
    <2> USE DEF Exact
    <2>0. Consuming /\ buffers[cur] \in Buffer /\ IsPosition(buffers[cur], cursor)
      BY <1>4 DEF InExtract, ExtractStep, RowMatches, RowAhead, RowBehind, TableEnds, BufferEnds,
                  Proceeding, Consuming
    <2>1. CASE RowMatches \/ RowAhead \/ RowBehind
      <3>1. AtRow(buffers[cur], cursor) /\ cursor' = NextRow(cursor) /\ UNCHANGED <<buffers, todo, cur>>
        BY <2>1 DEF RowMatches, RowAhead, RowBehind, Proceeding
      <3> QED
        BY <2>0, <3>1, NextIsPosition
    <2>2. CASE TableEnds
      BY <2>0, <2>2, NextIsPosition DEF TableEnds
    <2>3. CASE BufferEnds
      <3>1. PICK c \in ConsumeResults(buffers[cur], cursor) : buffers' = [buffers EXCEPT ![cur] = c]
        BY <2>3 DEF BufferEnds
      <3>2. cur \in DOMAIN buffers
        BY <2>0 DEF Consuming
      <3>3. Sound(c)
        BY <2>0, <2>3, <3>2, ConsumeSound DEF BufferEnds
      <3>4. \A pv \in DOMAIN buffers' : Sound(buffers'[pv])
        BY <3>1, <3>3
      <3>5. StartBuffer(buffers, todo \ {cur})
        BY <2>3 DEF BufferEnds
      <3>6. \A pv \in todo \ {cur} : /\ buffers[pv] \in Buffer /\ Sound(buffers[pv])
                                     /\ buffers'[pv] = buffers[pv]
        BY <3>1
      <3> QED
        BY <3>4, <3>5, <3>6, StartBufferPosition
    <2> QED
      BY <1>4, <2>1, <2>2, <2>3 DEF InExtract, ExtractStep
  <1>5. CASE ExtractReturns
    BY <1>5 DEF ExtractReturns, EndExtract, Exact
  <1> QED
    BY <1>1, <1>2, <1>3, <1>4, <1>5 DEF ReactorNext

LEMMA ExactInvariant ==
    ASSUME 0 \notin Sizes
    PROVE  Spec => []Exact
  <1>1. Init => Exact
    BY DEF Init, TableInit, Exact, NewBuffer, Sound, Positioned
  <1>2. ReactorTypes /\ Exact /\ [Next]_mergeVars => Exact'
    <2> SUFFICES ASSUME ReactorTypes, Exact, [Next]_mergeVars PROVE Exact'
      OBVIOUS
    <2>1. ASSUME NEW pv \in PVs, NEW u \in NextUpdates(pv), Deliver(pv, u)
          PROVE  Exact'
      BY <2>1, DeliverKeepsExact
    <2>2. CASE ReactorNext
      BY <2>2, ReactorKeepsExact
    <2>3. CASE UNCHANGED mergeVars
      BY <2>3 DEF Exact, mergeVars, tableVars, extractVars
    <2> QED
      BY <2>1, <2>2, <2>3 DEF Next
  <1> QED
    BY <1>1, <1>2, TypesInvariant, PTL DEF Spec

\* CachedTimesAreExact of Merge: when every update has a row, the unchecked
\* reads of update_timestamps are of the row they are meant to be of.
THEOREM CachedTimesCorrect ==
    ASSUME 0 \notin Sizes
    PROVE  Spec => []CachedTimesAreExact
  <1>1. Exact => CachedTimesAreExact
    BY DEF Exact, Sound, Positioned, CachedTimesAreExact, Empty
  <1> QED
    BY <1>1, ExactInvariant, PTL

-----------------------------------------------------------------------------
(***************************************************************************)
(* The window.  It is chosen from one state of the buffers and used in a   *)
(* later one; pushes in between only add rows.                             *)
(***************************************************************************)
RowsInWindow ==
    \E pv \in DOMAIN buffers : StampsBetween(buffers[pv], bounds.start, bounds.end) # {}

WindowHolds ==
    /\ rpc = "extract" => RowsInWindow
    /\ rpc = "extracting" => stamps # {}
    /\ rpc = "post" => value.stamps # {}

\* A stamp is in the window of a period that starts at its time.
LEMMA WindowOfRow ==
    ASSUME NEW s \in TimeStamp
    PROVE  /\ LessEq(Untagged(s.ts), s)
           /\ Less(s, [ts |-> Untagged(s.ts).ts + Period, utag |-> Untagged(s.ts).utag])
  <1>1. s.ts \in Nat /\ s.utag \in Nat /\ s = [ts |-> s.ts, utag |-> s.utag]
    BY DEF TimeStamp
  <1>2. LessEq(Untagged(s.ts), s)
    BY <1>1 DEF LessEq, Less, Untagged
  <1>3. s.ts < s.ts + Period
    BY <1>1, PeriodAssumption
  <1> QED
    BY <1>2, <1>3 DEF Less, Untagged

\* The tables that push leaves hold at least the stamps they held.
LEMMA PushKeepsStamps ==
    ASSUME NEW b \in Buffer, NEW u \in Update, NEW c \in PushResults(b, u), NEW start, NEW end
    PROVE  StampsBetween(b, start, end) \subseteq StampsBetween(c, start, end)
  <1>1. b.tables \in Seq(Seq(Row)) /\ u.rows \in Seq(Row)
    BY DEF Buffer, Update
  <1>2. c.tables = IF Accepts(b, u) THEN Append(b.tables, u.rows) ELSE b.tables
    BY PushType
  <1>3. \A k \in DOMAIN b.tables : k \in DOMAIN c.tables /\ c.tables[k] = b.tables[k]
    BY <1>1, <1>2
  <1>4. {b.tables[k] : k \in DOMAIN b.tables} \subseteq {c.tables[k] : k \in DOMAIN c.tables}
    BY <1>3
  <1> QED
    BY <1>4 DEF StampsBetween

LEMMA DeliverKeepsWindow ==
    ASSUME ReactorTypes, WindowHolds, NEW pv \in PVs, NEW u \in NextUpdates(pv), Deliver(pv, u)
    PROVE  WindowHolds'
  <1>1. u \in Update /\ Push(pv, u) /\ UNCHANGED <<rpc, bounds, value, stamps>>
    BY NextUpdatesType DEF ReactorTypes, TypeOK, Deliver, Push, reactorVars, extractVars
  <1>2. ASSUME RowsInWindow PROVE RowsInWindow'
    <2>1. CASE pv \notin DOMAIN buffers
      BY <1>1, <1>2, <2>1 DEF Push, RowsInWindow
    <2>2. CASE pv \in DOMAIN buffers
      <3>1. PICK c \in PushResults(buffers[pv], u) : buffers' = [buffers EXCEPT ![pv] = c]
        BY <1>1, <2>2 DEF Push
      <3>2. StampsBetween(buffers[pv], bounds.start, bounds.end) \subseteq
              StampsBetween(c, bounds.start, bounds.end)
        BY <1>1, <2>2, PushKeepsStamps DEF ReactorTypes, TypeOK, TableTypeOK
      <3>3. PICK q \in DOMAIN buffers : StampsBetween(buffers[q], bounds.start, bounds.end) # {}
        BY <1>2 DEF RowsInWindow
      <3>4. StampsBetween(buffers'[q], bounds'.start, bounds'.end) # {}
        BY <1>1, <3>1, <3>2, <3>3
      <3> QED
        BY <3>1, <3>4 DEF RowsInWindow
    <2> QED
      BY <2>1, <2>2
  <1> QED
    BY <1>1, <1>2 DEF WindowHolds

LEMMA ChooseWindowHolds ==
    ASSUME ReactorTypes, Exact, ChooseWindow
    PROVE  RowsInWindow'
  <1>1. PICK pv \in DOMAIN buffers :
          ~Empty(buffers[pv]) /\ TimeBounds.earliest_start = buffers[pv].start
    BY BoundsType DEF ChooseWindow, ReactorTypes, TypeOK
  <1> DEFINE b == buffers[pv]
             front == b.tables[1]
             row == front[b.inner + 1]
             start == TimeBounds.earliest_start
  <1>2. b \in Buffer /\ b.tables # <<>> /\ Sound(b)
    BY <1>1 DEF Exact, ReactorTypes, TypeOK, TableTypeOK, Empty
  <1>3. b.tables \in Seq(Seq(Row)) /\ b.inner \in Nat /\ 1 \in DOMAIN b.tables
    BY <1>2 DEF Buffer
  <1>4. front \in Seq(Row) /\ b.inner < Len(front)
    BY <1>2, <1>3, ElementOfSeq DEF Sound, Positioned
  <1>5. row \in Row /\ b.inner + 1 \in DOMAIN front
    BY <1>3, <1>4, ElementOfSeq
  <1>6. start = Untagged(row.ts.ts)
    BY <1>1, <1>2 DEF Sound
  <1>7. bounds' = [start |-> start, end |-> [ts |-> start.ts + Period, utag |-> start.utag]]
        /\ buffers' = buffers
    BY DEF ChooseWindow, tableVars
  <1>8. row.ts \in TimeStamp
    BY <1>5 DEF Row
  <1>9. LessEq(bounds'.start, row.ts) /\ Less(row.ts, bounds'.end)
    BY <1>6, <1>7, <1>8, WindowOfRow
  <1>10. row \in UNION {{t[i] : i \in DOMAIN t} : t \in {b.tables[k] : k \in DOMAIN b.tables}}
    <2>1. front \in {b.tables[k] : k \in DOMAIN b.tables}
      BY <1>3
    <2>2. row \in {front[i] : i \in DOMAIN front}
      BY <1>5
    <2> HIDE DEF front, row
    <2> QED
      BY <2>1, <2>2
  <1>11. row.ts \in StampsBetween(b, bounds'.start, bounds'.end)
    <2> HIDE DEF row
    <2> QED
      BY <1>9, <1>10 DEF StampsBetween
  <1> QED
    BY <1>7, <1>11 DEF RowsInWindow

LEMMA ReactorKeepsWindow ==
    ASSUME ReactorTypes, Exact, WindowHolds, ReactorNext
    PROVE  WindowHolds'
  <1>1. CASE ChooseWindow
    BY <1>1, ChooseWindowHolds DEF ChooseWindow, WindowHolds
  <1>2. CASE CallExtract
    <2>1. stamps' = UNION {StampsBetween(buffers[pv], bounds.start, bounds.end) : pv \in DOMAIN buffers}
      BY <1>2 DEF CallExtract, BeginExtract
    <2>2. RowsInWindow
      BY <1>2 DEF CallExtract, WindowHolds
    <2>3. stamps' # {}
      BY <2>1, <2>2 DEF RowsInWindow
    <2> QED
      BY <1>2, <2>3 DEF CallExtract, WindowHolds
  <1>3. CASE InExtract
    BY <1>3 DEF InExtract, ExtractStep, RowMatches, RowAhead, RowBehind, TableEnds, BufferEnds,
                reactorVars, WindowHolds
  <1>4. CASE ExtractReturns
    BY <1>4 DEF ExtractReturns, Extracted, WindowHolds
  <1>5. CASE Prepare \/ OpenPV \/ TimeOut \/ StopRequested \/ Post \/ PostToClosed
    BY <1>5 DEF Prepare, OpenPV, TimeOut, StopRequested, Post, PostToClosed, WindowHolds
  <1> QED
    BY <1>1, <1>2, <1>3, <1>4, <1>5 DEF ReactorNext

LEMMA WindowInvariant ==
    ASSUME 0 \notin Sizes
    PROVE  Spec => []WindowHolds
  <1>1. Init => WindowHolds
    BY DEF Init, ReactorInit, WindowHolds
  <1>2. ReactorTypes /\ Exact /\ WindowHolds /\ [Next]_mergeVars => WindowHolds'
    <2> SUFFICES ASSUME ReactorTypes, Exact, WindowHolds, [Next]_mergeVars PROVE WindowHolds'
      OBVIOUS
    <2>1. ASSUME NEW pv \in PVs, NEW u \in NextUpdates(pv), Deliver(pv, u)
          PROVE  WindowHolds'
      BY <2>1, DeliverKeepsWindow
    <2>2. CASE ReactorNext
      BY <2>2, ReactorKeepsWindow
    <2>3. CASE UNCHANGED mergeVars
      BY <2>3 DEF WindowHolds, RowsInWindow, mergeVars, reactorVars, tableVars, extractVars
    <2> QED
      BY <2>1, <2>2, <2>3 DEF Next
  <1> QED
    BY <1>1, <1>2, TypesInvariant, ExactInvariant, PTL DEF Spec

\* NeverPostsEmpty of Merge: what extract() returns has a row, whatever was
\* pushed since its bounds were read.
THEOREM PostsRows ==
    ASSUME 0 \notin Sizes
    PROVE  Spec => []NeverPostsEmpty
  <1>1. WindowHolds => NeverPostsEmpty
    BY DEF WindowHolds, NeverPostsEmpty
  <1> QED
    BY <1>1, WindowInvariant, PTL

-----------------------------------------------------------------------------
(***************************************************************************)
(* The join.  What is buffered was sent, and a cell is only given the id of *)
(* a buffered row with its timestamp.                                      *)
(***************************************************************************)
Buffered(pv) ==
    UNION {{buffers[pv].tables[k][i] : i \in DOMAIN buffers[pv].tables[k]} :
              k \in DOMAIN buffers[pv].tables}

SentOnly ==
    /\ \A pv \in PVs : sent[pv] <= Len(feed[pv])
    /\ \A pv \in DOMAIN buffers : Buffered(pv) \subseteq RowsSent(pv)
    /\ Aligned(Extracted) /\ Aligned(value) /\ Aligned(pv_.table)

LEMMA DeliverKeepsSent ==
    ASSUME ReactorTypes, SentOnly, NEW pv \in PVs, NEW u \in NextUpdates(pv), Deliver(pv, u)
    PROVE  SentOnly'
  <1> USE DEF ReactorTypes, TypeOK
  <1>0. feed[pv] \in Seq(Row) /\ Len(feed[pv]) \in Nat /\ sent[pv] \in Nat
    BY FeedsAssumption
  <1>1. /\ u \in Update
        /\ Len(u.rows) \in Nat
        /\ sent[pv] + Len(u.rows) <= Len(feed[pv])
        /\ \A i \in DOMAIN u.rows : u.rows[i] = feed[pv][sent[pv] + i]
        /\ u.rows \in Seq(Row)
    BY NextUpdatesType, FeedsAssumption DEF Update
  <1>2. Push(pv, u) /\ UNCHANGED <<feed, stamps, cells, value, pv_>>
    BY DEF Deliver, Push, reactorVars, extractVars
  <1>3. /\ \A q \in PVs : sent[q] <= sent'[q] /\ sent'[q] <= Len(feed[q])
        /\ PushOutcome(pv, u) = "ok" => sent'[pv] = sent[pv] + Len(u.rows)
    <2>1. \/ PushOutcome(pv, u) = "ok" /\ sent' = [sent EXCEPT ![pv] = sent[pv] + Len(u.rows)]
          \/ PushOutcome(pv, u) # "ok" /\ sent' = [sent EXCEPT ![pv] = Len(feed[pv])]
          \/ PushOutcome(pv, u) # "ok" /\ sent' = sent
      BY DEF Deliver, PushOutcome
    <2> QED
      BY <1>0, <1>1, <2>1 DEF SentOnly
  <1>4. \A q \in PVs : RowsSent(q) \subseteq RowsSent(q)'
    <2> TAKE q \in PVs
    <2>1. sent[q] \in Nat /\ sent'[q] \in Nat
      BY DeliverKeepsTypes
    <2>2. 1 .. sent[q] \subseteq 1 .. sent'[q]
      BY <1>3, <2>1
    <2> QED
      BY <1>2, <2>2 DEF RowsSent
  <1>5. Aligned(Extracted)' /\ Aligned(value)' /\ Aligned(pv_.table)'
    BY <1>2, <1>4 DEF SentOnly, Aligned, Extracted, IsTable, TableTypeOK, ReactorTypeOK
  <1>6. ASSUME NEW q \in DOMAIN buffers'
        PROVE  Buffered(q)' \subseteq RowsSent(q)'
    <2>1. CASE buffers'[q] = buffers[q] /\ q \in DOMAIN buffers
      BY <1>4, <2>1 DEF Buffered, SentOnly, TableTypeOK
    <2>2. CASE ~(buffers'[q] = buffers[q] /\ q \in DOMAIN buffers)
      <3>1. pv \in DOMAIN buffers /\ q = pv
        BY <1>2, <2>2 DEF Push
      <3>2. PICK c \in PushResults(buffers[pv], u) : buffers' = [buffers EXCEPT ![pv] = c]
        BY <1>2, <3>1 DEF Push
      <3>3. c.tables = IF Accepts(buffers[pv], u) THEN Append(buffers[pv].tables, u.rows)
                                                  ELSE buffers[pv].tables
        BY <3>1, PushType, <1>1 DEF TableTypeOK
      <3>4. CASE ~Accepts(buffers[pv], u)
        BY <1>4, <3>1, <3>2, <3>3, <3>4 DEF Buffered, SentOnly
      <3>5. CASE Accepts(buffers[pv], u)
        <4>1. PushOutcome(pv, u) = "ok"
          BY <3>1, <3>5 DEF PushOutcome
        <4>2. \A i \in DOMAIN u.rows : u.rows[i] \in RowsSent(pv)'
          <5> TAKE i \in DOMAIN u.rows
          <5>1. sent[pv] + i \in 1 .. sent'[pv]
            BY <1>0, <1>1, <1>3, <4>1
          <5> QED
            BY <1>1, <1>2, <5>1 DEF RowsSent
        <4>3. buffers[pv].tables \in Seq(Seq(Row))
          BY <3>1 DEF TableTypeOK, Buffer
        <4>4. \A k \in DOMAIN c.tables : c.tables[k] = u.rows \/ \E j \in DOMAIN buffers[pv].tables :
                                                                  c.tables[k] = buffers[pv].tables[j]
          BY <1>1, <3>3, <3>5, <4>3
        <4>5. Buffered(pv) \subseteq RowsSent(pv)'
          BY <1>4, <3>1 DEF SentOnly
        <4> QED
          BY <3>1, <3>2, <4>2, <4>4, <4>5 DEF Buffered
      <3> QED
        BY <3>4, <3>5
    <2> QED
      BY <2>1, <2>2
  <1> QED
    BY <1>2, <1>3, <1>5, <1>6 DEF SentOnly

\* Writing the id of a buffered row into the cell of its timestamp.
LEMMA RowMatchesKeepsAligned ==
    ASSUME ReactorTypes, SentOnly, RowMatches, UNCHANGED <<feed, sent>>
    PROVE  Aligned(Extracted)'
  <1> USE DEF ReactorTypes, TypeOK, TableTypeOK
  <1>1. /\ cur \in DOMAIN buffers /\ buffers[cur] \in Buffer
        /\ AtRow(buffers[cur], cursor)
        /\ BufRow.ts = RowTs
        /\ cells' = [cells EXCEPT ![cur] = [@ EXCEPT ![RowTs] = BufRow.id]]
        /\ UNCHANGED stamps
    BY DEF RowMatches, Proceeding, Consuming, SetCell
  <1>2. BufRow \in Row /\ BufRow \in Buffered(cur)
    <2>1. /\ BufRow = RowAt(buffers[cur], cursor) /\ BufRow \in Row
          /\ cursor.outer + 1 \in DOMAIN buffers[cur].tables
          /\ cursor.inner + 1 \in DOMAIN buffers[cur].tables[cursor.outer + 1]
      BY <1>1, RowAtType DEF BufRow
    <2> QED
      BY <2>1 DEF RowAt, Buffered
  <1>3. [ts |-> RowTs, id |-> BufRow.id] \in RowsSent(cur)
    <2>1. BufRow = [ts |-> BufRow.ts, id |-> BufRow.id]
      BY <1>2 DEF Row
    <2> QED
      BY <1>1, <1>2, <2>1 DEF SentOnly
  <1>4. \A pv \in PVs : RowsSent(pv)' = RowsSent(pv)
    BY DEF RowsSent
  <1> SUFFICES ASSUME NEW pv \in DOMAIN cells', NEW s \in stamps',
                      cells'[pv][s] \notin {Invalid, Uninit}
               PROVE  [ts |-> s, id |-> cells'[pv][s]] \in RowsSent(pv)
    BY <1>1, <1>4 DEF Aligned, Extracted, IsTable
  <1>5. CASE pv = cur /\ s = RowTs
    BY <1>1, <1>3, <1>5 DEF IsTable, Extracted
  <1>6. CASE ~(pv = cur /\ s = RowTs)
    <2>1. pv \in DOMAIN cells /\ s \in stamps /\ cells'[pv][s] = cells[pv][s]
      BY <1>1, <1>6 DEF IsTable, Extracted
    <2> QED
      BY <2>1 DEF SentOnly, Aligned, Extracted
  <1> QED
    BY <1>5, <1>6

\* consume_each_row only drops tables.
LEMMA BufferEndsKeepsRows ==
    ASSUME ReactorTypes, BufferEnds, NEW pv \in DOMAIN buffers'
    PROVE  pv \in DOMAIN buffers /\ Buffered(pv)' \subseteq Buffered(pv)
  <1> USE DEF ReactorTypes, TypeOK, TableTypeOK
  <1>1. PICK c \in ConsumeResults(buffers[cur], cursor) : buffers' = [buffers EXCEPT ![cur] = c]
    BY DEF BufferEnds
  <1>2. CASE pv # cur
    BY <1>1, <1>2 DEF Buffered
  <1>3. CASE pv = cur
    <2> DEFINE b == buffers[cur]
               tail == SubSeq(b.tables, cursor.outer + 1, Len(b.tables))
    <2>1. b \in Buffer /\ cur \in DOMAIN buffers /\ cursor \in Cursor
      BY <1>1, <1>3
    <2>2. c.tables = tail
      BY <2>1, ConsumeType
    <2>3. /\ tail \in Seq(Seq(Row))
          /\ cursor.outer <= Len(b.tables) => Len(tail) = Len(b.tables) - cursor.outer
          /\ \A i \in 1 .. Len(tail) : /\ cursor.outer + i \in DOMAIN b.tables
                                       /\ tail[i] = b.tables[cursor.outer + i]
      BY <2>1, TailOfTables
    <2>4. \A k \in DOMAIN tail : \E j \in DOMAIN b.tables : tail[k] = b.tables[j]
      <3> HIDE DEF b, tail
      <3> SUFFICES ASSUME NEW k \in DOMAIN tail PROVE \E j \in DOMAIN b.tables : tail[k] = b.tables[j]
        OBVIOUS
      <3>1. k \in 1 .. Len(tail)
        BY <2>3
      <3> QED
        BY <2>3, <3>1
    <2> HIDE DEF tail
    <2> QED
      BY <1>1, <1>3, <2>1, <2>2, <2>4 DEF Buffered
  <1> QED
    BY <1>2, <1>3

LEMMA ReactorKeepsSent ==
    ASSUME ReactorTypes, SentOnly, ReactorNext, UNCHANGED <<feed, sent>>
    PROVE  SentOnly'
  <1>a. \A pv : RowsSent(pv)' = RowsSent(pv)
    BY DEF RowsSent
  <1>b. \A pv \in PVs : sent'[pv] <= Len(feed'[pv])
    BY DEF SentOnly
  <1>c. UNCHANGED buffers => \A pv \in DOMAIN buffers' : Buffered(pv)' \subseteq RowsSent(pv)'
    BY <1>a DEF SentOnly, Buffered
  <1>d. UNCHANGED <<stamps, cells>> => Aligned(Extracted)'
    BY <1>a DEF SentOnly, Aligned, Extracted
  <1>e. UNCHANGED value => Aligned(value)'
    BY <1>a DEF SentOnly, Aligned
  <1>f. UNCHANGED pv_ => Aligned(pv_.table)'
    BY <1>a DEF SentOnly, Aligned
  <1>g. value' = NoTable => Aligned(value)'
    BY DEF Aligned, NoTable
  <1>h. pv_'.table = NoTable => Aligned(pv_.table)'
    BY DEF Aligned, NoTable
  <1>1. CASE Prepare
    <2>1. /\ DOMAIN buffers' \subseteq DOMAIN buffers
          /\ \A pv \in DOMAIN buffers' : buffers'[pv] = buffers[pv]
          /\ UNCHANGED <<stamps, cells, value, pv_>>
      BY <1>1 DEF Prepare, ForceInitialize, extractVars
    <2>2. \A pv \in DOMAIN buffers' : Buffered(pv)' = Buffered(pv)
      BY <2>1 DEF Buffered
    <2>3. \A pv \in DOMAIN buffers' : Buffered(pv)' \subseteq RowsSent(pv)'
      BY <1>a, <2>1, <2>2 DEF SentOnly
    <2> QED
      BY <1>b, <1>d, <1>e, <1>f, <2>1, <2>3 DEF SentOnly
  <1>2. CASE OpenPV
    BY <1>2, <1>b, <1>c, <1>d, <1>e, <1>h DEF OpenPV, tableVars, extractVars, SentOnly
  <1>3. CASE Post
    <2>1. UNCHANGED <<buffers, stamps, cells>> /\ value' = NoTable /\ pv_'.table = value
      BY <1>3 DEF Post, tableVars, extractVars
    <2>2. Aligned(pv_.table)'
      BY <1>a, <2>1 DEF SentOnly, Aligned
    <2> QED
      BY <1>b, <1>c, <1>d, <1>g, <2>1, <2>2 DEF SentOnly
  <1>4. CASE TimeOut \/ StopRequested \/ ChooseWindow \/ PostToClosed
    <2>1. UNCHANGED <<buffers, stamps, cells, value, pv_>>
      BY <1>4 DEF TimeOut, StopRequested, ChooseWindow, PostToClosed, tableVars, extractVars
    <2> QED
      BY <1>b, <1>c, <1>d, <1>e, <1>f, <2>1 DEF SentOnly
  <1>5. CASE CallExtract
    <2>1. \A pv \in DOMAIN cells' : \A s \in stamps' : cells'[pv][s] = Uninit
      BY <1>5 DEF CallExtract, BeginExtract
    <2>2. Aligned(Extracted)'
      BY <2>1 DEF Aligned, Extracted
    <2>3. UNCHANGED <<buffers, value, pv_>>
      BY <1>5 DEF CallExtract, BeginExtract
    <2> QED
      BY <1>b, <1>c, <1>e, <1>f, <2>2, <2>3 DEF SentOnly
  <1>6. CASE InExtract
    <2>1. UNCHANGED <<value, pv_, stamps>>
      BY <1>6 DEF InExtract, ExtractStep, RowMatches, RowAhead, RowBehind, TableEnds, BufferEnds, reactorVars
    <2>2. IsTable(Extracted) /\ Aligned(Extracted)
      BY DEF ReactorTypes, TypeOK, TableTypeOK, SentOnly
    <2>3. Aligned(Extracted)'
      <3>1. CASE RowMatches
        BY <3>1, RowMatchesKeepsAligned
      <3>2. CASE RowAhead
        BY <1>a, <2>2, <3>2 DEF RowAhead, SetCell, Aligned, Extracted, IsTable
      <3>3. CASE RowBehind \/ TableEnds
        BY <1>d, <3>3 DEF RowBehind, TableEnds
      <3>4. CASE BufferEnds
        BY <1>a, <2>2, <3>4 DEF BufferEnds, Aligned, Extracted, IsTable
      <3> QED
        BY <1>6, <3>1, <3>2, <3>3, <3>4 DEF InExtract, ExtractStep
    <2>4. ASSUME NEW pv \in DOMAIN buffers'
          PROVE  Buffered(pv)' \subseteq RowsSent(pv)'
      <3>1. CASE BufferEnds
        <4>1. pv \in DOMAIN buffers /\ Buffered(pv)' \subseteq Buffered(pv)
          BY <3>1, BufferEndsKeepsRows
        <4> QED
          BY <1>a, <4>1 DEF SentOnly
      <3>2. CASE RowMatches \/ RowAhead \/ RowBehind \/ TableEnds
        BY <1>c, <3>2 DEF RowMatches, RowAhead, RowBehind, TableEnds
      <3> QED
        BY <1>6, <3>1, <3>2 DEF InExtract, ExtractStep
    <2> QED
      BY <1>b, <1>e, <1>f, <2>1, <2>3, <2>4 DEF SentOnly
  <1>7. CASE ExtractReturns
    <2>1. value' = Extracted /\ UNCHANGED <<buffers, pv_>> /\ stamps' = {}
      BY <1>7 DEF ExtractReturns, EndExtract
    <2>2. Aligned(value)'
      BY <1>a, <2>1 DEF SentOnly, Aligned
    <2>3. Aligned(Extracted)'
      BY <2>1 DEF Aligned, Extracted
    <2> QED
      BY <1>b, <1>c, <1>f, <2>1, <2>2, <2>3 DEF SentOnly
  <1> QED
    BY <1>1, <1>2, <1>3, <1>4, <1>5, <1>6, <1>7 DEF ReactorNext

LEMMA SentInvariant == Spec => []SentOnly
  <1>1. Init => SentOnly
    <2> SUFFICES ASSUME Init PROVE SentOnly
      OBVIOUS
    <2>1. \A pv \in PVs : sent[pv] <= Len(feed[pv])
      <3> TAKE pv \in PVs
      <3>1. feed[pv] \in Seq(Row) /\ sent[pv] = 0
        BY FeedsAssumption DEF Init
      <3> QED
        BY <3>1
    <2>2. \A pv \in DOMAIN buffers : buffers[pv].tables = <<>>
      BY DEF Init, TableInit, NewBuffer
    <2>3. \A pv \in DOMAIN buffers : Buffered(pv) = {}
      BY <2>2 DEF Buffered
    <2>4. Aligned(Extracted) /\ Aligned(value) /\ Aligned(pv_.table)
      BY DEF Init, TableInit, ReactorInit, NoTable, Aligned, Extracted
    <2> QED
      BY <2>1, <2>3, <2>4 DEF SentOnly
  <1>2. ReactorTypes /\ SentOnly /\ [Next]_mergeVars => SentOnly'
    <2> SUFFICES ASSUME ReactorTypes, SentOnly, [Next]_mergeVars PROVE SentOnly'
      OBVIOUS
    <2>1. ASSUME NEW pv \in PVs, NEW u \in NextUpdates(pv), Deliver(pv, u)
          PROVE  SentOnly'
      BY <2>1, DeliverKeepsSent
    <2>2. CASE ReactorNext /\ UNCHANGED <<feed, sent>>
      BY <2>2, ReactorKeepsSent
    <2>3. CASE UNCHANGED mergeVars
      <3>1. UNCHANGED <<feed, sent, buffers, stamps, cells, value, pv_>>
        BY <2>3 DEF mergeVars, reactorVars, tableVars, extractVars
      <3>2. \A pv : RowsSent(pv)' = RowsSent(pv) /\ Buffered(pv)' = Buffered(pv)
        BY <3>1 DEF RowsSent, Buffered
      <3> QED
        BY <3>1, <3>2 DEF SentOnly, Aligned, Extracted
    <2> QED
      BY <2>1, <2>2, <2>3 DEF Next
  <1> QED
    BY <1>1, <1>2, TypesInvariant, PTL DEF Spec

\* ValidMeansAligned of Merge: a valid cell of a published table is a row
\* that its PV sent with exactly that timestamp.
THEOREM PublishesWhatWasSent == Spec => []ValidMeansAligned
  <1>1. SentOnly => ValidMeansAligned
    BY DEF SentOnly, ValidMeansAligned
  <1> QED
    BY <1>1, SentInvariant, PTL

-----------------------------------------------------------------------------
(***************************************************************************)
(* The order of what is published.  A row is known by its number, and the  *)
(* numbers of what one PV sends increase.  Then they increase along its    *)
(* buffer too, whose front is only ever dropped; what was shown is before  *)
(* what is under the cursor, and that before what follows.                 *)
(***************************************************************************)

FeedsIncrease ==
    \A f \in Feeds, pv \in PVs : \A i, j \in 1 .. Len(f[pv]) : i < j => f[pv][i].id < f[pv][j].id

AllBefore(S, T) == \A i \in S, j \in T : i < j

Increasing(b) ==
    \A k, l \in DOMAIN b.tables :
      \A i \in DOMAIN b.tables[k], j \in DOMAIN b.tables[l] :
        k < l \/ (k = l /\ i < j) => b.tables[k][i].id < b.tables[l][j].id

PublishedIds(pv) == Shows(pv_.table, pv)
ExtractedIds(pv) == Shows(value, pv) \cup Shows(Extracted, pv)
BufferedIds(pv)  == {r.id : r \in Remaining(pv)}

OrderOf(pv) ==
    /\ AllBefore(PublishedIds(pv), ExtractedIds(pv) \cup BufferedIds(pv))
    /\ AllBefore(ExtractedIds(pv), BufferedIds(pv))

OrderInv ==
    /\ \A pv \in DOMAIN buffers : Increasing(buffers[pv]) /\ OrderOf(pv)
    /\ ~extracting => stamps = {}

-----------------------------------------------------------------------------
(***************************************************************************)
(* The rows of a buffer from a position on.                                *)
(***************************************************************************)

LEMMA InRowsFrom ==
    ASSUME NEW b, NEW c, NEW r
    PROVE  r \in RowsFrom(b, c) <=>
             \E k \in DOMAIN b.tables : \E i \in DOMAIN b.tables[k] :
               k > c.outer /\ (k > c.outer + 1 \/ i > c.inner) /\ r = b.tables[k][i]
  BY DEF RowsFrom

\* Passing a row leaves those that are after it.
LEMMA RowsAfter ==
    ASSUME NEW b \in Buffer, NEW c \in Cursor, AtRow(b, c), Increasing(b)
    PROVE  /\ RowAt(b, c) \in RowsFrom(b, c)
           /\ \A r \in RowsFrom(b, NextRow(c)) : r \in RowsFrom(b, c) /\ RowAt(b, c).id < r.id
  <1>1. /\ b.tables \in Seq(Seq(Row)) /\ c.outer \in Nat /\ c.inner \in Nat
        /\ c.outer + 1 \in DOMAIN b.tables /\ c.inner + 1 \in DOMAIN b.tables[c.outer + 1]
    BY RowAtType DEF Buffer, Cursor
  <1>2. \A k \in DOMAIN b.tables : k \in Nat /\ \A i \in DOMAIN b.tables[k] : i \in Nat
    <2> TAKE k \in DOMAIN b.tables
    <2>1. b.tables[k] \in Seq(Row) /\ k \in Nat
      BY <1>1
    <2> QED
      BY <2>1
  <1>3. RowAt(b, c) \in RowsFrom(b, c)
    <2>1. c.outer + 1 > c.outer /\ c.inner + 1 > c.inner
      BY <1>1
    <2>2. \E i \in DOMAIN b.tables[c.outer + 1] : i > c.inner /\ RowAt(b, c) = b.tables[c.outer + 1][i]
      BY <1>1, <2>1 DEF RowAt
    <2> QED
      BY <1>1, <2>1, <2>2, InRowsFrom
  <1>4. ASSUME NEW r \in RowsFrom(b, NextRow(c))
        PROVE  r \in RowsFrom(b, c) /\ RowAt(b, c).id < r.id
    <2>1. PICK k \in DOMAIN b.tables : \E i \in DOMAIN b.tables[k] :
                 k > c.outer /\ (k > c.outer + 1 \/ i > c.inner + 1) /\ r = b.tables[k][i]
      BY <1>4, InRowsFrom DEF NextRow
    <2>2. PICK i \in DOMAIN b.tables[k] :
                 k > c.outer /\ (k > c.outer + 1 \/ i > c.inner + 1) /\ r = b.tables[k][i]
      BY <2>1
    <2>3. k \in Nat /\ i \in Nat
      BY <1>2
    <2>4. r \in RowsFrom(b, c)
      <3>1. k > c.outer + 1 \/ i > c.inner
        BY <1>1, <2>2, <2>3
      <3> QED
        BY <2>2, <3>1, InRowsFrom
    <2>5. c.outer + 1 < k \/ (c.outer + 1 = k /\ c.inner + 1 < i)
      BY <1>1, <2>2, <2>3
    <2> QED
      BY <1>1, <2>2, <2>4, <2>5 DEF RowAt, Increasing
  <1> QED
    BY <1>3, <1>4

LEMMA RowsAfterTable ==
    ASSUME NEW b \in Buffer, NEW c \in Cursor
    PROVE  RowsFrom(b, NextTable(c)) \subseteq RowsFrom(b, c)
  <1>1. c.outer \in Nat /\ c.inner \in Nat /\ b.tables \in Seq(Seq(Row))
    BY DEF Buffer, Cursor
  <1> SUFFICES ASSUME NEW r \in RowsFrom(b, NextTable(c)) PROVE r \in RowsFrom(b, c)
    OBVIOUS
  <1>2. PICK k \in DOMAIN b.tables : \E i \in DOMAIN b.tables[k] : k > c.outer + 1 /\ r = b.tables[k][i]
    BY InRowsFrom DEF NextTable
  <1>3. k > c.outer
    BY <1>1, <1>2
  <1> QED
    BY <1>2, <1>3, InRowsFrom

\* Consuming drops the rows before a position, and no other.
LEMMA RowsConsumed ==
    ASSUME NEW b \in Buffer, NEW p \in Cursor, NEW c \in ConsumeResults(b, p), Increasing(b)
    PROVE  RowsFrom(c, FirstRow(c)) \subseteq RowsFrom(b, p) /\ Increasing(c)
  <1> DEFINE tail == SubSeq(b.tables, p.outer + 1, Len(b.tables))
  <1>1. /\ tail \in Seq(Seq(Row))
        /\ \A k \in 1 .. Len(tail) : p.outer + k \in DOMAIN b.tables /\ tail[k] = b.tables[p.outer + k]
    BY TailOfTables
  <1>2. c.tables = tail /\ c.inner = p.inner
    BY ConsumeType
  <1> HIDE DEF tail
  <1>3. p.outer \in Nat /\ DOMAIN tail = 1 .. Len(tail) /\ Len(tail) \in Nat
    BY <1>1 DEF Cursor
  <1>4. ASSUME NEW r \in RowsFrom(c, FirstRow(c)) PROVE r \in RowsFrom(b, p)
    <2>1. PICK k \in DOMAIN tail : \E i \in DOMAIN tail[k] : (k > 1 \/ i > p.inner) /\ r = tail[k][i]
      <3>1. FirstRow(c).outer + 1 = 1 /\ FirstRow(c).inner = p.inner
        BY <1>2 DEF FirstRow
      <3> QED
        BY <1>2, <1>4, <3>1, InRowsFrom
    <2>2. /\ p.outer + k \in DOMAIN b.tables /\ tail[k] = b.tables[p.outer + k] /\ p.outer + k > p.outer
          /\ k > 1 => p.outer + k > p.outer + 1
      BY <1>1, <1>3
    <2> QED
      BY <2>1, <2>2, InRowsFrom
  <1>5. Increasing(c)
    <2> SUFFICES ASSUME NEW k \in DOMAIN tail, NEW l \in DOMAIN tail, NEW i \in DOMAIN tail[k], NEW j \in DOMAIN tail[l],
                        k < l \/ (k = l /\ i < j)
                 PROVE  tail[k][i].id < tail[l][j].id
      BY <1>2 DEF Increasing
    <2>1. /\ p.outer + k \in DOMAIN b.tables /\ tail[k] = b.tables[p.outer + k]
          /\ p.outer + l \in DOMAIN b.tables /\ tail[l] = b.tables[p.outer + l]
      BY <1>1, <1>3
    <2>2. k < l => p.outer + k < p.outer + l
      BY <1>3
    <2> QED
      BY <2>1, <2>2 DEF Increasing
  <1> QED
    BY <1>4, <1>5

-----------------------------------------------------------------------------
(***************************************************************************)
(* The steps.                                                              *)
(***************************************************************************)

\* Whatever shows or buffers no more than before.
LEMMA LessIsInOrder ==
    ASSUME NEW pv, OrderOf(pv),
           PublishedIds(pv)' \subseteq PublishedIds(pv),
           ExtractedIds(pv)' \subseteq ExtractedIds(pv),
           BufferedIds(pv)' \subseteq BufferedIds(pv)
    PROVE  OrderOf(pv)'
  BY DEF OrderOf, AllBefore

LEMMA SameTables ==
    ASSUME NEW pv
    PROVE  /\ UNCHANGED pv_ => PublishedIds(pv)' = PublishedIds(pv)
           /\ UNCHANGED <<value, stamps, cells>> => ExtractedIds(pv)' = ExtractedIds(pv)
  BY DEF PublishedIds, ExtractedIds, Shows, Extracted

LEMMA ShownWasSent ==
    ASSUME NEW t, Aligned(t), NEW pv, NEW i \in Shows(t, pv)
    PROVE  \E m \in 1 .. sent[pv] : feed[pv][m].id = i
  <1>1. PICK s \in t.stamps : pv \in DOMAIN t.cells /\ t.cells[pv][s] = i /\ i \notin {Invalid, Uninit}
    BY DEF Shows
  <1>2. [ts |-> s, id |-> i] \in RowsSent(pv)
    BY <1>1 DEF Aligned
  <1>3. PICK m \in 1 .. sent[pv] : feed[pv][m] = [ts |-> s, id |-> i]
    BY <1>2 DEF RowsSent
  <1> QED
    BY <1>3

LEMMA RemainingWasSent ==
    ASSUME SentOnly, NEW pv \in DOMAIN buffers, NEW i \in BufferedIds(pv)
    PROVE  \E m \in 1 .. sent[pv] : feed[pv][m].id = i
  <1>1. PICK r \in Remaining(pv) : r.id = i
    BY DEF BufferedIds
  <1>2. r \in Buffered(pv)
    BY <1>1, InRowsFrom DEF Remaining, Buffered
  <1> QED
    BY <1>1, <1>2 DEF SentOnly, RowsSent

\* The updates of a PV are stretches of what it sends.
LEMMA OffsetsInRange ==
    ASSUME NEW s \in Nat, NEW l \in Nat, NEW n \in Nat, s + l <= n,
           NEW i \in 1 .. l, NEW j \in 1 .. l, i < j
    PROVE  s + i \in 1 .. n /\ s + j \in 1 .. n /\ s + i < s + j
  OBVIOUS

\* Every row of a table of a buffer.
LEMMA IsBuffered ==
    ASSUME NEW pv, NEW k \in DOMAIN buffers[pv].tables, NEW i \in DOMAIN buffers[pv].tables[k]
    PROVE  buffers[pv].tables[k][i] \in Buffered(pv)
  <1> DEFINE rows(l) == {buffers[pv].tables[l][j] : j \in DOMAIN buffers[pv].tables[l]}
  <1>1. buffers[pv].tables[k][i] \in rows(k)
    OBVIOUS
  <1>2. Buffered(pv) = UNION {rows(l) : l \in DOMAIN buffers[pv].tables}
    BY DEF Buffered
  <1> HIDE DEF rows
  <1> QED
    BY <1>1, <1>2

LEMMA DeliverKeepsOrder ==
    ASSUME FeedsIncrease, ReactorTypes, SentOnly, OrderInv,
           NEW pv \in PVs, NEW u \in NextUpdates(pv), Deliver(pv, u)
    PROVE  OrderInv'
  <1> USE DEF ReactorTypes, TypeOK
  <1>1. /\ feed[pv] \in Seq(Row) /\ Len(feed[pv]) \in Nat /\ sent[pv] \in Nat /\ feed \in Feeds
        /\ u \in Update /\ u.rows \in Seq(Row) /\ Len(u.rows) \in Nat
        /\ sent[pv] + Len(u.rows) <= Len(feed[pv])
        /\ \A i \in DOMAIN u.rows : u.rows[i] = feed[pv][sent[pv] + i]
    BY NextUpdatesType, FeedsAssumption DEF Update
  <1>2. ~extracting /\ Push(pv, u) /\ UNCHANGED <<extracting, todo, cur, cursor, stamps, cells, value, pv_>>
    BY DEF Deliver, Push, reactorVars, extractVars
  <1>3. \A q : PublishedIds(q)' = PublishedIds(q) /\ ExtractedIds(q)' = ExtractedIds(q)
    BY <1>2, SameTables
  <1>4. DOMAIN buffers' = DOMAIN buffers /\ \A q \in DOMAIN buffers : q # pv => buffers'[q] = buffers[q]
    BY <1>2 DEF Push
  <1>5. \A q : Position(q) = FirstRow(buffers[q]) /\ Position(q)' = FirstRow(buffers'[q])
    BY <1>2 DEF Position
  <1>6. ASSUME NEW q \in DOMAIN buffers, buffers'[q].tables = buffers[q].tables, buffers'[q].inner = buffers[q].inner
        PROVE  Increasing(buffers'[q]) /\ OrderOf(q)'
    <2>1. Increasing(buffers'[q])
      BY <1>6 DEF OrderInv, Increasing
    <2>2. BufferedIds(q)' = BufferedIds(q)
      BY <1>5, <1>6 DEF BufferedIds, Remaining, RowsFrom, FirstRow
    <2> QED
      BY <1>3, <2>1, <2>2, LessIsInOrder DEF OrderInv
  <1>7. CASE pv \in DOMAIN buffers /\ Accepts(buffers[pv], u)
    <2> DEFINE b == buffers[pv]
               c == buffers'[pv]
               n == Len(b.tables)
               later == {u.rows[i].id : i \in DOMAIN u.rows}
    <2>1. b \in Buffer /\ b.tables \in Seq(Seq(Row)) /\ n \in Nat
      BY <1>7 DEF TableTypeOK, Buffer
    <2>2. c.tables = Append(b.tables, u.rows) /\ c.inner = b.inner
      <3>1. PICK d \in PushResults(b, u) : buffers' = [buffers EXCEPT ![pv] = d]
        BY <1>2, <1>7 DEF Push
      <3> QED
        BY <1>1, <1>7, <2>1, <3>1, PushType
    <2>3. /\ DOMAIN c.tables = 1 .. n + 1 /\ DOMAIN b.tables = 1 .. n /\ c.tables[n + 1] = u.rows
          /\ \A k \in 1 .. n : c.tables[k] = b.tables[k]
      BY <1>1, <2>1, <2>2
    <2>4. ASSUME NEW m \in 1 .. sent[pv], NEW j \in DOMAIN u.rows
          PROVE  feed[pv][m].id < u.rows[j].id
      <3>1. m \in 1 .. Len(feed[pv]) /\ sent[pv] + j \in 1 .. Len(feed[pv]) /\ m < sent[pv] + j
        BY <1>1
      <3> QED
        BY <1>1, <3>1 DEF FeedsIncrease
    <2>5. ASSUME NEW i \in DOMAIN u.rows, NEW j \in DOMAIN u.rows, i < j
          PROVE  u.rows[i].id < u.rows[j].id
      <3>1. i \in 1 .. Len(u.rows) /\ j \in 1 .. Len(u.rows)
        BY <1>1, <2>5
      <3>2. sent[pv] + i \in 1 .. Len(feed[pv]) /\ sent[pv] + j \in 1 .. Len(feed[pv]) /\ sent[pv] + i < sent[pv] + j
        BY <1>1, <2>5, <3>1, OffsetsInRange
      <3> QED
        BY <1>1, <2>5, <3>2 DEF FeedsIncrease
    <2>6. ASSUME NEW k \in 1 .. n, NEW i \in DOMAIN b.tables[k]
          PROVE  \E m \in 1 .. sent[pv] : feed[pv][m].id = b.tables[k][i].id
      <3>1. b.tables[k][i] \in Buffered(pv)
        <4>1. k \in DOMAIN buffers[pv].tables /\ i \in DOMAIN buffers[pv].tables[k]
          BY <2>3, <2>6
        <4> QED
          BY <4>1, IsBuffered
      <3>2. b.tables[k][i] \in RowsSent(pv)
        BY <1>7, <3>1 DEF SentOnly
      <3> QED
        BY <3>2 DEF RowsSent
    <2> HIDE DEF b, c, n
    <2>7. Increasing(c)
      <3> SUFFICES ASSUME NEW k \in 1 .. n + 1, NEW l \in 1 .. n + 1, NEW i \in DOMAIN c.tables[k], NEW j \in DOMAIN c.tables[l],
                          k < l \/ (k = l /\ i < j)
                   PROVE  c.tables[k][i].id < c.tables[l][j].id
        BY <2>3 DEF Increasing
      <3>1. CASE l \in 1 .. n
        <4>1. k \in 1 .. n
          BY <2>1, <3>1 DEF n
        <4>2. Increasing(b)
          BY <1>7 DEF OrderInv, b
        <4> QED
          BY <2>3, <3>1, <4>1, <4>2 DEF Increasing
      <3>2. CASE l = n + 1 /\ k = n + 1
        BY <2>1, <2>3, <2>5, <3>2
      <3>3. CASE l = n + 1 /\ k \in 1 .. n
        BY <2>3, <2>4, <2>6, <3>3
      <3> QED
        BY <2>1, <3>1, <3>2, <3>3
    <2>8. BufferedIds(pv)' \subseteq BufferedIds(pv) \cup later
      <3> SUFFICES ASSUME NEW r \in Remaining(pv)' PROVE r \in Remaining(pv) \/ r.id \in later
        BY DEF BufferedIds
      <3>1. Remaining(pv)' = RowsFrom(c, FirstRow(c)) /\ Remaining(pv) = RowsFrom(b, FirstRow(b))
        BY <1>5 DEF Remaining, b, c
      <3>0. r \in RowsFrom(c, FirstRow(c)) /\ FirstRow(c).outer = 0 /\ FirstRow(c).inner = c.inner
        BY <3>1 DEF FirstRow
      <3>2. PICK k \in 1 .. n + 1 : \E i \in DOMAIN c.tables[k] :
                  k > 0 /\ (k > 0 + 1 \/ i > c.inner) /\ r = c.tables[k][i]
        <4>1. \E k \in DOMAIN c.tables : \E i \in DOMAIN c.tables[k] :
                k > FirstRow(c).outer /\ (k > FirstRow(c).outer + 1 \/ i > FirstRow(c).inner) /\ r = c.tables[k][i]
          <5> DEFINE p == FirstRow(c)
          <5>1. r \in RowsFrom(c, p)
            BY <3>0
          <5> HIDE DEF p
          <5>2. \E k \in DOMAIN c.tables : \E i \in DOMAIN c.tables[k] :
                  k > p.outer /\ (k > p.outer + 1 \/ i > p.inner) /\ r = c.tables[k][i]
            BY <5>1, InRowsFrom
          <5> QED
            BY <5>2 DEF p
        <4> QED
          BY <2>3, <3>0, <4>1, Zenon
      <3>3. CASE k = n + 1
        BY <2>3, <3>2, <3>3
      <3>4. CASE k \in 1 .. n
        <4>1. r \in RowsFrom(b, FirstRow(b))
          BY <2>2, <2>3, <3>2, <3>4, InRowsFrom DEF FirstRow
        <4> QED
          BY <3>1, <4>1
      <3> QED
        BY <2>1, <3>3, <3>4
    <2>9. \A i \in PublishedIds(pv) \cup ExtractedIds(pv) : \E m \in 1 .. sent[pv] : feed[pv][m].id = i
      BY ShownWasSent DEF PublishedIds, ExtractedIds, SentOnly
    <2>10. AllBefore(PublishedIds(pv) \cup ExtractedIds(pv), later)
      BY <2>4, <2>9 DEF AllBefore
    <2>11. OrderOf(pv)'
      BY <1>3, <1>7, <2>8, <2>10 DEF OrderInv, OrderOf, AllBefore
    <2>12. \A q \in DOMAIN buffers : q # pv => Increasing(buffers'[q]) /\ OrderOf(q)'
      BY <1>4, <1>6
    <2> QED
      BY <1>2, <1>4, <2>7, <2>11, <2>12 DEF OrderInv, c
  <1>8. CASE ~(pv \in DOMAIN buffers /\ Accepts(buffers[pv], u))
    <2>1. \A q \in DOMAIN buffers : buffers'[q].tables = buffers[q].tables /\ buffers'[q].inner = buffers[q].inner
      <3>1. CASE pv \notin DOMAIN buffers
        BY <1>2, <3>1 DEF Push
      <3>2. CASE pv \in DOMAIN buffers
        <4>1. PICK d \in PushResults(buffers[pv], u) : buffers' = [buffers EXCEPT ![pv] = d]
          BY <1>2, <3>2 DEF Push
        <4>2. d.tables = buffers[pv].tables /\ d.inner = buffers[pv].inner
          BY <1>1, <1>8, <3>2, PushType DEF TableTypeOK
        <4> QED
          BY <4>1, <4>2
      <3> QED
        BY <3>1, <3>2
    <2> QED
      BY <1>2, <1>4, <1>6, <2>1 DEF OrderInv
  <1> QED
    BY <1>7, <1>8

\* A step of extract() that moves the cursor over rows and shows the row under
\* it, or none.
LEMMA CursorKeepsOrder ==
    ASSUME ReactorTypes, OrderInv, RowMatches \/ RowAhead \/ RowBehind \/ TableEnds, UNCHANGED <<value, pv_>>
    PROVE  OrderInv'
  <1> USE DEF ReactorTypes, TypeOK, TableTypeOK
  <1>1. /\ extracting /\ todo # {} /\ cur \in DOMAIN buffers /\ buffers[cur] \in Buffer /\ cursor \in Cursor
        /\ UNCHANGED <<buffers, extracting, stamps, todo, cur>>
    BY DEF RowMatches, RowAhead, RowBehind, TableEnds, Proceeding, Consuming
  <1>2. Increasing(buffers[cur])
    BY <1>1 DEF OrderInv
  <1>3. /\ Remaining(cur) = RowsFrom(buffers[cur], cursor)
        /\ Remaining(cur)' = RowsFrom(buffers[cur], cursor')
        /\ \A q : q # cur => Remaining(q)' = Remaining(q)
    BY <1>1 DEF Remaining, Position
  <1>4. \A q : PublishedIds(q)' = PublishedIds(q)
    BY SameTables
  <1>5. \A q : q # cur => ExtractedIds(q)' = ExtractedIds(q)
    BY <1>1 DEF ExtractedIds, Shows, Extracted, IsTable, RowMatches, RowAhead, RowBehind, TableEnds, SetCell
  <1>6. ASSUME NEW q \in DOMAIN buffers, q # cur PROVE OrderOf(q)'
    BY <1>3, <1>4, <1>5, <1>6, LessIsInOrder DEF OrderInv, BufferedIds
  <1>7. OrderOf(cur)'
    <2>1. CASE RowMatches
      <3> DEFINE row == BufRow
      <3>1. /\ AtRow(buffers[cur], cursor) /\ cursor' = NextRow(cursor) /\ row = RowAt(buffers[cur], cursor)
            /\ cells' = [cells EXCEPT ![cur] = [@ EXCEPT ![RowTs] = row.id]]
        BY <2>1 DEF RowMatches, Proceeding, SetCell, BufRow
      <3> HIDE DEF row
      <3>2. /\ row \in Remaining(cur)
            /\ \A r \in Remaining(cur)' : r \in Remaining(cur) /\ row.id < r.id
        BY <1>1, <1>2, <1>3, <3>1, RowsAfter
      <3>3. ExtractedIds(cur)' \subseteq ExtractedIds(cur) \cup {row.id}
        BY <1>1, <3>1 DEF ExtractedIds, Shows, Extracted, IsTable
      <3>4. OrderOf(cur)
        BY <1>1 DEF OrderInv
      <3>5. /\ row.id \in BufferedIds(cur) /\ BufferedIds(cur)' \subseteq BufferedIds(cur)
            /\ AllBefore({row.id}, BufferedIds(cur)')
        BY <3>2 DEF BufferedIds, AllBefore
      <3>6. PublishedIds(cur)' = PublishedIds(cur)
        BY <1>1, SameTables DEF PublishedIds, Shows
      <3> HIDE DEF ReactorTypes, TypeOK, TableTypeOK
      <3>7. AllBefore(PublishedIds(cur)', ExtractedIds(cur)' \cup BufferedIds(cur)')
        BY <3>3, <3>4, <3>5, <3>6, Zenon DEF OrderOf, AllBefore
      <3>8. AllBefore(ExtractedIds(cur)', BufferedIds(cur)')
        BY <3>3, <3>4, <3>5, Zenon DEF OrderOf, AllBefore
      <3> QED
        BY <3>7, <3>8 DEF OrderOf, AllBefore
    <2>2. CASE RowAhead \/ RowBehind
      <3>1. AtRow(buffers[cur], cursor) /\ cursor' = NextRow(cursor)
        BY <2>2 DEF RowAhead, RowBehind, Proceeding
      <3>2. BufferedIds(cur)' \subseteq BufferedIds(cur)
        BY <1>1, <1>2, <1>3, <3>1, RowsAfter DEF BufferedIds
      <3>3. cells' = cells \/ cells' = [cells EXCEPT ![cur] = [@ EXCEPT ![RowTs] = Invalid]]
        BY <2>2 DEF RowAhead, RowBehind, SetCell
      <3>4. ExtractedIds(cur)' \subseteq ExtractedIds(cur)
        BY <1>1, <3>3 DEF ExtractedIds, Shows, Extracted, IsTable
      <3> QED
        BY <1>1, <1>4, <3>2, <3>4, LessIsInOrder DEF OrderInv
    <2>3. CASE TableEnds
      <3>1. cursor' = NextTable(cursor) /\ UNCHANGED cells
        BY <2>3 DEF TableEnds
      <3>2. BufferedIds(cur)' \subseteq BufferedIds(cur)
        BY <1>1, <1>3, <3>1, RowsAfterTable DEF BufferedIds
      <3>3. ExtractedIds(cur)' = ExtractedIds(cur)
        BY <1>1, <3>1, SameTables
      <3> QED
        BY <1>1, <1>4, <3>2, <3>3, LessIsInOrder DEF OrderInv
    <2> QED
      BY <2>1, <2>2, <2>3
  <1> QED
    BY <1>1, <1>6, <1>7 DEF OrderInv

LEMMA BufferEndsKeepsOrder ==
    ASSUME ReactorTypes, OrderInv, BufferEnds, UNCHANGED <<value, pv_>>
    PROVE  OrderInv'
  <1> USE DEF ReactorTypes, TypeOK, TableTypeOK
  <1>1. /\ extracting /\ todo # {} /\ cur \in DOMAIN buffers /\ buffers[cur] \in Buffer /\ cursor \in Cursor
        /\ UNCHANGED <<extracting, stamps>> /\ StartBuffer(buffers, todo \ {cur})
    BY DEF BufferEnds, Consuming
  <1>2. PICK c \in ConsumeResults(buffers[cur], cursor) : buffers' = [buffers EXCEPT ![cur] = c]
    BY DEF BufferEnds
  <1>3. RowsFrom(c, FirstRow(c)) \subseteq RowsFrom(buffers[cur], cursor) /\ Increasing(c)
    BY <1>1, RowsConsumed DEF OrderInv
  <1>4. \A q \in DOMAIN buffers : PublishedIds(q)' = PublishedIds(q) /\ ExtractedIds(q)' \subseteq ExtractedIds(q)
    <2>1. cells' = [cells EXCEPT ![cur] = [s \in stamps |-> IF s \in rest THEN Invalid ELSE @[s]]]
      BY DEF BufferEnds
    <2> QED
      BY <1>1, <2>1, SameTables DEF ExtractedIds, Shows, Extracted, IsTable
  <1>5. todo' = todo \ {cur} /\ (todo' # {} => cur' \in todo' /\ cursor' = FirstRow(buffers[cur']))
    BY <1>1 DEF StartBuffer, FirstOf
  <1>6. \A q : Position(q)' = FirstRow(buffers'[q])
    BY <1>2, <1>5 DEF Position
  <1>7. \A q \in DOMAIN buffers : Remaining(q)' \subseteq Remaining(q)
    BY <1>1, <1>2, <1>3, <1>6 DEF Remaining, Position
  <1>8. \A q \in DOMAIN buffers : Increasing(buffers'[q])
    BY <1>2, <1>3 DEF OrderInv
  <1>9. \A q \in DOMAIN buffers : OrderOf(q)'
    BY <1>4, <1>7, LessIsInOrder DEF OrderInv, BufferedIds
  <1> QED
    BY <1>1, <1>2, <1>8, <1>9 DEF OrderInv

LEMMA ReactorKeepsOrder ==
    ASSUME ReactorTypes, OrderInv, ReactorNext
    PROVE  OrderInv'
  <1> USE DEF ReactorTypes, TypeOK, TableTypeOK
  <1>0. ASSUME \A q \in DOMAIN buffers' :
                 /\ q \in DOMAIN buffers /\ buffers'[q] = buffers[q] /\ Position(q)' = Position(q)
                 /\ PublishedIds(q)' \subseteq PublishedIds(q) /\ ExtractedIds(q)' \subseteq ExtractedIds(q),
               ~extracting' => stamps' = {}
        PROVE  OrderInv'
    BY <1>0, LessIsInOrder DEF OrderInv, BufferedIds, Remaining
  <1>1. CASE Prepare
    BY <1>0, <1>1, SameTables DEF Prepare, ForceInitialize, extractVars, Phase, Position, OrderInv
  <1>2. CASE OpenPV
    <2>1. UNCHANGED <<tableVars, value>> /\ pv_'.table = NoTable
      BY <1>2 DEF OpenPV
    <2>2. \A q : PublishedIds(q)' = {}
      BY <2>1 DEF PublishedIds, Shows, NoTable
    <2> QED
      BY <1>0, <2>1, <2>2, SameTables DEF tableVars, extractVars, Position, OrderInv
  <1>3. CASE TimeOut \/ StopRequested \/ ChooseWindow \/ PostToClosed
    <2>1. UNCHANGED <<tableVars, value, pv_>>
      BY <1>3 DEF TimeOut, StopRequested, ChooseWindow, PostToClosed
    <2> QED
      BY <1>0, <2>1, SameTables DEF tableVars, extractVars, Position, OrderInv
  <1>4. CASE CallExtract
    <2>1. /\ ~extracting /\ extracting' /\ StartBuffer(buffers, DOMAIN buffers) /\ UNCHANGED <<buffers, value, pv_>>
          /\ cells' = [pv \in DOMAIN buffers |-> [s \in stamps' |-> Uninit]]
      BY <1>4 DEF CallExtract, BeginExtract
    <2>2. \A q : Shows(Extracted, q)' = {}
      BY <2>1 DEF Shows, Extracted
    <2>3. \A q : PublishedIds(q)' = PublishedIds(q) /\ ExtractedIds(q)' \subseteq ExtractedIds(q)
      BY <2>1, <2>2, SameTables DEF ExtractedIds, Shows
    <2>4. \A q : Position(q)' = Position(q)
      BY <2>1 DEF StartBuffer, Position
    <2> QED
      BY <1>0, <2>1, <2>3, <2>4
  <1>5. CASE InExtract
    BY <1>5, CursorKeepsOrder, BufferEndsKeepsOrder DEF InExtract, ExtractStep, reactorVars
  <1>6. CASE ExtractReturns
    <2>1. /\ value' = Extracted /\ UNCHANGED <<buffers, pv_>> /\ ~extracting' /\ stamps' = {} /\ todo = {}
      BY <1>6 DEF ExtractReturns, EndExtract
    <2>2. \A q : Shows(Extracted, q)' = {}
      BY <2>1 DEF Shows, Extracted
    <2>3. \A q : PublishedIds(q)' = PublishedIds(q) /\ ExtractedIds(q)' \subseteq ExtractedIds(q)
      BY <2>1, <2>2, SameTables DEF ExtractedIds, Shows
    <2> QED
      BY <1>0, <2>1, <2>3 DEF Position
  <1>7. CASE Post
    <2>1. UNCHANGED tableVars /\ value' = NoTable /\ pv_'.table = value /\ stamps = {}
      BY <1>7 DEF Post, Phase, OrderInv
    <2>2. UNCHANGED <<buffers, extracting, stamps, todo, cur, cursor, cells>>
      BY <2>1 DEF tableVars, extractVars
    <2>3. \A q : ExtractedIds(q)' = {} /\ PublishedIds(q)' \subseteq ExtractedIds(q)
      BY <2>1, <2>2 DEF ExtractedIds, PublishedIds, Shows, Extracted, NoTable
    <2>4. \A q \in DOMAIN buffers : BufferedIds(q)' = BufferedIds(q)
      BY <2>2 DEF BufferedIds, Remaining, Position
    <2>5. \A q \in DOMAIN buffers : OrderOf(q)'
      BY <2>3, <2>4 DEF OrderInv, OrderOf, AllBefore
    <2> QED
      BY <2>1, <2>2, <2>5 DEF OrderInv
  <1> QED
    BY <1>1, <1>2, <1>3, <1>4, <1>5, <1>6, <1>7 DEF ReactorNext

LEMMA OrderInvariant ==
    ASSUME FeedsIncrease
    PROVE  Spec => []OrderInv
  <1>1. Init => OrderInv
    <2> SUFFICES ASSUME Init PROVE OrderInv
      OBVIOUS
    <2>1. \A pv \in DOMAIN buffers : buffers[pv].tables = <<>>
      BY DEF Init, TableInit, NewBuffer
    <2>2. \A pv \in DOMAIN buffers : Increasing(buffers[pv])
      BY <2>1 DEF Increasing
    <2>3. \A pv : PublishedIds(pv) = {} /\ ExtractedIds(pv) = {}
      BY DEF Init, TableInit, ReactorInit, NoTable, PublishedIds, ExtractedIds, Shows, Extracted
    <2>4. \A pv : OrderOf(pv)
      BY <2>3 DEF OrderOf, AllBefore
    <2> QED
      BY <2>2, <2>4 DEF OrderInv, Init, TableInit
  <1>2. ReactorTypes /\ SentOnly /\ OrderInv /\ [Next]_mergeVars => OrderInv'
    <2> SUFFICES ASSUME ReactorTypes, SentOnly, OrderInv, [Next]_mergeVars PROVE OrderInv'
      OBVIOUS
    <2>1. ASSUME NEW pv \in PVs, NEW u \in NextUpdates(pv), Deliver(pv, u)
          PROVE  OrderInv'
      BY <2>1, DeliverKeepsOrder
    <2>2. CASE ReactorNext
      BY <2>2, ReactorKeepsOrder
    <2>3. CASE UNCHANGED mergeVars
      <3>1. UNCHANGED <<buffers, extracting, stamps, todo, cur, cursor, cells, value, pv_>>
        BY <2>3 DEF mergeVars, reactorVars, tableVars, extractVars
      <3>2. \A pv : OrderOf(pv)' = OrderOf(pv)
        BY <3>1 DEF OrderOf, PublishedIds, ExtractedIds, BufferedIds, Shows, Extracted, Remaining, Position
      <3> QED
        BY <3>1, <3>2 DEF OrderInv
    <2> QED
      BY <2>1, <2>2, <2>3 DEF Next
  <1> QED
    BY <1>1, <1>2, TypesInvariant, SentInvariant, PTL DEF Spec

\* ShownInOrder of Merge: what a PV sent is shown once and in the order it was
\* sent, whatever was refused, skipped or left over (tablebuffer.cpp:168-205,
\* taligntable.cpp:203-330).
THEOREM ShowsInOrder ==
    ASSUME FeedsIncrease
    PROVE  Spec => []ShownInOrder
  <1>1. OrderInv => ShownInOrder
    BY DEF OrderInv, OrderOf, AllBefore, ShownInOrder, PublishedIds, ExtractedIds, BufferedIds
  <1> QED
    BY <1>1, OrderInvariant, PTL
=============================================================================
