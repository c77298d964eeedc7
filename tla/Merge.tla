-------------------------------- MODULE Merge -------------------------------
(***************************************************************************)
(* The data path of the merger: input PVs, the buffers and the join, the   *)
(* reactor thread, the output PV.  The listener thread is here only as the *)
(* order in which it pushes updates: any, but each PV's own order.         *)
(***************************************************************************)
EXTENDS Reactor

CONSTANTS
    Feeds,      \* PV -> the rows it sends during a run: the possible ones
    Sizes,      \* how many rows an update has
    SentShapes, \* the shapes of the updates that are sent
    SentRagged, \* TRUE: some have columns of different lengths
    MaxSkew,    \* how far, in ticks, one PV may get ahead of another, or
    NoLimit     \* no limit

ASSUME FeedsAssumption ==
    /\ Feeds \subseteq [PVs -> Seq(Row)]
    /\ Sizes \subseteq Nat
    /\ SentShapes \subseteq Shapes \cup {NotATable}
    /\ SentRagged \subseteq BOOLEAN

VARIABLES
    feed,       \* the rows the PVs send in this run
    sent        \* how many of them the listener has pushed

mergeVars == <<feed, sent, reactorVars, runnableVars, tableVars>>

Init ==
    /\ feed \in Feeds
    /\ sent = [pv \in PVs |-> 0]
    /\ TableInit
    /\ RunnableInit
    /\ ReactorInit

RowsIn(table) == {table[i] : i \in DOMAIN table}

RowsSent(pv) == {feed[pv][i] : i \in 1 .. sent[pv]}

\* The inputs stay within MaxSkew of each other: no row of the update is
\* further ahead of any other PV, in what it sent or in its very first row.
InSkew(u) ==
    \/ MaxSkew = NoLimit
    \/ \A pv \in DOMAIN buffers, r \in RowsIn(u.rows) :
         \E s \in RowsSent(pv) \cup {feed[pv][i] : i \in {1} \cap DOMAIN feed[pv]} :
            r.ts.ts <= s.ts.ts + MaxSkew

\* The update a PV sends next: some of its rows, in order.
NextUpdates(pv) ==
    LET rows == {SubSeq(feed[pv], sent[pv] + 1, sent[pv] + n) :
                   n \in {m \in Sizes : sent[pv] + m <= Len(feed[pv])}}
    IN  {u \in [shape : SentShapes, ragged : SentRagged, rows : rows] : InSkew(u)}

\* One iteration of the listener's loop that got an update: push it; cancel
\* the subscription of a PV that was dropped; end on any other exception.
Deliver(pv, u) ==
    /\ running["listener"]
    /\ u \in NextUpdates(pv)
    /\ Push(pv, u)
    /\ CASE PushOutcome(pv, u) = "ok" ->
              /\ sent' = [sent EXCEPT ![pv] = @ + Len(u.rows)]
              /\ UNCHANGED runnableVars
         [] PushOutcome(pv, u) = "out_of_range" ->
              /\ sent' = [sent EXCEPT ![pv] = Len(feed[pv])]
              /\ UNCHANGED runnableVars
         [] PushOutcome(pv, u) = "runtime_error" ->
              /\ Stopped("listener")
              /\ UNCHANGED sent
    /\ UNCHANGED <<feed, reactorVars>>

Next ==
    \/ \E pv \in PVs : \E u \in NextUpdates(pv) : Deliver(pv, u)
    \/ ReactorNext /\ UNCHANGED <<feed, sent>>

Spec == Init /\ [][Next]_mergeVars

\* The reactor thread keeps running: it polls, and never waits on anything
\* but the lock and its own sleep.
FairSpec == Spec /\ WF_mergeVars(ReactorNext /\ UNCHANGED <<feed, sent>>)

-----------------------------------------------------------------------------
(***************************************************************************)
(* Properties.                                                             *)
(***************************************************************************)

Cell == Nat \cup {Uninit}

Window == [start : TimeStamp, end : TimeStamp]

\* The tables that extract() builds: a cell for every PV and timestamp.
IsTable(t) ==
    /\ t.stamps \subseteq TimeStamp
    /\ DOMAIN t.cells \subseteq PVs
    /\ \A pv \in DOMAIN t.cells : t.cells[pv] \in [t.stamps -> Cell]

TableTypeOK ==
    /\ DOMAIN buffers \subseteq PVs
    /\ \A pv \in DOMAIN buffers : buffers[pv] \in Buffer
    /\ type_.built \in BOOLEAN
    /\ extracting \in BOOLEAN
    /\ window \in Window
    /\ IsTable(Extracted)
    /\ todo \subseteq DOMAIN buffers
    /\ todo # {} => cur \in todo
    /\ cursor \in Cursor
    /\ rest \subseteq stamps

ReactorTypeOK ==
    /\ rpc \in {"prepare", "open", "loop", "extract", "extracting", "post", "ended", "aborted"}
    /\ bounds \in Window
    /\ IsTable(value)
    /\ pv_.open \in BOOLEAN /\ IsTable(pv_.table)

\* Every variable has values of the type of the code's.
TypeOK ==
    /\ feed \in Feeds
    /\ sent \in [PVs -> Nat]
    /\ running \in [Threads -> BOOLEAN]
    /\ dead \in Seq(Threads)
    /\ ReactorTypeOK
    /\ TableTypeOK

\* The merged type describes exactly the buffers that are left and the types
\* they have, whatever was pushed, refused or dropped: "Table should be
\* initialized by this point" (mergerMain.cpp:202) and "Mismatch between
\* number of columns" (taligntable.cpp:319) are never thrown, and the null
\* type_ is never dereferenced.
TypeDescribesBuffers ==
    /\ type_.built => type_.cols = [pv \in DOMAIN buffers |-> buffers[pv].type]
    /\ rpc \notin {"prepare", "ended"} => type_.built /\ DOMAIN buffers # {}
    /\ extracting => DOMAIN cells = DOMAIN buffers

\* The position of consume_each_row in a buffer, between calls the position
\* it stopped at.
Position(pv) ==
    IF extracting /\ todo # {} /\ pv = cur THEN cursor ELSE FirstRow(buffers[pv])

Remaining(pv) == RowsFrom(buffers[pv], Position(pv))

\* start_ts_ and end_ts_, read without a check, are the times of the first row
\* that is not consumed and of the last row: inner_idx_ is always a row of
\* the front table (tablebuffer.cpp:78-102, 194-205).
CachedTimesAreExact ==
    \A pv \in DOMAIN buffers :
      LET b    == buffers[pv]
          last == b.tables[Len(b.tables)]
      IN  ~Empty(b) =>
            /\ b.inner < Len(b.tables[1])
            /\ b.start = Untagged(b.tables[1][b.inner + 1].ts.ts)
            /\ b.end = Untagged(last[Len(last)].ts.ts)

\* The ids that a table shows for a PV.
Shows(t, pv) ==
    IF pv \in DOMAIN t.cells THEN {t.cells[pv][s] : s \in t.stamps} \ {Invalid, Uninit} ELSE {}

\* The valid cells of a table are rows that their PV sent, with exactly the
\* timestamp of their output row.
Aligned(t) ==
    \A pv \in DOMAIN t.cells, s \in t.stamps :
      t.cells[pv][s] \notin {Invalid, Uninit} =>
        [ts |-> s, id |-> t.cells[pv][s]] \in RowsSent(pv)

\* What is published is aligned: copy_row is only reached for a row with the
\* timestamp of the output row, although the two iterators advance on their
\* own and start over for each buffer (taligntable.cpp:263-296).
ValidMeansAligned == Aligned(pv_.table)

\* Rows are shown once and in the order they were sent: what is published is
\* before what was extracted, and that before all that remains buffered.
ShownInOrder ==
    \A pv \in DOMAIN buffers :
      LET published == Shows(pv_.table, pv)
          extracted == Shows(value, pv) \cup Shows(Extracted, pv)
          buffered  == {r.id : r \in Remaining(pv)}
      IN  /\ \A i \in published, j \in extracted \cup buffered : i < j
          /\ \A i \in extracted, j \in buffered : i < j

\* Although extract() runs on bounds that are stale by then, the table it
\* returns has at least one row: rows pushed since do not empty the window.
NeverPostsEmpty == rpc = "post" => value.stamps # {}

\* Whatever is buffered, the reactor gets to the end of it: it never goes on
\* extracting without consuming rows, and so comes to wait for more.
CatchesUp ==
    rpc = "loop" ~>
      \/ rpc = "ended"
      \/ rpc = "loop" /\ (~TimeBounds.valid \/ WaitsForMore(TimeBounds))

-----------------------------------------------------------------------------
(***************************************************************************)
(* What documentation and comments say and the code does not do.           *)
(***************************************************************************)

\* "A TableBuffer is empty if it holds no samples" (tablebuffer.h:91).
EmptyMeansNoSamples ==
    \A pv \in DOMAIN buffers : Remaining(pv) = {} /\ ~extracting => Empty(buffers[pv])

\* "Time window to wait for laggards ... 0 (wait forever)" (mergerMain.cpp:312):
\* without a timeout, rows are joined once every PV is past the window.
WaitsForLaggards ==
    Timeout = 0 /\ rpc = "post" =>
      \A pv \in DOMAIN value.cells : \E r \in RowsSent(pv) : ~Less(r.ts, bounds.end)

\* "If the buffer is ahead of us (in time), it means there are missing values.
\* Skip this iteration (by filling in invalid values)" (taligntable.cpp:283):
\* invalid values stand for missing rows, and not for rows that were sent.
InvalidMeansMissing ==
    rpc = "post" =>
      \A pv \in DOMAIN value.cells : \A r \in RowsSent(pv) :
        r.ts \in value.stamps => value.cells[pv][r.ts] # Invalid

\* "The buffer is behind us (in time). Skip this iteration (do nothing)"
\* (taligntable.cpp:291): no output cell is skipped without being written.
EveryCellIsWritten ==
    rpc = "post" => \A pv \in DOMAIN value.cells : Uninit \notin {value.cells[pv][s] : s \in value.stamps}

=============================================================================
