---------------------------- MODULE TableBuffer -----------------------------
(***************************************************************************)
(* tabulator::TableBuffer (mergerApp/src/tablebuffer.{h,cpp}): the FIFO of *)
(* the updates received from one input PV.  A buffer is a value here, and  *)
(* the operators below are the methods of the class; TimeAlignedTable      *)
(* holds one buffer per PV.                                                *)
(*                                                                         *)
(* An update (a pvxs::Value) is abstracted to what the merger can tell     *)
(* apart: its shape (the list of column names, types and labels), whether  *)
(* its columns have different lengths, and its rows.  A row is its         *)
(* timestamp and an id that stands for the values of its data columns.     *)
(***************************************************************************)
EXTENDS TimeStamps, Sequences, FiniteSets

CONSTANTS
    Shapes,     \* the column lists of the NTTables with the three time columns
    NotATable,  \* a value the TimeTable constructor rejects
    NoType,     \* type_ is a null pointer
    Garbage     \* the stamps a read past the end of a column may return

ASSUME ShapesAssumption ==
    /\ NoType \notin Shapes \cup {NotATable}
    /\ NotATable \notin Shapes
    /\ Garbage # {} /\ Garbage \subseteq TimeStamp

Row == [ts : TimeStamp, id : Nat \ {0}]

Update == [shape : Shapes \cup {NotATable}, ragged : BOOLEAN, rows : Seq(Row)]

Buffer == [type   : Shapes \cup {NoType},
           start  : TimeStamp,
           end    : TimeStamp,
           tables : Seq(Seq(Row)),
           inner  : Nat]

NewBuffer == [type   |-> NoType,
              start  |-> Untagged(0),
              end    |-> Untagged(0),
              tables |-> <<>>,
              inner  |-> 0]

Initialized(b) == b.type # NoType

Empty(b) == b.tables = <<>>

\* Its start need not be before its end, and an invalid one's are not used.
TimeSpan(start, end) == [valid |-> TRUE, start |-> start, end |-> end]

InvalidSpan == [valid |-> FALSE]

SpanOf(b) == IF Empty(b) THEN InvalidSpan ELSE TimeSpan(b.start, b.end)

-----------------------------------------------------------------------------
(***************************************************************************)
(* update_timestamps: cache the time of the first row that is not consumed *)
(* and of the last row.  Neither index is checked, so on a table without   *)
(* rows both reads are past the end of the column and the cached stamp can *)
(* be anything.                                                            *)
(***************************************************************************)
TimeOfRow(table, i) ==
    IF i \in 1 .. Len(table) THEN {Untagged(table[i].ts.ts)} ELSE Garbage

UpdateTimestamps(b) ==
    IF Empty(b)
    THEN {b}
    ELSE LET first == b.tables[1]
             last  == b.tables[Len(b.tables)]
         IN  {[type |-> b.type, start |-> s, end |-> e, tables |-> b.tables, inner |-> b.inner] :
                s \in TimeOfRow(first, b.inner + 1), e \in TimeOfRow(last, Len(last))}

-----------------------------------------------------------------------------
(***************************************************************************)
(* push.  The first update fixes the type of the buffer (TimeTable(value)  *)
(* throws on a value that is not a table); every update, the first         *)
(* included, must then have that type and columns of one length            *)
(* (TimeTable::is_valid), or wrap throws and nothing is appended.          *)
(***************************************************************************)
\* Mutant: any first value fixes the type, a table or not.
TypeAfterUnchecked(b, u) == IF b.type = NoType THEN u.shape ELSE b.type

TypeAfter(b, u) ==
    IF b.type = NoType /\ u.shape # NotATable THEN u.shape ELSE b.type

Accepts(b, u) == u.shape = TypeAfter(b, u) /\ ~u.ragged

PushResults(b, u) ==
    LET With(tables) == [type  |-> TypeAfter(b, u), start |-> b.start, end |-> b.end,
                         tables |-> tables, inner |-> b.inner]
    IN  IF Accepts(b, u)
        THEN UpdateTimestamps(With(Append(b.tables, u.rows)))
        ELSE {With(b.tables)}

-----------------------------------------------------------------------------
\* Mutant: the window is open at its start.
StampsAfter(b, start, end) ==
    LET rows == UNION {{t[i] : i \in DOMAIN t} : t \in {b.tables[k] : k \in DOMAIN b.tables}}
    IN  {s \in {r.ts : r \in rows} : Less(start, s) /\ Less(s, end)}

\* The stamps in [start, end) of every row of every table the buffer holds:
\* the rows of the front table that were consumed before are not skipped.
StampsBetween(b, start, end) ==
    LET rows == UNION {{t[i] : i \in DOMAIN t} : t \in {b.tables[k] : k \in DOMAIN b.tables}}
    IN  {s \in {r.ts : r \in rows} : LessEq(start, s) /\ Less(s, end)}

(***************************************************************************)
(* consume_each_row calls a function on each row, starting after the rows  *)
(* consumed before, until the function asks to stop.  The position of the  *)
(* loop is a cursor: outer tables passed, inner rows of the current one.   *)
(***************************************************************************)
Cursor == [outer : Nat, inner : Nat]

\* Mutant: the loop forgets what was consumed of the front table.
FirstRowOfTable(b) == [outer |-> 0, inner |-> 0]

FirstRow(b) == [outer |-> 0, inner |-> b.inner]

NextRow(c) == [outer |-> c.outer, inner |-> c.inner + 1]

NextTable(c) == [outer |-> c.outer + 1, inner |-> 0]

AtEnd(b, c) == c.outer >= Len(b.tables)

AtRow(b, c) == ~AtEnd(b, c) /\ c.inner < Len(b.tables[c.outer + 1])

AtTableEnd(b, c) == ~AtEnd(b, c) /\ ~AtRow(b, c)

RowAt(b, c) == b.tables[c.outer + 1][c.inner + 1]

\* Mutants: the times are not refreshed; nothing is dropped; the table that the
\* loop stopped in is dropped too.
ConsumeStale(b, c) ==
    {[type |-> b.type, start |-> b.start, end |-> b.end,
      tables |-> SubSeq(b.tables, c.outer + 1, Len(b.tables)), inner |-> c.inner]}

ConsumeNothing(b, c) == UpdateTimestamps(b)

ConsumeStopped(b, c) ==
    UpdateTimestamps([type |-> b.type, start |-> b.start, end |-> b.end,
                      tables |-> SubSeq(b.tables, c.outer + 2, Len(b.tables)), inner |-> 0])

\* The end of consume_each_row: drop the tables passed, keep the position in
\* the one the loop stopped in.
ConsumeResults(b, c) ==
    UpdateTimestamps([type |-> b.type, start |-> b.start, end |-> b.end,
                      tables |-> SubSeq(b.tables, c.outer + 1, Len(b.tables)),
                      inner  |-> c.inner])

\* The rows from a position of the loop on.
RowsFrom(b, c) ==
    UNION {{b.tables[k][i] : i \in {j \in DOMAIN b.tables[k] : k > c.outer + 1 \/ j > c.inner}} :
              k \in {k \in DOMAIN b.tables : k > c.outer}}
=============================================================================
