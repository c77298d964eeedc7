-------------------------- MODULE TimeAlignedTable --------------------------
(***************************************************************************)
(* tabulator::TimeAlignedTable (mergerApp/src/taligntable.{h,cpp}): one    *)
(* buffer per input PV, and extract(), which joins their rows on the       *)
(* timestamp into one output table.  The listener thread pushes into it    *)
(* and the reactor thread extracts from it, under one lock.                *)
(*                                                                         *)
(* Every method but extract is one action.  extract is one action per      *)
(* call of the function it hands to consume_each_row, with the lock held   *)
(* (extracting) throughout.  An output table is the set of its timestamps  *)
(* and, per PV, a function from these to cells: row number n of the code   *)
(* is the n-th timestamp, and its iterator and its row counter, which      *)
(* always move together, are the set of the timestamps still to be passed. *)
(***************************************************************************)
EXTENDS TableBuffer, Integers

CONSTANTS PVs     \* the names in the list of input PVs

VARIABLES
    buffers,    \* buffers_ : the PVs that were not dropped -> their buffer
    type_,      \* the merged type, once every buffer knows its own
    extracting, \* extract() is running, with the lock held
    window,     \* its arguments
    stamps,     \* its timestamps: the rows of the output
    todo,       \* the PVs whose buffer it has not consumed yet
    cur,        \* the PV whose buffer it is consuming
    cursor,     \* the position in that buffer
    rest,       \* the output rows from row_ts_it on
    cells       \* PV -> output timestamp -> cell

extractVars == <<window, stamps, todo, cur, cursor, rest, cells>>
tableVars   == <<buffers, type_, extracting, extractVars>>

\* A cell of the output: the id of the row copied into it, or
Invalid == 0    \* valid = false, and zeroes in the data columns
Uninit  == -1   \* as allocated: never written

NotBuilt == [built |-> FALSE, cols |-> [pv \in {} |-> NoType]]

\* buffers_ is visited in the order of the map, which is some fixed order.
FirstOf(pvs) == CHOOSE pv \in pvs : TRUE

NoWindow == [start |-> Untagged(0), end |-> Untagged(0)]

TableInit ==
    /\ buffers = [pv \in PVs |-> NewBuffer]
    /\ type_ = NotBuilt
    /\ extracting = FALSE
    /\ window = NoWindow
    /\ stamps = {}
    /\ todo = {}
    /\ cur = FirstOf(PVs)
    /\ cursor = [outer |-> 0, inner |-> 0]
    /\ rest = {}
    /\ cells = [pv \in {} |-> Invalid]

-----------------------------------------------------------------------------
\* initialize(): build the merged type as soon as every buffer has a type.
\* The output has a "valid" column and the data columns of each buffer.
TypeOver(bufs) ==
    IF type_.built \/ \E pv \in DOMAIN bufs : ~Initialized(bufs[pv])
    THEN type_
    ELSE [built |-> TRUE, cols |-> [pv \in DOMAIN bufs |-> bufs[pv].type]]

(***************************************************************************)
(* push(name, value).  It ends normally, or with the std::out_of_range of  *)
(* buffers_.at (the PV was dropped), or with the std::runtime_error of a   *)
(* value the buffer does not accept.  That error leaves the type the value *)
(* gave the buffer, and initialize() is not reached.                       *)
(***************************************************************************)
PushOutcome(pv, u) ==
    CASE pv \notin DOMAIN buffers -> "out_of_range"
      [] pv \in DOMAIN buffers /\ Accepts(buffers[pv], u) -> "ok"
      [] OTHER -> "runtime_error"

Push(pv, u) ==
    /\ ~extracting
    /\ IF pv \in DOMAIN buffers
       THEN /\ \E b \in PushResults(buffers[pv], u) : buffers' = [buffers EXCEPT ![pv] = b]
            /\ type_' = IF Accepts(buffers[pv], u) THEN TypeOver(buffers') ELSE type_
       ELSE UNCHANGED <<buffers, type_>>
    /\ UNCHANGED <<extracting, extractVars>>

\* Mutant: the PVs that sent nothing are kept.
ForceInitializeAll ==
    /\ ~extracting
    /\ type_' = TypeOver(buffers)
    /\ UNCHANGED <<buffers, extracting, extractVars>>

\* force_initialize(): go on without the PVs that sent nothing.
ForceInitialize ==
    /\ ~extracting
    /\ buffers' = [pv \in {p \in DOMAIN buffers : Initialized(buffers[p])} |-> buffers[pv]]
    /\ type_' = TypeOver(buffers')
    /\ UNCHANGED <<extracting, extractVars>>

\* TimeBounds(): over the spans that are valid.
BoundsOf(spans) ==
    LET valid == {s \in spans : s.valid}
    IN  IF valid = {}
        THEN [valid |-> FALSE]
        ELSE [valid          |-> TRUE,
              earliest_start |-> Earliest({s.start : s \in valid}),
              earliest_end   |-> Earliest({s.end : s \in valid}),
              latest_end     |-> Latest({s.end : s \in valid})]

\* get_timebounds()
TimeBounds == BoundsOf({SpanOf(buffers[pv]) : pv \in DOMAIN buffers})

-----------------------------------------------------------------------------
\* Start consuming the next buffer, with the iterator back on the first row.
StartBuffer(bufs, pvs) ==
    /\ todo' = pvs
    /\ rest' = stamps'
    /\ IF pvs = {}
       THEN UNCHANGED <<cur, cursor>>
       ELSE /\ cur' = FirstOf(pvs)
            /\ cursor' = FirstRow(bufs[cur'])

\* extract(start, end): collect the timestamps, allocate the output.
BeginExtract(start, end) ==
    /\ ~extracting
    /\ LessEq(start, end)
    /\ extracting' = TRUE
    /\ window' = [start |-> start, end |-> end]
    /\ stamps' = UNION {StampsBetween(buffers[pv], start, end) : pv \in DOMAIN buffers}
    /\ cells' = [pv \in DOMAIN buffers |-> [s \in stamps' |-> Uninit]]
    /\ StartBuffer(buffers, DOMAIN buffers)
    /\ UNCHANGED <<buffers, type_>>

\* The buffer row the function is called with, and the output row it is at.
BufRow == RowAt(buffers[cur], cursor)
RowTs  == Earliest(rest)

Consuming == extracting /\ todo # {}

\* The function has not asked to stop at this row.
Proceeding ==
    /\ Consuming
    /\ AtRow(buffers[cur], cursor)
    /\ rest # {}
    /\ LessEq(BufRow.ts, window.end)

SetCell(c) == cells' = [cells EXCEPT ![cur] = [@ EXCEPT ![RowTs] = c]]

\* Mutant: a later row is taken for the output row.
RowMatchesLater ==
    /\ Proceeding
    /\ LessEq(RowTs, BufRow.ts)
    /\ SetCell(BufRow.id)
    /\ rest' = rest \ {RowTs}
    /\ cursor' = NextRow(cursor)
    /\ UNCHANGED <<buffers, type_, extracting, window, stamps, todo, cur>>

\* Timestamps are equal: copy the row, advance both.
RowMatches ==
    /\ Proceeding
    /\ BufRow.ts = RowTs
    /\ SetCell(BufRow.id)
    /\ rest' = rest \ {RowTs}
    /\ cursor' = NextRow(cursor)
    /\ UNCHANGED <<buffers, type_, extracting, window, stamps, todo, cur>>

\* The buffer is ahead: the output row is invalid; the buffer row is passed
\* all the same, and the output row is not.
RowAhead ==
    /\ Proceeding
    /\ Less(RowTs, BufRow.ts)
    /\ SetCell(Invalid)
    /\ cursor' = NextRow(cursor)
    /\ UNCHANGED <<buffers, type_, extracting, window, stamps, todo, cur, rest>>

\* The buffer is behind: both are passed, and the output row stays as it is.
RowBehind ==
    /\ Proceeding
    /\ Less(BufRow.ts, RowTs)
    /\ rest' = rest \ {RowTs}
    /\ cursor' = NextRow(cursor)
    /\ UNCHANGED <<buffers, type_, extracting, window, stamps, todo, cur, cells>>

\* The inner loop is through with one table of the buffer.
TableEnds ==
    /\ Consuming
    /\ AtTableEnd(buffers[cur], cursor)
    /\ cursor' = NextTable(cursor)
    /\ UNCHANGED <<buffers, type_, extracting, window, stamps, todo, cur, rest, cells>>

\* The function asks to stop, or the buffer ends: the buffer drops what was
\* passed, the remaining output rows are invalid, and it is the next one's turn.
BufferEnds ==
    /\ Consuming
    /\ ~AtTableEnd(buffers[cur], cursor)
    /\ ~Proceeding
    /\ \E b \in ConsumeResults(buffers[cur], cursor) : buffers' = [buffers EXCEPT ![cur] = b]
    /\ cells' = [cells EXCEPT ![cur] = [s \in stamps |-> IF s \in rest THEN Invalid ELSE @[s]]]
    /\ UNCHANGED <<type_, extracting, window, stamps>>
    /\ StartBuffer(buffers, todo \ {cur})

\* All buffers are consumed: the columns are set in the value and returned.
\* The local variables are gone with that.
EndExtract ==
    /\ extracting
    /\ todo = {}
    /\ extracting' = FALSE
    /\ window' = NoWindow
    /\ stamps' = {}
    /\ cur' = FirstOf(PVs)
    /\ cursor' = [outer |-> 0, inner |-> 0]
    /\ rest' = {}
    /\ cells' = [pv \in {} |-> Invalid]
    /\ UNCHANGED <<buffers, type_, todo>>

ExtractStep == RowMatches \/ RowAhead \/ RowBehind \/ TableEnds \/ BufferEnds

Extracted == [stamps |-> stamps, cells |-> cells]
=============================================================================
