------------------------------- MODULE Reactor ------------------------------
(***************************************************************************)
(* class Reactor (mergerApp/src/mergerMain.cpp): the thread that waits     *)
(* until the inputs are known, opens the output PV, and then joins and     *)
(* posts one period of rows after another.                                 *)
(*                                                                         *)
(* The wall clock is left out: where the code compares it with timeout_,   *)
(* the timeout may have passed or not.  Sleeping changes nothing, so the   *)
(* iterations of a loop that end in epicsThreadSleep are not steps.        *)
(***************************************************************************)
EXTENDS TimeAlignedTable, Runnable

CONSTANTS
    Period,     \* period_, in ticks
    Timeout     \* timeout_, in ticks; 0 is none

\* The assertions of the constructor.  (main lets a timeout equal to the
\* period through; the process then ends here.)
ASSUME PeriodAssumption ==
    /\ Period \in Nat \ {0}
    /\ Timeout \in Nat
    /\ Timeout = 0 \/ Timeout > Period

VARIABLES
    rpc,        \* where run() is
    bounds,     \* its local copy of start and end, read before extract() locks
    value,      \* its local copy of the table that extract() returned
    pv_         \* the output SharedPV: whether it is open, the table it shows

reactorVars == <<rpc, bounds, value, pv_>>

NoTable == [stamps |-> {}, cells |-> [pv \in {} |-> Invalid]]

ReactorInit ==
    /\ rpc = "prepare"
    /\ bounds = NoWindow
    /\ value = NoTable
    /\ pv_ = [open |-> FALSE, table |-> NoTable]

-----------------------------------------------------------------------------
\* prepare(): every PV has a type, or timeout_ has passed; go on without the
\* PVs that have none, and end if that is all of them.
Prepare ==
    /\ rpc = "prepare"
    /\ running["reactor"]
    /\ type_.built \/ Timeout > 0
    /\ ForceInitialize
    /\ IF DOMAIN buffers' = {}
       THEN rpc' = "ended" /\ Stopped("reactor")
       ELSE rpc' = "open" /\ UNCHANGED runnableVars
    /\ UNCHANGED <<bounds, value, pv_>>

\* The output PV is opened with a table of the merged type without rows.
OpenPV ==
    /\ rpc = "open"
    /\ ~extracting
    /\ rpc' = "loop"
    /\ pv_' = [open |-> TRUE, table |-> NoTable]
    /\ UNCHANGED <<bounds, value, tableVars, runnableVars>>

\* Nothing was posted for timeout_.
TimeOut ==
    /\ rpc = "loop"
    /\ running["reactor"]
    /\ Timeout > 0
    /\ rpc' = "ended"
    /\ Stopped("reactor")
    /\ UNCHANGED <<bounds, value, pv_, tableVars>>

\* running_ was found false, in prepare() or in the loop.
StopRequested ==
    /\ rpc \in {"prepare", "loop"}
    /\ ~running["reactor"]
    /\ rpc' = "ended"
    /\ Stopped("reactor")
    /\ UNCHANGED <<bounds, value, pv_, tableVars>>

\* Mutant: the span of the PV that is ahead decides.
WaitsForFirst(tb) == tb.latest_end.ts < tb.earliest_start.ts + Period

\* The loop sleeps while the shortest span is below the period and the
\* longest is below the timeout.
WaitsForMore(tb) ==
    /\ tb.earliest_end.ts < tb.earliest_start.ts + Period
    /\ tb.latest_end.ts < tb.earliest_start.ts + Timeout

\* get_timebounds() and the choice of the window.  The lock is released, so
\* extract() may find other buffers than these bounds were taken from.
ChooseWindow ==
    /\ rpc = "loop"
    /\ running["reactor"]
    /\ ~extracting
    /\ TimeBounds.valid
    /\ ~WaitsForMore(TimeBounds)
    /\ LET start == TimeBounds.earliest_start
       IN  bounds' = [start |-> start, end |-> [ts |-> start.ts + Period, utag |-> start.utag]]
    /\ rpc' = "extract"
    /\ UNCHANGED <<value, pv_, tableVars, runnableVars>>

CallExtract ==
    /\ rpc = "extract"
    /\ BeginExtract(bounds.start, bounds.end)
    /\ rpc' = "extracting"
    /\ UNCHANGED <<bounds, value, pv_, runnableVars>>

InExtract ==
    /\ rpc = "extracting"
    /\ ExtractStep
    /\ UNCHANGED <<reactorVars, runnableVars>>

ExtractReturns ==
    /\ rpc = "extracting"
    /\ EndExtract
    /\ value' = Extracted
    /\ rpc' = "post"
    /\ UNCHANGED <<bounds, pv_, runnableVars>>

Post ==
    /\ rpc = "post"
    /\ pv_.open
    /\ pv_' = [open |-> TRUE, table |-> value]
    /\ rpc' = "loop"
    /\ bounds' = NoWindow
    /\ value' = NoTable
    /\ UNCHANGED <<tableVars, runnableVars>>

\* post() throws on a PV that was closed; nothing catches it in the thread.
PostToClosed ==
    /\ rpc = "post"
    /\ ~pv_.open
    /\ rpc' = "aborted"
    /\ UNCHANGED <<bounds, value, pv_, tableVars, runnableVars>>

ReactorNext ==
    \/ Prepare \/ OpenPV \/ TimeOut \/ StopRequested \/ ChooseWindow
    \/ CallExtract \/ InExtract \/ ExtractReturns \/ Post \/ PostToClosed

\* The steps that do not rest on a timeout that has passed.
ReactorUntimed ==
    \/ Prepare /\ type_.built
    \/ OpenPV \/ StopRequested \/ ChooseWindow
    \/ CallExtract \/ InExtract \/ ExtractReturns \/ Post \/ PostToClosed
=============================================================================
