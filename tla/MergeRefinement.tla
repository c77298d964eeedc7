-------------------------- MODULE MergeRefinement ---------------------------
(***************************************************************************)
(* What becomes of the rows that are pushed.  A row is pending from its    *)
(* arrival in a buffer until the post of the table it was copied into.     *)
(* When the inputs send rows with the same timestamps (SameStamps) and     *)
(* none of them is a laggard (NoLaggard), the merger implements            *)
(* AlignedMerge; of other inputs, RowsAreShownOrPassedOver says which rows *)
(* never reach the output.                                                 *)
(***************************************************************************)
EXTENDS Merge

\* What the inputs are to be like: all send rows with the same timestamps, which
\* increase, and none gets so far behind that the reactor goes on without it.
StampsIncrease ==
    \A f \in Feeds, pv \in PVs : \A i, j \in 1 .. Len(f[pv]) : i < j => Less(f[pv][i].ts, f[pv][j].ts)

SameStamps ==
    /\ StampsIncrease
    /\ \A f \in Feeds, p, q \in PVs :
         Len(f[p]) = Len(f[q]) /\ \A i \in 1 .. Len(f[p]) : f[p][i].ts = f[q][i].ts

NoLaggard == MaxSkew \in Nat \ {NoLimit} /\ MaxSkew + Period <= Timeout

\* The rows of one PV that a table shows.
RowsOf(t, pv) ==
    IF pv \in DOMAIN t.cells
    THEN {[ts |-> s, id |-> t.cells[pv][s]] :
            s \in {o \in t.stamps : t.cells[pv][o] \notin {Invalid, Uninit}}}
    ELSE {}

pendingRows ==
    [pv \in DOMAIN buffers |-> Remaining(pv) \cup RowsOf(Extracted, pv) \cup RowsOf(value, pv)]

AM == INSTANCE AlignedMerge WITH
        pending <- pendingRows,
        shown   <- pv_.table,
        NoRow   <- Invalid

\* The buffers, the join and the reactor implement the abstract merge.
ImplementsAlignedMerge == AM!Spec

-----------------------------------------------------------------------------
(***************************************************************************)
(* What holds of every input whose timestamps increase.                    *)
(***************************************************************************)

\* The rows of a buffer that extract() begins with.
Given(pv) == RowsFrom(buffers[pv], FirstRow(buffers[pv]))

\* The output has an earlier row for which the buffer has none.
HasGapBefore(pv, r) == \E s \in stamps : Less(s, r.ts) /\ s \notin {g.ts : g \in Given(pv)}

\* Rows were pushed after get_timebounds() that are earlier than the window.
IsLate(pv) == \E g \in Given(pv) : Less(g.ts, window.start)

\* A pending row is still pending after the step, or shown by it, or extract()
\* passes it over: a row of a buffer that lacks an earlier row of the output, or
\* was pushed to too late, and no row after the window.
IsKept(pv, r) ==
    \/ pv \in DOMAIN buffers' /\ r \in pendingRows'[pv]
    \/ r \in RowsOf(pv_.table', pv)
    \/ /\ Consuming /\ pv = cur
       /\ HasGapBefore(pv, r) \/ IsLate(pv)
       /\ LessEq(r.ts, window.end)

\* Every row that is pushed stays pending until it is shown, in whatever steps
\* it is buffered, joined and posted and whichever PVs are dropped, but for the
\* rows that extract() passes over, and those are of a PV that lacks an earlier
\* row of the output or came too late (tablebuffer.cpp:168-205,
\* taligntable.cpp:263-310, mergerMain.cpp:232-268).
RowsAreShownOrPassedOver ==
    [][\A pv \in DOMAIN buffers : \A r \in pendingRows[pv] : IsKept(pv, r)]_mergeVars
=============================================================================
