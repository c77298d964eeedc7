---------------------------- MODULE AlignedMerge ----------------------------
(***************************************************************************)
(* What the merger promises (documentation/BSAS-SC-Notes.md, taligntable.h):*)
(* it joins the rows of several tables on their timestamps.  Rows arrive   *)
(* per input PV; a publication takes the earliest rows that are pending,   *)
(* of all PVs alike and spanning less than a period, and shows for each    *)
(* timestamp and PV the row with that timestamp, or that there is none.    *)
(* No row is lost or shown twice, and timestamps only grow.                *)
(***************************************************************************)
EXTENDS TimeStamps

CONSTANTS PVs, Period, NoRow

VARIABLES
    pending,    \* PV -> its rows that arrived and were not published
    shown       \* the table last published

vars == <<pending, shown>>

StampsOf(rows) == {r.ts : r \in rows}

Init ==
    /\ pending = [pv \in PVs |-> {}]
    /\ shown = [stamps |-> {}, cells |-> [pv \in {} |-> NoRow]]

\* New rows arrive from one PV, later than all it sent and all that is shown.
Arrive ==
    \E pv \in DOMAIN pending :
      LET new == pending'[pv] \ pending[pv]
      IN  /\ DOMAIN pending' = DOMAIN pending
          /\ \A q \in DOMAIN pending \ {pv} : pending'[q] = pending[q]
          /\ pending[pv] \subseteq pending'[pv]
          /\ \A r \in new, s \in StampsOf(pending[pv]) \cup shown.stamps : Less(s, r.ts)
          /\ UNCHANGED shown

\* Before the first publication, PVs that sent nothing may be given up.
GiveUp ==
    /\ shown.stamps = {}
    /\ DOMAIN pending' \subseteq DOMAIN pending
    /\ \A pv \in DOMAIN pending \ DOMAIN pending' : pending[pv] = {}
    /\ \A pv \in DOMAIN pending' : pending'[pv] = pending[pv]
    /\ UNCHANGED shown

Publish ==
    LET W   == shown'.stamps
        All == UNION {StampsOf(pending[pv]) : pv \in DOMAIN pending}
    IN  /\ W # {}
        /\ W \subseteq All
        /\ \A s \in W, o \in All : Less(o, s) => o \in W
        /\ \A s, o \in W : o.ts < s.ts + Period
        /\ \A s \in W, o \in shown.stamps : Less(o, s)
        /\ DOMAIN shown'.cells = DOMAIN pending
        /\ \A pv \in DOMAIN pending, s \in W :
             IF s \in StampsOf(pending[pv])
             THEN [ts |-> s, id |-> shown'.cells[pv][s]] \in pending[pv]
             ELSE shown'.cells[pv][s] = NoRow
        /\ pending' = [pv \in DOMAIN pending |-> {r \in pending[pv] : r.ts \notin W}]

Next == Arrive \/ GiveUp \/ Publish

Spec == Init /\ [][Next]_vars
=============================================================================
