------------------------------ MODULE MCMerge -------------------------------
(***************************************************************************)
(* Small instances of Merge for TLC: two PVs and what they may send.       *)
(***************************************************************************)
EXTENDS MergeRefinement, TLC

CONSTANTS pvA, pvB, shape, other

At(t)        == [ts |-> t, utag |-> 0]
Tagged(t, u) == [ts |-> t, utag |-> u]

MCPVs     == {pvA, pvB}
MCShapes  == {shape, other}
MCGarbage == {At(0), At(9)}

\* The rows with these timestamps, in order.
Rows(stampSeq) == [i \in 1 .. Len(stampSeq) |-> [ts |-> stampSeq[i], id |-> i]]

\* Both PVs send the same timestamps; two rows share a time and differ in the tag.
LockstepRows == Rows(<<At(1), At(2), Tagged(3, 1), Tagged(3, 2), At(4), At(5), At(6)>>)

LockstepFeeds == {pvA :> LockstepRows @@ pvB :> LockstepRows}

\* The instances that send these are ones MergeImplementsAlignedMerge is about.
ASSUME LockstepMeetsHypotheses == Feeds = LockstepFeeds => SameStamps /\ NoLaggard

\* All of them are ones RowsAreNeverOverlooked is about, but for updates without rows.
ASSUME FeedsMeetHypotheses ==
    /\ StampsIncrease
    /\ \A f \in Feeds, pv \in PVs : \A i, j \in 1 .. Len(f[pv]) : i < j => f[pv][i].id < f[pv][j].id

\* All subsequences of rows with these timestamps: rows are missing in one
\* input and not in the other, and a PV may stay silent.
SomeOf(stampSeq) ==
    {Rows(SelectSeq(stampSeq, LAMBDA s : s \in S)) : S \in SUBSET {stampSeq[i] : i \in DOMAIN stampSeq}}

GapRows == SomeOf(<<At(1), At(2), At(4), At(7)>>)

GapFeeds == {pvA :> ra @@ pvB :> rb : ra \in GapRows, rb \in GapRows}

\* Enough rows for a buffer to fall behind the output and to be ahead of it
\* while one window is extracted.
JoinFeeds ==
    {pvA :> ra @@ pvB :> rb : ra \in SomeOf(<<At(1), At(2), At(4)>>), rb \in SomeOf(<<At(1), At(3), At(4), At(7)>>)}
=============================================================================
