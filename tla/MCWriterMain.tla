---------------------------- MODULE MCWriterMain ----------------------------
(***************************************************************************)
(* Small instances of WriterMain for TLC.                                  *)
(***************************************************************************)
EXTENDS WriterMain

-----------------------------------------------------------------------------
(***************************************************************************)
(* Updates.                                                                *)
(***************************************************************************)

\* A table of statistics of two signals, as a front end sends it; one of two
\* values without signals; and one whose columns are not named after signals.
Signals ==
    FromDataColumns(FlattenSeq([i \in 1 .. 2 |->
      LET pv == <<"pv0", "pv1">>[i]
          sig == <<"SIG0", "SIG1">>[i]
      IN  [k \in 1 .. 2 |->
             LET c == DataColumns(StatColumns)[k]
             IN  [c EXCEPT !.name = <<pv, "_">> \o @, !.label = <<sig, ".">> \o @]]]))

Stacked == ScalarColumns({"severity"})

Unnamed == FromDataColumns(<<[Column("Float64A", "a") EXCEPT !.name = <<"a", "_", "b">>]>>)

Buffer(pvname, columns) == [pvname |-> <<pvname>>, columns |-> columns]

SmallInputs ==
    {<<Buffer("T0", Signals)>>, <<Buffer("T0", Stacked), Buffer("T1", Signals)>>,
     <<Buffer("T0", Signals), Buffer("T1", Signals), Buffer("T2", Stacked)>>,
     <<Buffer("T0", Unnamed), Buffer("T1", Stacked)>>}

One == MergedColumns(<<Buffer("T0", SubSeq(Stacked, 1, 4))>>, <<".">>, <<"_">>)
Two == MergedColumns(<<Buffer("T0", Stacked), Buffer("T1", SubSeq(Signals, 1, 4))>>, <<".">>, <<"_">>)

\* The fields of an equal record, which TLC evaluates to compare them.
Rows == CHOOSE value \in {Create(One, 1)} : value = value

SmallTables ==
    [Rows       |-> Rows,
     Empty      |-> Create(One, 0),
     NotEven    |-> [Rows EXCEPT !.columns = [@ EXCEPT ![4] = [@ EXCEPT !.length = 2]]],
     NoTable    |-> [Rows EXCEPT !.columns = Tail(@), !.labels = Tail(@)],
     OtherTable |-> Create(Stacked, 1),
     Scalar     |-> [Rows EXCEPT !.columns = [@ EXCEPT ![4] = [@ EXCEPT !.type = "Float64"]]],
     NoFile     |-> Create(Unnamed, 1),
     Signals    |-> Create(Signals, 1),
     Merged     |-> Create(Two, 1)]

\* Updates without rows, before and after others, one that is skipped for what
\* it lacks, one with other columns than the one before, and an end by a disconnect or by an update that cannot be written.
MixedFeeds ==
    {<<"Empty", "Rows", "NoTable", "Rows", Disconnect>>, <<"Rows", "Empty", "NotEven", "Rows">>,
     <<"OtherTable", "Rows">>, <<"Signals", "Merged">>, <<"NoFile">>, <<"Scalar">>}

SteadyFeeds == {<<"Rows", "Rows", "Rows", "Rows", Disconnect>>}

SmallNumerals == [d \in {"0", "1", "2", "3", "5"} |->
                    CHOOSE n \in 0 .. 5 : ToString(n) = d]

DataDirectory == {<<"/data">>}

-----------------------------------------------------------------------------
(***************************************************************************)
(* Command lines: a good one, and what a hand may make of it.              *)
(***************************************************************************)

PairsOf(timeout, duration, size) ==
    << <<"--input-pv", "PV">>, <<"--base-directory", "/data">>, <<"--file-prefix", "cu">>,
       <<"--root-group", "cu">>, <<"--timeout-sec", timeout>>, <<"--max-duration-sec", duration>>,
       <<"--max-size-mb", size>>, <<"--label-sep", ".">>, <<"--column-sep", "_">> >>

LineOf(pairs) == FlattenSeq([i \in DOMAIN pairs |-> << <<pairs[i][1]>>, <<pairs[i][2]>> >>])

GoodPairs == PairsOf("1", "2", "1")
GoodLine == LineOf(GoodPairs)

\* In another order, and without an option.
Reordered == {LineOf(p) : p \in {Reverse(GoodPairs)} \cup
                {SubSeq(GoodPairs, k + 1, 9) \o SubSeq(GoodPairs, 1, k) : k \in 1 .. 8}}

Shortened == {LineOf(RemoveAt(GoodPairs, k)) : k \in 1 .. 9} \cup {LineOf(SubSeq(GoodPairs, 1, 5)), <<>>}

\* With a flag joined to its value, and the value split.
Joined ==
    UNION {{SubSeq(GoodLine, 1, 2 * k - 2) \o new \o SubSeq(GoodLine, 2 * k + 1, 18) :
              new \in {<<GoodPairs[k]>>, << GoodPairs[k], <<".", "1">> >>,
                       << <<GoodPairs[k][1]>>, <<GoodPairs[k][2]>>, <<".", "1">> >>,
                       << <<GoodPairs[k][1], "-", "1">> >>, << <<GoodPairs[k][1], "=", "1">> >>}}
           : k \in 1 .. 9}

\* With an argument lost, repeated, exchanged for the next or for another.
Broken ==
    {RemoveAt(GoodLine, k) : k \in 1 .. 18}
        \cup {InsertAt(GoodLine, k, GoodLine[k]) : k \in 1 .. 18}
        \cup {[GoodLine EXCEPT ![k] = GoodLine[k + 1], ![k + 1] = GoodLine[k]] : k \in 1 .. 17}
        \cup {[GoodLine EXCEPT ![k] = arg] : k \in 1 .. 18,
                arg \in {<<>>, <<"--root-group">>, <<"--label-sep">>}}

HandWritten == {GoodLine} \cup Reordered \cup Shortened \cup Joined \cup Broken

TimeoutLine == {LineOf(SubSeq(PairsOf("2", "5", "0"), 1, 6))}
=============================================================================
