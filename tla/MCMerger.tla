----------------------------- MODULE MCMerger ------------------------------
(***************************************************************************)
(* Small instances of Merger for TLC: two PVs that send a few updates.     *)
(***************************************************************************)
EXTENDS Merger, SequencesExt

CONSTANTS pvA, pvB, shape, other

MCPVs     == {pvA, pvB}
MCShapes  == {shape, other}
MCGarbage == {[ts |-> 0, utag |-> 0]}

Sent(sh, t, n) == [shape |-> sh, ragged |-> FALSE, rows |-> <<[ts |-> [ts |-> t, utag |-> 0], id |-> n]>>]

BothListed == <<pvA, pvB>>

\* pvB reconnects with another type: its second update is refused.
Retyped ==
    pvA :> <<Connected, Sent(shape, 1, 1), Sent(shape, 4, 2)>> @@
    pvB :> <<Connected, Sent(shape, 1, 1), Disconnected, Sent(other, 2, 2)>>

-----------------------------------------------------------------------------
(***************************************************************************)
(* Command lines: a good one, and what a hand may make of it.              *)
(***************************************************************************)

SmallNumerals == "1" :> 1 @@ "2" :> 2 @@ "3" :> 3

PairsOf(timeout) ==
    << <<"--pvlist", "pvs">>, <<"--period-sec", "2">>, <<"--timeout-sec", timeout>>,
       <<"--pvname", "OUT">>, <<"--label-sep", ".">>, <<"--column-sep", "_">> >>

LineOf(pairs) == FlattenSeq([i \in DOMAIN pairs |-> << <<pairs[i][1]>>, <<pairs[i][2]>> >>])

GoodPairs == PairsOf("3")
GoodLine == LineOf(GoodPairs)
ShortLine == LineOf(SubSeq(GoodPairs, 1, 4))

\* In every order without the separators, and in some with them.
Reordered ==
    {LineOf([i \in 1 .. 4 |-> GoodPairs[p[i]]]) : p \in Permutations(1 .. 4)}
        \cup {LineOf(SubSeq(GoodPairs, k + 1, 6) \o SubSeq(GoodPairs, 1, k)) : k \in 0 .. 5}
        \cup {LineOf(Reverse(GoodPairs))}

\* A timeout that is less than the period, equal to it, not a number.
BadTimeouts == {LineOf(PairsOf("1")), LineOf(PairsOf("2")), ReplaceAt(GoodLine, 6, <<"-", "3">>)}

\* With a flag joined to its value, and the value split.
Joined ==
    UNION {{SubSeq(GoodLine, 1, 2 * k - 2) \o new \o SubSeq(GoodLine, 2 * k + 1, 12) :
              new \in {<<GoodPairs[k]>>, << GoodPairs[k], <<".", "1">> >>,
                       << <<GoodPairs[k][1]>>, <<GoodPairs[k][2]>>, <<".", "1">> >>}}
           : k \in 1 .. 6}

\* With an argument lost, repeated, or exchanged for the next or for another.
Broken ==
    {RemoveAt(GoodLine, k) : k \in 1 .. 12} \cup {RemoveAt(ShortLine, k) : k \in 1 .. 8}
        \cup {InsertAt(GoodLine, k, GoodLine[k]) : k \in 1 .. 12}
        \cup {SubSeq(GoodLine, 1, 2 * k) \o GoodLine : k \in 1 .. 6}
        \cup {ReplaceAt(ReplaceAt(GoodLine, k, GoodLine[k + 1]), k + 1, GoodLine[k]) : k \in 1 .. 11}
        \cup {ReplaceAt(GoodLine, k, arg) : k \in 1 .. 12,
                arg \in {<<>>, <<"--pvname">>, <<"--label-sep">>, <<"--pvlist", "pvs">>}}

HandWritten == {<<>>, ShortLine, LineOf(RemoveAt(GoodPairs, 3))} \cup Reordered \cup BadTimeouts \cup Joined \cup Broken
=============================================================================
