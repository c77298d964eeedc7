--------------------------- MODULE AlignedColumns ---------------------------
(***************************************************************************)
(* The columns of the merged table (mergerApp/src/taligntable.cpp): those  *)
(* of the inputs in the order of buffers_, each named after the number and *)
(* the PV of its input.  The writer takes these names apart again.         *)
(***************************************************************************)
EXTENDS Writer

\* The pieces it adds to names are strings, which the provers do not know.
ASSUME PiecesAssumption == {"tbl", "valid", "secondsPastEpoch", "nanoseconds", "pulseId"} \subseteq STRING

Valid == Column("BoolA", "valid")

\* prefixed_colspec(), up to the width of the number.
PrefixedColspec(idx, pvname, spec, labelSep, colSep) ==
    [type  |-> spec.type,
     name  |-> <<"tbl", ToString(idx)>> \o colSep \o spec.name,
     label |-> pvname \o labelSep \o spec.label]

\* What an input adds to the merged table: whether it has the row, and its data.
ColumnsOf(buffer) == <<Valid>> \o DataColumns(buffer.columns)

\* initialize(): buffers is a sequence of PVs with the columns of their tables.
MergedColumns(buffers, labelSep, colSep) ==
    LET Of(idx) ==
          LET specs == ColumnsOf(buffers[idx])
          IN  [i \in DOMAIN specs |-> PrefixedColspec(idx - 1, buffers[idx].pvname, specs[i], labelSep, colSep)]
    IN  FromDataColumns(FlattenSeq([idx \in DOMAIN buffers |-> Of(idx)]))

-----------------------------------------------------------------------------
Input == [pvname : Name, columns : Seq(ColumnSpec)]

\* Different numbers are written differently.
AreNumbered(buffers) ==
    \A i, j \in DOMAIN buffers :
      ToString(i - 1) \in STRING /\ (ToString(i - 1) = ToString(j - 1) => i = j)

\* The columns, the added one too, that have no separator.
Plain(specs, labelSep, colSep) ==
    {k \in DOMAIN specs : ~HasSeparator(specs[k].name, colSep) /\ ~HasSeparator(specs[k].label, labelSep)}

\* Inputs the naming is made for: PVs whose names have no separator, and columns
\* that either have none, and names of their own, or are named after signals.
Mergeable(buffers, labelSep, colSep) ==
    \A i \in DOMAIN buffers :
      LET specs == ColumnsOf(buffers[i])
          plain == Plain(specs, labelSep, colSep)
      IN  /\ 1 \in plain
          /\ \A k, l \in plain : specs[k].name # <<>> /\ (specs[k].name = specs[l].name => k = l)
          /\ NamedAfterSignals(specs, DOMAIN specs \ plain, labelSep, colSep)
          /\ ~HasSeparator(buffers[i].pvname, labelSep)
          /\ \A j \in DOMAIN buffers : buffers[i].pvname = buffers[j].pvname => i = j
=============================================================================
