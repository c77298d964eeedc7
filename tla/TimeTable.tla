----------------------------- MODULE TimeTable -----------------------------
(***************************************************************************)
(* The tables the programs exchange: an NTTable (nttableApp/tab/nttable.h) *)
(* whose first columns are the time of a row (commonApp/timetable.{h,cpp}).*)
(*                                                                         *)
(* A name or label is a sequence of pieces, a separator a piece or more of *)
(* its own.  A TimeTable is the list of its columns.  A value that arrives *)
(* is abstracted to its labels and to the types, names and lengths of its  *)
(* columns.                                                                *)
(***************************************************************************)
EXTENDS Integers, Sequences, FiniteSets

Name == Seq(STRING)

ScalarTypes ==
    {"Bool", "Int8", "Int16", "Int32", "Int64", "UInt8", "UInt16", "UInt32", "UInt64",
     "Float32", "Float64", "String"}

ArrayTypes ==
    {"BoolA", "Int8A", "Int16A", "Int32A", "Int64A", "UInt8A", "UInt16A", "UInt32A", "UInt64A",
     "Float32A", "Float64A", "StringA"}

TypeCode == ScalarTypes \cup ArrayTypes \cup {"Struct", "StructA"}

\* The assertions of its constructor: the elements are not compound.
ColumnSpec == [type : ArrayTypes, name : Name, label : Name]

\* A pvxs::Value, and which of the two fields of an NTTable it has.
Table ==
    [fields  : SUBSET {"labels", "value"},
     labels  : Seq(Name),
     columns : Seq([type : TypeCode, name : Name, length : Nat])]

\* COLSPEC
Column(type, str) == [type |-> type, name |-> <<str>>, label |-> <<str>>]

SecondsPastEpoch == Column("UInt32A", "secondsPastEpoch")
Nanoseconds == Column("UInt32A", "nanoseconds")
PulseId == Column("UInt64A", "pulseId")

TimeColumns == <<SecondsPastEpoch, Nanoseconds, PulseId>>

\* TimeTable(data_columns)
FromDataColumns(data) == TimeColumns \o data

DataColumns(columns) == SubSeq(columns, Len(TimeColumns) + 1, Len(columns))

-----------------------------------------------------------------------------
(***************************************************************************)
(* Values and types.                                                       *)
(***************************************************************************)

HasFields(value) == value.fields = {"labels", "value"}

HasLabels(value) == HasFields(value) /\ Len(value.labels) = Len(value.columns)

\* The time columns among the first n have their names, and may have any type.
HasTimeColumns(value, n) ==
    \A i \in DOMAIN TimeColumns :
      i <= n => i <= Len(value.columns) /\ value.columns[i].name = TimeColumns[i].name

\* from_value(): a value that can be a TimeTable.  Of a value with fewer columns
\* than the time columns, all of them named right, the constructor copies columns
\* past the end, which is undefined; of the outcomes this is the refusal, and no
\* instance has such a value.
IsTable(value) ==
    /\ HasLabels(value)
    /\ HasTimeColumns(value, Len(TimeColumns))
    /\ \A i \in 1 .. Len(value.columns) : value.columns[i].type \in ArrayTypes

\* An assertion fails before an error is found: epicsAssert suspends the thread.
Suspends(value) ==
    /\ HasLabels(value)
    /\ \E i \in 1 .. Len(value.columns) :
         value.columns[i].type \notin ArrayTypes /\ HasTimeColumns(value, i)

\* TimeTable(value)
FromValue(value) ==
    [i \in 1 .. Len(value.columns) |->
       [type |-> value.columns[i].type, name |-> value.columns[i].name, label |-> value.labels[i]]]

Lengths(value) == {value.columns[i].length : i \in 1 .. Len(value.columns)}

\* Columns of different lengths.
Ragged(value) == Cardinality(Lengths(value)) > 1

\* is_valid()
IsValid(columns, value) ==
    /\ HasFields(value)
    /\ Len(value.labels) = Len(columns)
    /\ Len(value.columns) = Len(columns)
    /\ \A i \in 1 .. Len(columns) :
         /\ value.labels[i] = columns[i].label
         /\ value.columns[i].name = columns[i].name
         /\ value.columns[i].type = columns[i].type
    /\ ~Ragged(value)

\* NTTable::create(), and set_column() of every column with arrays of n elements.
Create(columns, n) ==
    [fields  |-> {"labels", "value"},
     labels  |-> [i \in 1 .. Len(columns) |-> columns[i].label],
     columns |-> [i \in 1 .. Len(columns) |->
                    [type |-> columns[i].type, name |-> columns[i].name, length |-> n]]]

\* The size of get_column_as() of the first column; without it there is none.
NumRows(value) ==
    LET time == {i \in 1 .. Len(value.columns) : value.columns[i].name = SecondsPastEpoch.name}
    IN  IF ~HasFields(value) \/ time = {} THEN 0
        ELSE value.columns[CHOOSE i \in time : TRUE].length

-----------------------------------------------------------------------------
(***************************************************************************)
(* The tables of the inputs.                                               *)
(***************************************************************************)

ScalarSpecs ==
    <<Column("Float64A", "value"), Column("UInt64A", "utag"), Column("UInt16A", "severity"),
      Column("UInt16A", "condition"), Column("StringA", "message")>>

\* from_columns_config(): scalar is the set of the columns besides the value.
FromColumnsConfig(scalar) == SelectSeq(ScalarSpecs, LAMBDA c : c.name[1] \in scalar \cup {"value"})

ScalarColumns(scalar) == FromDataColumns(FromColumnsConfig(scalar))

StatSpecs ==
    <<Column("Float64A", "VAL"), Column("UInt32A", "CNT"), Column("Float64A", "MIN"),
      Column("Float64A", "MAX"), Column("Float64A", "AVG"), Column("Float64A", "RMS")>>

StatColumns == FromDataColumns(StatSpecs)
=============================================================================
