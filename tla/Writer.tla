------------------------------- MODULE Writer -------------------------------
(***************************************************************************)
(* tabulator::Writer (writerApp/src/writer.cpp): the groups and datasets   *)
(* of an HDF5 file, which the columns of the first update decide.  In the  *)
(* root group are a dataset per time column and a group per signal, with a *)
(* dataset per data column of the signal.  The path of a dataset in it is  *)
(* a sequence of one or two names.                                         *)
(***************************************************************************)
EXTENDS TimeTable, SequencesExt

\* parts(): a name is taken apart at the last separator, of which substr(i+1)
\* leaves all but the first character in the suffix.
Occurrences(name, sep) ==
    {i \in 1 .. Len(name) - Len(sep) + 1 : SubSeq(name, i, i + Len(sep) - 1) = sep}

HasParts(name, sep) == Occurrences(name, sep) # {}

\* Mutant: it is taken apart at the first separator.
PartsAtFirst(name, sep) ==
    LET i == Min(Occurrences(name, sep))
    IN  [prefix |-> SubSeq(name, 1, i - 1), suffix |-> SubSeq(name, i + 1, Len(name))]

Parts(name, sep) ==
    LET i == Max(Occurrences(name, sep))
    IN  [prefix |-> SubSeq(name, 1, i - 1), suffix |-> SubSeq(name, i + 1, Len(name))]

\* pvxs_to_h5_type() throws for any other type.
H5Types == ScalarTypes \cup ArrayTypes

PvName(c, labelSep) == Parts(c.label, labelSep).prefix

\* The first data column of a signal makes its group.
MakesGroup(data, i, labelSep) ==
    \A j \in 1 .. i - 1 : PvName(data[j], labelSep) # PvName(data[i], labelSep)

Makers(data, labelSep) == {i \in 1 .. Len(data) : MakesGroup(data, i, labelSep)}

\* The members of a set of numbers, as a loop comes to them.
InOrder(S) == [k \in 1 .. Cardinality(S) |-> CHOOSE i \in S : Cardinality({j \in S : j <= i}) = k]

\* build_file_structure(): columns have the types of datasets, no name is empty
\* or used twice in its group, and a column finds the group that is named like
\* its prefix.
CanBeBuilt(columns, labelSep, colSep) ==
    LET data == DataColumns(columns)
        Path(i) == Parts(data[i].name, colSep)
    IN  /\ \A c \in ToSet(columns) : c.type \in H5Types
        /\ \A i \in 1 .. Len(data) : HasParts(data[i].label, labelSep) /\ HasParts(data[i].name, colSep)
        /\ \A i \in Makers(data, labelSep) :
             /\ Path(i).prefix \notin {<<>>} \cup {c.name : c \in ToSet(TimeColumns)}
             /\ \A j \in Makers(data, labelSep) : Path(i).prefix = Path(j).prefix => i = j
        /\ \A i \in 1 .. Len(data) :
             /\ \E j \in Makers(data, labelSep) : j <= i /\ Path(j).prefix = Path(i).prefix
             /\ Path(i).suffix # <<>>
             /\ \A j \in 1 .. i - 1 : Path(j) # Path(i)

\* What it builds: the groups with their signal, datasets_ with its paths, and
\* the lists of signals and prefixes.
Structure(columns, labelSep, colSep) ==
    LET data   == DataColumns(columns)
        makers == InOrder(Makers(data, labelSep))
        prefix(i) == Parts(data[i].name, colSep).prefix
    IN  [groups   |-> [p \in {prefix(i) : i \in Makers(data, labelSep)} |->
                         PvName(data[CHOOSE i \in Makers(data, labelSep) : prefix(i) = p], labelSep)],
         datasets |-> [name \in {c.name : c \in ToSet(data)} |-> Parts(name, colSep)],
         pvnames  |-> [k \in DOMAIN makers |-> PvName(data[makers[k]], labelSep)],
         prefixes |-> [k \in DOMAIN makers |-> prefix(makers[k])]]

\* Mutant: a later update is not held against the columns of the first one.
OnlyFirstFails(isFirst, columns, value, isBuilt) ==
    isFirst /\ (~IsTable(value) \/ ~isBuilt \/ Ragged(value))

\* write(): the first update sets the type and makes the structure; a later
\* one without rows is skipped whatever it is.
WriteFails(isFirst, columns, value, isBuilt) ==
    IF isFirst
    THEN ~IsTable(value) \/ ~isBuilt \/ Ragged(value)
    ELSE NumRows(value) > 0 /\ ~IsValid(columns, value)

-----------------------------------------------------------------------------
(***************************************************************************)
(* What a file should look like (documentation/BSAS-SC-Notes.md), without  *)
(* taking names apart: a column is named prefix, separator, suffix, and    *)
(* labelled signal, separator, suffix, and each signal has one prefix.     *)
(***************************************************************************)

\* The separators this is made for.
OneCharacter == [1 .. 1 -> STRING]

HasSeparator(name, sep) == \E i \in DOMAIN name : name[i] \in ToSet(sep)

\* The ways in which a name is a prefix and a suffix, both not empty.
Readings(name, sep) ==
    {r \in {[prefix |-> SubSeq(name, 1, i), suffix |-> SubSeq(name, i + Len(sep) + 1, Len(name))] :
              i \in 1 .. Len(name) - Len(sep) - 1} :
       name = r.prefix \o sep \o r.suffix /\ ~HasSeparator(r.suffix, sep)}

\* The columns of data at some places are named so.
NamedAfterSignals(data, places, labelSep, colSep) ==
    LET names  == [i \in places |-> Readings(data[i].name, colSep)]
        labels == [i \in places |-> Readings(data[i].label, labelSep)]
    IN  /\ \A i \in places : names[i] # {} /\ labels[i] # {}
        /\ \A i, j \in places : \A m \in names[i], n \in names[j], k \in labels[i], l \in labels[j] :
               /\ m = n => i = j
               /\ (k.prefix = l.prefix) = (m.prefix = n.prefix)
               /\ m.prefix \notin {t.name : t \in ToSet(TimeColumns)}

WellNamed(columns, labelSep, colSep) ==
    LET data == DataColumns(columns) IN NamedAfterSignals(data, DOMAIN data, labelSep, colSep)

\* The file can be built, each data column has its dataset in the group of its
\* signal, and the metadata name the group of each signal.
IsMirrored(columns, labelSep, colSep) ==
    LET file == Structure(columns, labelSep, colSep)
    IN  /\ CanBeBuilt(columns, labelSep, colSep)
        /\ \A c \in ToSet(DataColumns(columns)) :
             \A r \in Readings(c.name, colSep) : \A l \in Readings(c.label, labelSep) :
               /\ file.datasets[c.name] = r
               /\ file.groups[r.prefix] = l.prefix
               /\ \E k \in DOMAIN file.pvnames :
                    file.pvnames[k] = l.prefix /\ file.prefixes[k] = r.prefix
=============================================================================
