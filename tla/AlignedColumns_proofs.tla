------------------------ MODULE AlignedColumns_proofs ------------------------
(***************************************************************************)
(* The names the merger makes for its columns are taken apart by the       *)
(* writer as they were put together, for any inputs, columns and           *)
(* separators of one character.                                            *)
(***************************************************************************)
EXTENDS AlignedColumns, FiniteSetTheorems, SequenceTheorems, NaturalsInduction, WellFoundedInduction, TLAPS

-----------------------------------------------------------------------------
(***************************************************************************)
(* Sets of numbers.                                                        *)
(***************************************************************************)

LEMMA LeastOf ==
    ASSUME NEW S, S \subseteq Nat, S # {}
    PROVE  \E n \in S : \A m \in S : n <= m
  <1> DEFINE before == OpToRel(<, Nat)
  <1>1. ASSUME NEW m \in Nat, NEW n \in Nat, m < n
        PROVE  <<m, n>> \in before
    BY <1>1, Zenon DEF OpToRel
  <1>2. IsWellFoundedOn(before, Nat)
    BY NatLessThanWellFounded, Zenon
  <1> HIDE DEF before
  <1>3. PICK n \in S : \A m \in S : ~(<<m, n>> \in before)
    BY <1>2, WFMin
  <1>4. ASSUME NEW m \in S
        PROVE  n <= m
    <2>1. ~(m < n)
      BY <1>1, <1>3
    <2> QED
      BY <2>1
  <1> QED
    BY <1>4

\* A set of numbers that has the next of each up to n, has n.
LEMMA ReachesAll ==
    ASSUME NEW n \in Nat, NEW S, 0 \in S, \A k \in 0 .. n - 1 : k \in S => k + 1 \in S
    PROVE  n \in S
  <1> SUFFICES ASSUME n \notin S PROVE FALSE
    OBVIOUS
  <1> DEFINE missing == {k \in 0 .. n : k \notin S}
  <1>1. PICK k \in missing : \A m \in missing : k <= m
    <2>1. missing \subseteq Nat /\ n \in missing
      OBVIOUS
    <2> HIDE DEF missing
    <2> QED
      BY <2>1, LeastOf
  <1>2. k # 0 /\ k \in 0 .. n
    BY <1>1
  <1>3. k - 1 \in 0 .. n - 1 /\ ~(k <= k - 1)
    BY <1>2
  <1>4. k - 1 \in S
    BY <1>1, <1>2, <1>3
  <1>5. k - 1 + 1 = k
    BY <1>2
  <1> QED
    BY <1>1, <1>3, <1>4, <1>5

LEMMA MaxExists ==
    ASSUME NEW n \in Nat, NEW S, S \subseteq 1 .. n, S # {}
    PROVE  Max(S) \in S /\ \A k \in S : k <= Max(S)
  <1> DEFINE mirror == {n - k : k \in S}
  <1>1. PICK l \in mirror : \A m \in mirror : l <= m
    <2>1. \A k \in S : n - k \in Nat
      <3>1. \A k \in 1 .. n : n - k \in Nat
        OBVIOUS
      <3> QED
        BY <3>1
    <2>2. mirror \subseteq Nat /\ mirror # {}
      BY <2>1
    <2> HIDE DEF mirror
    <2> QED
      BY <2>2, LeastOf
  <1>2. PICK g \in S : l = n - g
    BY <1>1
  <1>3. ASSUME NEW k \in S
        PROVE  g >= k
    <2>1. n - g <= n - k
      BY <1>1, <1>2
    <2>2. g \in 1 .. n /\ k \in 1 .. n
      OBVIOUS
    <2> QED
      BY <2>1, <2>2
  <1>4. Max(S) \in S /\ \A k \in S : Max(S) >= k
    BY <1>3 DEF Max
  <1> QED
    BY <1>4

\* InOrder leaves none out.
LEMMA InOrderHasAll ==
    ASSUME NEW n \in Nat, NEW S, S \subseteq 1 .. n, NEW i \in S
    PROVE  \E k \in DOMAIN InOrder(S) : InOrder(S)[k] = i
  <1> DEFINE upTo(j) == {m \in S : m <= j}
             rank(j) == Cardinality(upTo(j))
  <1>1. IsFiniteSet(S)
    <2>1. IsFiniteSet(1 .. n)
      BY FS_Interval
    <2> QED
      BY <2>1, FS_Subset
  <1>2. ASSUME NEW j \in S
        PROVE  IsFiniteSet(upTo(j)) /\ rank(j) \in Nat
    BY <1>1, FS_Subset, FS_CardinalityType
  <1>3. rank(i) \in 1 .. Cardinality(S)
    <2>1. rank(i) <= Cardinality(S)
      BY <1>1, FS_Subset
    <2>2. rank(i) # 0
      <3>1. i \in upTo(i)
        OBVIOUS
      <3> QED
        BY <1>2, <3>1, FS_EmptySet
    <2>3. Cardinality(S) \in Nat
      BY <1>1, FS_CardinalityType
    <2> QED
      BY <1>2, <2>1, <2>2, <2>3
  <1>4. ASSUME NEW j \in S, rank(j) = rank(i)
        PROVE  j = i
    <2>1. ASSUME NEW a \in S, NEW b \in S, a < b, rank(a) = rank(b)
          PROVE  FALSE
      <3>0. a \in Nat /\ b \in Nat /\ \A m \in S : m \in Nat
        OBVIOUS
      <3>1. upTo(a) \subseteq upTo(b)
        <4>1. \A m \in S : m <= a => m <= b
          BY <2>1, <3>0
        <4> QED
          BY <4>1
      <3>2. upTo(a) = upTo(b)
        BY <1>2, <2>1, <3>1, FS_Subset
      <3>3. b \in upTo(b) /\ b \notin upTo(a)
        BY <2>1, <3>0
      <3> QED
        BY <3>2, <3>3
    <2>2. i < j \/ j < i \/ i = j
      OBVIOUS
    <2> QED
      BY <1>4, <2>1, <2>2
  <1>5. (CHOOSE j \in S : rank(j) = rank(i)) = i
    BY <1>4
  <1> QED
    BY <1>3, <1>5 DEF InOrder

-----------------------------------------------------------------------------
(***************************************************************************)
(* Names.                                                                  *)
(***************************************************************************)

LEMMA OneCharacterIsName ==
    ASSUME NEW sep \in OneCharacter
    PROVE  sep \in Name /\ Len(sep) = 1 /\ sep[1] \in STRING /\ sep = <<sep[1]>>
  <1>1. sep \in Seq(STRING)
    BY SeqDef DEF OneCharacter
  <1>2. Len(sep) = 1
    BY <1>1, LenProperties DEF OneCharacter
  <1> QED
    BY <1>1, <1>2, SeqEqual DEF OneCharacter, Name

LEMMA OccurrencesOfPiece ==
    ASSUME NEW sep \in OneCharacter, NEW name \in Name
    PROVE  Occurrences(name, sep) = {i \in 1 .. Len(name) : name[i] = sep[1]}
  <1>1. sep \in Seq(STRING) /\ Len(sep) = 1 /\ Len(name) \in Nat
    BY OneCharacterIsName DEF Name
  <1>2. ASSUME NEW i \in 1 .. Len(name)
        PROVE  SubSeq(name, i, i) = sep <=> name[i] = sep[1]
    <2>1. SubSeq(name, i, i) \in Seq(STRING) /\ Len(SubSeq(name, i, i)) = 1 /\ SubSeq(name, i, i)[1] = name[i]
      BY SubSeqProperties DEF Name
    <2> QED
      BY <1>1, <2>1, SeqEqual
  <1>3. Len(name) - Len(sep) + 1 = Len(name) /\ \A i \in 1 .. Len(name) : i + Len(sep) - 1 = i
    BY <1>1
  <1> QED
    BY <1>2, <1>3 DEF Occurrences

\* A name is taken apart where it was put together, when the suffix has no separator.
LEMMA PartsOfConcat ==
    ASSUME NEW sep \in OneCharacter, NEW a \in Name, NEW b \in Name, ~HasSeparator(b, sep)
    PROVE  /\ a \o sep \o b \in Name
           /\ HasParts(a \o sep \o b, sep)
           /\ Parts(a \o sep \o b, sep) = [prefix |-> a, suffix |-> b]
  <1> DEFINE name == a \o sep \o b
             at == Len(a) + 1
  <1>1. sep \in Seq(STRING) /\ Len(sep) = 1 /\ Len(a) \in Nat /\ Len(b) \in Nat /\ at \in Nat
    BY OneCharacterIsName DEF Name
  <1>2. /\ name \in Name
        /\ Len(name) = Len(a) + 1 + Len(b)
        /\ \A i \in 1 .. Len(a) : name[i] = a[i]
        /\ name[at] = sep[1]
        /\ \A i \in 1 .. Len(b) : name[at + i] = b[i]
    <2>1. a \in Seq(STRING) /\ b \in Seq(STRING)
      BY DEF Name
    <2>2. a \o sep \in Seq(STRING) /\ Len(a \o sep) = at
      <3>1. a \o sep \in Seq(STRING) /\ Len(a \o sep) = Len(a) + Len(sep)
        BY <1>1, <2>1, ConcatProperties
      <3> QED
        BY <1>1, <3>1
    <2>3. \A i \in 1 .. at : (a \o sep)[i] = IF i <= Len(a) THEN a[i] ELSE sep[i - Len(a)]
      BY <1>1, <2>1, ConcatProperties
    <2>4. \A i \in 1 .. at + Len(b) : name[i] = IF i <= at THEN (a \o sep)[i] ELSE b[i - at]
      BY <1>1, <2>1, <2>2, ConcatProperties
    <2>5. name \in Seq(STRING) /\ Len(name) = at + Len(b)
      <3>1. name \in Seq(STRING) /\ Len(name) = Len(a \o sep) + Len(b)
        BY <2>1, <2>2, ConcatProperties
      <3> QED
        BY <2>2, <3>1
    <2>6. \A i \in 1 .. Len(a) : name[i] = a[i]
      BY <1>1, <2>3, <2>4
    <2>7. name[at] = sep[1]
      BY <1>1, <2>3, <2>4
    <2>8. ASSUME NEW i \in 1 .. Len(b)
          PROVE  name[at + i] = b[i]
      <3>1. at + i \in 1 .. at + Len(b) /\ ~(at + i <= at) /\ at + i - at = i
        BY <1>1
      <3> HIDE DEF name, at
      <3>2. name[at + i] = b[at + i - at]
        BY <1>1, <2>4, <3>1
      <3> QED
        BY <1>1, <3>1, <3>2
    <2> QED
      BY <1>1, <2>5, <2>6, <2>7, <2>8 DEF Name
  <1> HIDE DEF name
  <1>3. \A i \in 1 .. Len(b) : b[i] # sep[1]
    BY <1>1 DEF HasSeparator, ToSet, Name
  <1>4. Occurrences(name, sep) = {i \in 1 .. Len(name) : name[i] = sep[1]}
    BY <1>2, OccurrencesOfPiece
  <1>5. at \in Occurrences(name, sep)
    BY <1>1, <1>2, <1>4
  <1>6. \A i \in Occurrences(name, sep) : i <= at
    <2> SUFFICES ASSUME NEW i \in 1 .. Len(name), name[i] = sep[1], ~(i <= at) PROVE FALSE
      BY <1>4
    <2>1. i - at \in 1 .. Len(b) /\ at + (i - at) = i
      <3>1. Len(name) = at + Len(b) /\ i \in Nat /\ i > at
        BY <1>1, <1>2
      <3> QED
        BY <1>1, <3>1
    <2>2. name[at + (i - at)] = b[i - at]
      BY <1>2, <2>1
    <2> QED
      BY <1>3, <2>1, <2>2
  <1>7. Max(Occurrences(name, sep)) = at
    <2>1. /\ Max(Occurrences(name, sep)) \in Occurrences(name, sep)
          /\ \A k \in Occurrences(name, sep) : k <= Max(Occurrences(name, sep))
      <3>1. Len(name) \in Nat
        BY <1>1, <1>2
      <3>2. Occurrences(name, sep) \subseteq 1 .. Len(name) /\ Occurrences(name, sep) # {}
        BY <1>4, <1>5
      <3> QED
        BY <3>1, <3>2, MaxExists
    <2>2. Max(Occurrences(name, sep)) <= at /\ at <= Max(Occurrences(name, sep))
      BY <1>5, <1>6, <2>1
    <2>3. Max(Occurrences(name, sep)) \in Nat
      BY <1>4, <2>1
    <2> QED
      BY <1>1, <2>2, <2>3
  <1>8. SubSeq(name, 1, at - 1) = a
    BY <1>1, <1>2 DEF Name
  <1>9. SubSeq(name, at + 1, Len(name)) = b
    <2> DEFINE tail == SubSeq(name, at + 1, Len(name))
    <2>1. name \in Seq(STRING) /\ b \in Seq(STRING) /\ at + 1 \in 1 .. Len(name) + 1 /\ Len(name) \in 0 .. Len(name)
      BY <1>1, <1>2 DEF Name
    <2>2. tail \in Seq(STRING) /\ Len(tail) = Len(b) /\ \A i \in 1 .. Len(b) : tail[i] = name[at + i]
      BY <1>1, <1>2, <2>1, SubSeqProperties
    <2> HIDE DEF tail
    <2>3. tail = b
      BY <1>2, <2>1, <2>2, SeqEqual
    <2> QED
      BY <2>3 DEF tail
  <1>10. HasParts(name, sep) /\ Parts(name, sep) = [prefix |-> a, suffix |-> b]
    BY <1>5, <1>7, <1>8, <1>9 DEF HasParts, Parts
  <1> QED
    BY <1>2, <1>10 DEF name

\* A reading of a name is what parts() makes of it.
LEMMA ReadingIsParts ==
    ASSUME NEW sep \in OneCharacter, NEW name \in Name, NEW r \in Readings(name, sep)
    PROVE  /\ HasParts(name, sep) /\ Parts(name, sep) = r
           /\ r.prefix \in Name \ {<<>>} /\ r.suffix \in Name \ {<<>>}
           /\ name = r.prefix \o sep \o r.suffix /\ ~HasSeparator(r.suffix, sep)
  <1>1. Len(sep) = 1 /\ Len(name) \in Nat
    BY DEF OneCharacter, Name
  <1>2. PICK i \in 1 .. Len(name) - Len(sep) - 1 :
          r = [prefix |-> SubSeq(name, 1, i), suffix |-> SubSeq(name, i + Len(sep) + 1, Len(name))]
    BY DEF Readings
  <1>3. name = r.prefix \o sep \o r.suffix /\ ~HasSeparator(r.suffix, sep)
    BY DEF Readings
  <1>4. /\ r.prefix \in Name /\ Len(r.prefix) = i
        /\ r.suffix \in Name /\ Len(r.suffix) = Len(name) - i - 1
    <2>1. i \in 1 .. Len(name) - 2
      BY <1>1
    <2>2. SubSeq(name, 1, i) \in Seq(STRING) /\ Len(SubSeq(name, 1, i)) = i
      BY <1>1, <2>1, SubSeqProperties DEF Name
    <2>3. SubSeq(name, i + 2, Len(name)) \in Seq(STRING) /\ Len(SubSeq(name, i + 2, Len(name))) = Len(name) - i - 1
      BY <1>1, <2>1, SubSeqProperties DEF Name
    <2> QED
      BY <1>1, <1>2, <2>1, <2>2, <2>3 DEF Name
  <1>5. r.prefix # <<>> /\ r.suffix # <<>>
    BY <1>1, <1>4
  <1>6. r = [prefix |-> r.prefix, suffix |-> r.suffix]
    BY <1>2
  <1> QED
    BY <1>3, <1>4, <1>5, <1>6, PartsOfConcat

-----------------------------------------------------------------------------
(***************************************************************************)
(* The file.                                                               *)
(***************************************************************************)

PathOf(c, colSep) == Parts(c.name, colSep)

\* Data columns a file can mirror, in terms of what parts() makes of their names.
Named(data, labelSep, colSep) ==
    /\ \A i \in 1 .. Len(data) :
         /\ HasParts(data[i].label, labelSep) /\ HasParts(data[i].name, colSep)
         /\ PathOf(data[i], colSep).prefix \notin {<<>>} \cup {t.name : t \in ToSet(TimeColumns)}
         /\ PathOf(data[i], colSep).suffix # <<>>
    /\ \A i, j \in 1 .. Len(data) :
         /\ PathOf(data[i], colSep) = PathOf(data[j], colSep) => i = j
         /\ PvName(data[i], labelSep) = PvName(data[j], labelSep)
              <=> PathOf(data[i], colSep).prefix = PathOf(data[j], colSep).prefix

LEMMA DataTypes ==
    ASSUME NEW columns \in Seq(ColumnSpec)
    PROVE  /\ DataColumns(columns) \in Seq(ColumnSpec)
           /\ Len(DataColumns(columns)) \in Nat
           /\ DOMAIN DataColumns(columns) = 1 .. Len(DataColumns(columns))
           /\ ToSet(DataColumns(columns)) = {DataColumns(columns)[i] : i \in 1 .. Len(DataColumns(columns))}
           /\ \A c \in ToSet(columns) : c.type \in H5Types
  <1>1. Len(TimeColumns) = 3
    BY DEF TimeColumns
  <1>2. DataColumns(columns) \in Seq(ColumnSpec)
    <2>1. \A i \in 4 .. Len(columns) : columns[i] \in ColumnSpec
      OBVIOUS
    <2>2. SubSeq(columns, 4, Len(columns)) \in Seq(ColumnSpec)
      BY <2>1, SubSeqProperties
    <2> QED
      BY <1>1, <2>2 DEF DataColumns
  <1>3. \A c \in ToSet(columns) : c.type \in H5Types
    <2>1. \A i \in DOMAIN columns : columns[i] \in ColumnSpec
      OBVIOUS
    <2> QED
      BY <2>1 DEF ToSet, ColumnSpec, H5Types
  <1> QED
    BY <1>2, <1>3 DEF ToSet

\* Each signal has a column that makes its group, no later than it is needed.
LEMMA MakerOf ==
    ASSUME NEW data, Len(data) \in Nat, NEW labelSep, NEW i \in 1 .. Len(data)
    PROVE  \E m \in Makers(data, labelSep) : m <= i /\ PvName(data[m], labelSep) = PvName(data[i], labelSep)
  <1> DEFINE same == {j \in 1 .. Len(data) : PvName(data[j], labelSep) = PvName(data[i], labelSep)}
  <1>1. PICK m \in same : \A j \in same : m <= j
    <2>1. same \subseteq Nat /\ i \in same
      OBVIOUS
    <2> HIDE DEF same
    <2> QED
      BY <2>1, LeastOf
  <1>2. m <= i /\ m \in 1 .. Len(data) /\ PvName(data[m], labelSep) = PvName(data[i], labelSep)
    BY <1>1
  <1>3. ASSUME NEW j \in 1 .. m - 1, PvName(data[j], labelSep) = PvName(data[m], labelSep)
        PROVE  FALSE
    <2>1. j \in 1 .. Len(data) /\ ~(m <= j)
      BY <1>2
    <2>2. j \in same
      BY <1>2, <1>3, <2>1
    <2> QED
      BY <1>1, <2>1, <2>2
  <1>4. m \in Makers(data, labelSep)
    BY <1>2, <1>3 DEF Makers, MakesGroup
  <1> QED
    BY <1>2, <1>4

LEMMA NamedCanBeBuilt ==
    ASSUME NEW labelSep, NEW colSep, NEW columns \in Seq(ColumnSpec),
           Named(DataColumns(columns), labelSep, colSep)
    PROVE  CanBeBuilt(columns, labelSep, colSep)
  <1> DEFINE data == DataColumns(columns)
             Path(i) == Parts(data[i].name, colSep)
  <1>1. Len(data) \in Nat /\ \A c \in ToSet(columns) : c.type \in H5Types
    BY DataTypes
  <1> HIDE DEF data
  <1>2. \A i \in 1 .. Len(data) :
          /\ HasParts(data[i].label, labelSep) /\ HasParts(data[i].name, colSep)
          /\ Path(i).prefix \notin {<<>>} \cup {t.name : t \in ToSet(TimeColumns)}
          /\ Path(i).suffix # <<>>
    BY DEF Named, PathOf, data
  <1>3. \A i, j \in 1 .. Len(data) :
          /\ Path(i) = Path(j) => i = j
          /\ PvName(data[i], labelSep) = PvName(data[j], labelSep) <=> Path(i).prefix = Path(j).prefix
    BY DEF Named, PathOf, data
  <1> HIDE DEF Path
  <1>4. ASSUME NEW i \in Makers(data, labelSep), NEW j \in Makers(data, labelSep), Path(i).prefix = Path(j).prefix
        PROVE  i = j
    <2>1. i \in 1 .. Len(data) /\ j \in 1 .. Len(data) /\ PvName(data[i], labelSep) = PvName(data[j], labelSep)
      BY <1>3, <1>4 DEF Makers
    <2>2. ~(i < j) /\ ~(j < i)
      BY <2>1 DEF Makers, MakesGroup
    <2> QED
      BY <2>1, <2>2
  <1>5. ASSUME NEW i \in 1 .. Len(data)
        PROVE  /\ \E j \in Makers(data, labelSep) : j <= i /\ Path(j).prefix = Path(i).prefix
               /\ \A j \in 1 .. i - 1 : Path(j) # Path(i)
    <2>1. PICK j \in Makers(data, labelSep) : j <= i /\ PvName(data[j], labelSep) = PvName(data[i], labelSep)
      BY <1>1, MakerOf
    <2>2. Path(j).prefix = Path(i).prefix
      BY <1>3, <2>1 DEF Makers
    <2>3. ASSUME NEW k \in 1 .. i - 1
          PROVE  Path(k) # Path(i)
      <3>1. k \in 1 .. Len(data) /\ k # i
        BY <1>1
      <3> QED
        BY <1>3, <3>1
    <2> QED
      BY <2>1, <2>2, <2>3
  <1>6. Makers(data, labelSep) \subseteq 1 .. Len(data)
    BY DEF Makers
  <1> QED
    BY <1>1, <1>2, <1>4, <1>5, <1>6 DEF CanBeBuilt, data, Path

LEMMA NamedIsMirrored ==
    ASSUME NEW labelSep \in OneCharacter, NEW colSep \in OneCharacter, NEW columns \in Seq(ColumnSpec),
           Named(DataColumns(columns), labelSep, colSep)
    PROVE  IsMirrored(columns, labelSep, colSep)
  <1> DEFINE data == DataColumns(columns)
             makers == Makers(data, labelSep)
             prefix(i) == Parts(data[i].name, colSep).prefix
             file == Structure(columns, labelSep, colSep)
  <1>1. Len(data) \in Nat /\ data \in Seq(ColumnSpec) /\ ToSet(data) = {data[i] : i \in 1 .. Len(data)}
    BY DataTypes
  <1>2. \A i, j \in 1 .. Len(data) :
          PvName(data[i], labelSep) = PvName(data[j], labelSep) <=> prefix(i) = prefix(j)
    BY DEF Named, PathOf
  <1>3. makers \subseteq 1 .. Len(data)
    BY DEF Makers
  <1>4. ASSUME NEW i \in 1 .. Len(data), NEW r \in Readings(data[i].name, colSep), NEW l \in Readings(data[i].label, labelSep)
        PROVE  /\ file.datasets[data[i].name] = r
               /\ file.groups[r.prefix] = l.prefix
               /\ \E k \in DOMAIN file.pvnames : file.pvnames[k] = l.prefix /\ file.prefixes[k] = r.prefix
    <2>1. data[i].name \in Name /\ data[i].label \in Name
      <3>1. data[i] \in ColumnSpec
        <4> HIDE DEF data
        <4> QED
          BY <1>1
      <3> QED
        BY <3>1 DEF ColumnSpec
    <2>2. Parts(data[i].name, colSep) = r /\ Parts(data[i].label, labelSep) = l
      BY <2>1, ReadingIsParts
    <2>3. PvName(data[i], labelSep) = l.prefix /\ prefix(i) = r.prefix
      BY <2>2 DEF PvName
    <2>4. PICK m \in makers : m <= i /\ PvName(data[m], labelSep) = PvName(data[i], labelSep)
      BY <1>1, MakerOf
    <2>5. prefix(m) = prefix(i) /\ m \in 1 .. Len(data)
      BY <1>2, <1>3, <2>4
    <2> HIDE DEF data
    <2>6. file.datasets[data[i].name] = r
      <3>1. data[i].name \in {c.name : c \in ToSet(data)}
        BY <1>1
      <3>2. file.datasets = [name \in {c.name : c \in ToSet(data)} |-> Parts(name, colSep)]
        BY DEF Structure, data
      <3> HIDE DEF file
      <3> QED
        BY <2>2, <3>1, <3>2
    <2>7. file.groups[r.prefix] = l.prefix
      <3> DEFINE m2 == CHOOSE j \in makers : prefix(j) = r.prefix
      <3>1. file.groups = [p \in {prefix(j) : j \in makers} |-> PvName(data[CHOOSE j \in makers : prefix(j) = p], labelSep)]
        BY DEF Structure, data
      <3>2. m2 \in makers /\ prefix(m2) = r.prefix
        BY <2>3, <2>4, <2>5
      <3>3. PvName(data[m2], labelSep) = l.prefix
        BY <1>2, <1>3, <2>3, <3>2
      <3>4. r.prefix \in {prefix(j) : j \in makers}
        BY <3>2
      <3> HIDE DEF file, makers, prefix
      <3> QED
        BY <3>1, <3>3, <3>4
    <2>8. \E k \in DOMAIN file.pvnames : file.pvnames[k] = l.prefix /\ file.prefixes[k] = r.prefix
      <3>1. PICK k \in DOMAIN InOrder(makers) : InOrder(makers)[k] = m
        BY <1>1, <1>3, <2>4, InOrderHasAll
      <3>2. /\ file.pvnames = [n \in DOMAIN InOrder(makers) |-> PvName(data[InOrder(makers)[n]], labelSep)]
            /\ file.prefixes = [n \in DOMAIN InOrder(makers) |-> prefix(InOrder(makers)[n])]
        BY DEF Structure, data
      <3> HIDE DEF file, makers
      <3> QED
        BY <2>3, <2>4, <2>5, <3>1, <3>2
    <2> QED
      BY <2>6, <2>7, <2>8
  <1>5. CanBeBuilt(columns, labelSep, colSep)
    BY NamedCanBeBuilt
  <1> QED
    BY <1>1, <1>4, <1>5 DEF IsMirrored

\* A table that names its columns after signals is mirrored.
LEMMA WellNamedIsMirrored ==
    ASSUME NEW labelSep \in OneCharacter, NEW colSep \in OneCharacter, NEW columns \in Seq(ColumnSpec),
           WellNamed(columns, labelSep, colSep)
    PROVE  IsMirrored(columns, labelSep, colSep)
  <1> DEFINE data == DataColumns(columns)
             names == [i \in DOMAIN data |-> Readings(data[i].name, colSep)]
             labels == [i \in DOMAIN data |-> Readings(data[i].label, labelSep)]
  <1>1. DOMAIN data = 1 .. Len(data) /\ \A i \in 1 .. Len(data) : data[i].name \in Name /\ data[i].label \in Name
    <2>1. data \in Seq(ColumnSpec) /\ DOMAIN data = 1 .. Len(data)
      BY DataTypes
    <2> HIDE DEF data
    <2>2. \A i \in 1 .. Len(data) : data[i] \in ColumnSpec
      BY <2>1
    <2> QED
      BY <2>1, <2>2 DEF ColumnSpec
  <1>2. /\ \A i \in DOMAIN data : names[i] # {} /\ labels[i] # {}
        /\ \A i, j \in DOMAIN data : \A m \in names[i], n \in names[j], k \in labels[i], l \in labels[j] :
             /\ m = n => i = j
             /\ (k.prefix = l.prefix) = (m.prefix = n.prefix)
             /\ m.prefix \notin {t.name : t \in ToSet(TimeColumns)}
    BY DEF WellNamed, NamedAfterSignals
  <1> HIDE DEF data
  <1>3. \A i \in 1 .. Len(data) :
          /\ names[i] = Readings(data[i].name, colSep) /\ labels[i] = Readings(data[i].label, labelSep)
    BY <1>1
  <1> HIDE DEF names, labels
  <1>4. ASSUME NEW i \in 1 .. Len(data)
        PROVE  /\ PathOf(data[i], colSep) \in names[i] /\ Parts(data[i].label, labelSep) \in labels[i]
               /\ HasParts(data[i].label, labelSep) /\ HasParts(data[i].name, colSep)
               /\ PathOf(data[i], colSep).prefix # <<>> /\ PathOf(data[i], colSep).suffix # <<>>
    <2>1. PICK m \in names[i], l \in labels[i] : TRUE
      BY <1>1, <1>2
    <2>2. HasParts(data[i].name, colSep) /\ Parts(data[i].name, colSep) = m /\ m.prefix # <<>> /\ m.suffix # <<>>
      BY <1>1, <1>3, <2>1, ReadingIsParts
    <2>3. HasParts(data[i].label, labelSep) /\ Parts(data[i].label, labelSep) = l
      <3>1. l \in Readings(data[i].label, labelSep) /\ data[i].label \in Name
        BY <1>1, <1>3, <2>1
      <3> QED
        BY <3>1, ReadingIsParts
    <2> QED
      BY <2>1, <2>2, <2>3 DEF PathOf
  <1>5. Named(data, labelSep, colSep)
    <2>1. ASSUME NEW i \in 1 .. Len(data), NEW j \in 1 .. Len(data)
          PROVE  /\ PathOf(data[i], colSep).prefix \notin {t.name : t \in ToSet(TimeColumns)}
                 /\ PathOf(data[i], colSep) = PathOf(data[j], colSep) => i = j
                 /\ PvName(data[i], labelSep) = PvName(data[j], labelSep)
                      <=> PathOf(data[i], colSep).prefix = PathOf(data[j], colSep).prefix
      BY <1>1, <1>2, <1>4 DEF PvName
    <2> QED
      BY <1>4, <2>1 DEF Named
  <1> QED
    BY <1>5, NamedIsMirrored DEF data

-----------------------------------------------------------------------------
(***************************************************************************)
(* The columns of the merged table.                                        *)
(***************************************************************************)

\* s has elements of the first k sequences of ss, each of another place.
ComesFrom(s, ss, k) ==
    \E a, b \in [1 .. Len(s) -> Nat] :
      /\ \A i \in 1 .. Len(s) : a[i] \in 1 .. k /\ b[i] \in 1 .. Len(ss[a[i]]) /\ s[i] = ss[a[i]][b[i]]
      /\ \A i, j \in 1 .. Len(s) : a[i] = a[j] /\ b[i] = b[j] => i = j

LEMMA NothingComesFrom ==
    ASSUME NEW ss
    PROVE  ComesFrom(<<>>, ss, 0)
  <1>1. Len(<<>>) = 0 /\ \A i \in 1 .. 0 : FALSE
    OBVIOUS
  <1> DEFINE none == [i \in 1 .. 0 |-> 0]
  <1>2. none \in [1 .. 0 -> Nat]
    OBVIOUS
  <1> HIDE DEF none
  <1>3. \E a, b \in [1 .. 0 -> Nat] :
          /\ \A i \in 1 .. 0 : a[i] \in 1 .. 0 /\ b[i] \in 1 .. Len(ss[a[i]]) /\ <<>>[i] = ss[a[i]][b[i]]
          /\ \A i, j \in 1 .. 0 : a[i] = a[j] /\ b[i] = b[j] => i = j
    <2> WITNESS none \in [1 .. 0 -> Nat], none \in [1 .. 0 -> Nat]
    <2> QED
      BY <1>1
  <1> QED
    BY <1>1, <1>3 DEF ComesFrom

LEMMA ComesFromNext ==
    ASSUME NEW T, NEW ss \in Seq(Seq(T)), NEW k \in Nat, k + 1 \in 1 .. Len(ss),
           NEW s \in Seq(T), ComesFrom(s, ss, k)
    PROVE  s \o ss[k + 1] \in Seq(T) /\ ComesFrom(s \o ss[k + 1], ss, k + 1)
  <1> DEFINE t == ss[k + 1]
             both == s \o t
             n == Len(s)
  <1>1. t \in Seq(T) /\ Len(t) \in Nat /\ n \in Nat
    OBVIOUS
  <1>2. /\ both \in Seq(T) /\ Len(both) = n + Len(t)
        /\ \A i \in 1 .. n + Len(t) : both[i] = IF i <= n THEN s[i] ELSE t[i - n]
    BY <1>1, ConcatProperties
  <1>3. PICK a \in [1 .. n -> Nat], b \in [1 .. n -> Nat] :
          /\ \A i \in 1 .. n : a[i] \in 1 .. k /\ b[i] \in 1 .. Len(ss[a[i]]) /\ s[i] = ss[a[i]][b[i]]
          /\ \A i, j \in 1 .. n : a[i] = a[j] /\ b[i] = b[j] => i = j
    BY DEF ComesFrom
  <1> DEFINE a2 == [i \in 1 .. n + Len(t) |-> IF i <= n THEN a[i] ELSE k + 1]
             b2 == [i \in 1 .. n + Len(t) |-> IF i <= n THEN b[i] ELSE i - n]
  <1> HIDE DEF t, both, n
  <1>4. ASSUME NEW i \in 1 .. n + Len(t)
        PROVE  \/ i \in 1 .. n /\ a2[i] = a[i] /\ b2[i] = b[i] /\ both[i] = s[i]
               \/ /\ ~(i <= n) /\ i - n \in 1 .. Len(t)
                  /\ a2[i] = k + 1 /\ b2[i] = i - n /\ both[i] = t[i - n]
    BY <1>1, <1>2
  <1> HIDE DEF a2, b2
  <1>5. ASSUME NEW i \in 1 .. n + Len(t)
        PROVE  /\ a2[i] \in 1 .. k + 1 /\ b2[i] \in Nat
               /\ b2[i] \in 1 .. Len(ss[a2[i]]) /\ both[i] = ss[a2[i]][b2[i]]
    <2>1. CASE i \in 1 .. n /\ a2[i] = a[i] /\ b2[i] = b[i] /\ both[i] = s[i]
      BY <1>3, <2>1
    <2>2. CASE ~(i <= n) /\ i - n \in 1 .. Len(t) /\ a2[i] = k + 1 /\ b2[i] = i - n /\ both[i] = t[i - n]
      BY <1>1, <2>2 DEF t
    <2> QED
      BY <1>4, <2>1, <2>2
  <1>6. ASSUME NEW i \in 1 .. n + Len(t), NEW j \in 1 .. n + Len(t), a2[i] = a2[j], b2[i] = b2[j]
        PROVE  i = j
    <2>1. CASE i \in 1 .. n /\ j \in 1 .. n
      BY <1>3, <1>4, <1>6, <2>1
    <2>2. CASE ~(i <= n) /\ ~(j <= n)
      <3>1. b2[i] = i - n /\ b2[j] = j - n
        BY <1>4, <2>2
      <3>2. i - n = j - n
        BY <1>6, <3>1
      <3>3. i \in Int /\ j \in Int /\ n \in Int
        BY <1>1
      <3> QED
        BY <3>2, <3>3
    <2>3. ASSUME NEW p \in 1 .. n + Len(t), NEW q \in 1 .. n + Len(t), p \in 1 .. n, ~(q <= n)
          PROVE  a2[p] # a2[q]
      <3>1. p <= n
        BY <1>1, <2>3
      <3>2. a2[p] = a[p]
        BY <1>4, <2>3, <3>1
      <3>3. q \notin 1 .. n
        BY <1>1, <2>3
      <3>4. a2[q] = k + 1
        BY <1>4, <3>3
      <3>5. a[p] \in 1 .. k
        BY <1>3, <2>3
      <3> QED
        BY <3>2, <3>4, <3>5
    <2> QED
      BY <1>1, <1>6, <2>1, <2>2, <2>3
  <1>7. a2 \in [1 .. n + Len(t) -> Nat] /\ b2 \in [1 .. n + Len(t) -> Nat]
    <2>1. a2 = [i \in 1 .. n + Len(t) |-> a2[i]] /\ b2 = [i \in 1 .. n + Len(t) |-> b2[i]]
      BY DEF a2, b2
    <2>2. \A i \in 1 .. n + Len(t) : a2[i] \in Nat /\ b2[i] \in Nat
      BY <1>5
    <2> QED
      BY <2>1, <2>2
  <1>8. ComesFrom(both, ss, k + 1)
    <2>1. /\ \A i \in 1 .. n + Len(t) :
               a2[i] \in 1 .. k + 1 /\ b2[i] \in 1 .. Len(ss[a2[i]]) /\ both[i] = ss[a2[i]][b2[i]]
          /\ \A i, j \in 1 .. n + Len(t) : a2[i] = a2[j] /\ b2[i] = b2[j] => i = j
      BY <1>5, <1>6
    <2>2. n + Len(t) = Len(both)
      BY <1>2
    <2>3. a2 \in [1 .. Len(both) -> Nat] /\ b2 \in [1 .. Len(both) -> Nat]
      BY <1>7, <2>2
    <2>4. /\ \A i \in 1 .. Len(both) :
               a2[i] \in 1 .. k + 1 /\ b2[i] \in 1 .. Len(ss[a2[i]]) /\ both[i] = ss[a2[i]][b2[i]]
          /\ \A i, j \in 1 .. Len(both) : a2[i] = a2[j] /\ b2[i] = b2[j] => i = j
      BY <2>1, <2>2
    <2>5. \E aa, bb \in [1 .. Len(both) -> Nat] :
            /\ \A i \in 1 .. Len(both) :
                 aa[i] \in 1 .. k + 1 /\ bb[i] \in 1 .. Len(ss[aa[i]]) /\ both[i] = ss[aa[i]][bb[i]]
            /\ \A i, j \in 1 .. Len(both) : aa[i] = aa[j] /\ bb[i] = bb[j] => i = j
      BY <2>3, <2>4, Zenon
    <2> QED
      BY <2>5 DEF ComesFrom
  <1> QED
    BY <1>2, <1>8 DEF both, t

LEMMA FlattenComesFrom ==
    ASSUME NEW T, NEW ss \in Seq(Seq(T))
    PROVE  FlattenSeq(ss) \in Seq(T) /\ ComesFrom(FlattenSeq(ss), ss, Len(ss))
  <1> DEFINE n == Len(ss)
             Body(g, k) == [i \in 1 .. k |-> IF i = 1 THEN ss[i] ELSE g[i - 1] \o ss[i]]
             f == CHOOSE g : g = Body(g, n)
  <1>1. CASE n = 0
    <2>1. ss = <<>> /\ FlattenSeq(ss) = <<>>
      BY <1>1 DEF FlattenSeq
    <2>2. ComesFrom(<<>>, ss, 0) /\ <<>> \in Seq(T)
      BY NothingComesFrom
    <2> QED
      BY <1>1, <2>1, <2>2, Zenon
  <1>2. CASE n # 0
    <2>1. n \in Nat /\ 1 \in 1 .. n
      BY <1>2
    <2>2. \E g : g = Body(g, n)
      <3> DEFINE there == {k \in 0 .. n : \E g : g = Body(g, k)}
      <3>1. 0 \in there
        <4> DEFINE g0 == [i \in 1 .. 0 |-> ss]
        <4>1. g0 = Body(g0, 0)
          OBVIOUS
        <4> HIDE DEF g0
        <4>2. 0 \in 0 .. n
          BY <2>1
        <4>3. \E g : g = Body(g, 0)
          BY <4>1
        <4> QED
          BY <4>2, <4>3
      <3>2. ASSUME NEW k \in 0 .. n - 1, k \in there
            PROVE  k + 1 \in there
        <4>1. PICK g : g = Body(g, k)
          BY <3>2
        <4> DEFINE h == [i \in 1 .. k + 1 |-> IF i <= k THEN g[i] ELSE IF i = 1 THEN ss[i] ELSE g[i - 1] \o ss[i]]
        <4>2. \A i \in 1 .. k : h[i] = g[i]
          OBVIOUS
        <4>3. ASSUME NEW i \in 1 .. k + 1
              PROVE  h[i] = IF i = 1 THEN ss[i] ELSE h[i - 1] \o ss[i]
          <5>1. CASE i \in 1 .. k
            <6>1. h[i] = IF i = 1 THEN ss[i] ELSE g[i - 1] \o ss[i]
              BY <4>1, <4>2, <5>1
            <6>2. i # 1 => i - 1 \in 1 .. k
              BY <5>1
            <6> HIDE DEF h
            <6> QED
              BY <4>2, <6>1, <6>2
          <5>2. CASE i = k + 1
            <6>1. h[i] = IF i = 1 THEN ss[i] ELSE g[i - 1] \o ss[i]
              BY <5>2
            <6>2. i # 1 => i - 1 \in 1 .. k
              BY <5>2
            <6> HIDE DEF h
            <6> QED
              BY <4>2, <6>1, <6>2
          <5> QED
            BY <5>1, <5>2
        <4>4. h = [i \in 1 .. k + 1 |-> h[i]]
          OBVIOUS
        <4> HIDE DEF h
        <4>5. h = Body(h, k + 1)
          BY <4>3, <4>4
        <4>6. k + 1 \in 0 .. n
          BY <2>1
        <4> QED
          BY <4>5, <4>6
      <3> HIDE DEF there
      <3>3. n \in there
        BY <2>1, <3>1, <3>2, ReachesAll
      <3> QED
        BY <3>3 DEF there
    <2>3. f = Body(f, n)
      BY <2>2
    <2>4. FlattenSeq(ss) = f[n]
      BY <1>2 DEF FlattenSeq
    <2> HIDE DEF f
    <2>5. f[1] = ss[1] /\ \A i \in 1 .. n - 1 : f[i + 1] = f[i] \o ss[i + 1]
      <3>1. f[1] = ss[1]
        BY <2>1, <2>3
      <3>2. ASSUME NEW i \in 1 .. n - 1
            PROVE  f[i + 1] = f[i] \o ss[i + 1]
        <4>1. i + 1 \in 1 .. n /\ i + 1 # 1 /\ i + 1 - 1 = i
          BY <2>1
        <4>2. \A k \in 1 .. n : f[k] = IF k = 1 THEN ss[k] ELSE f[k - 1] \o ss[k]
          BY <2>3
        <4>3. PICK m \in 1 .. n : m = i + 1
          BY <4>1
        <4>4. f[m] = f[m - 1] \o ss[m]
          BY <4>1, <4>2, <4>3
        <4>5. m - 1 = i
          BY <4>3
        <4> QED
          BY <4>3, <4>4, <4>5, Zenon
      <3> QED
        BY <3>1, <3>2
    <2> DEFINE done == {k \in 0 .. n : k # 0 => f[k] \in Seq(T) /\ ComesFrom(f[k], ss, k)}
    <2>6. 0 \in done
      BY <2>1
    <2>7. ASSUME NEW k \in 0 .. n - 1, k \in done
          PROVE  k + 1 \in done
      <3>1. k + 1 \in 1 .. n /\ k \in Nat
        BY <2>1
      <3>2. CASE k = 0
        <4>1. ss[1] \in Seq(T) /\ <<>> \in Seq(T) /\ <<>> \o ss[1] = ss[1]
          BY <2>1
        <4>2. ComesFrom(<<>>, ss, 0)
          BY NothingComesFrom
        <4>3. <<>> \o ss[0 + 1] \in Seq(T) /\ ComesFrom(<<>> \o ss[0 + 1], ss, 0 + 1)
          BY <3>1, <3>2, <4>1, <4>2, ComesFromNext
        <4> QED
          BY <2>1, <2>5, <3>2, <4>1, <4>3
      <3>3. CASE k # 0
        <4>0. k \in 1 .. n - 1
          BY <2>1, <3>3
        <4>1. f[k + 1] = f[k] \o ss[k + 1] /\ f[k] \in Seq(T) /\ ComesFrom(f[k], ss, k)
          BY <2>5, <2>7, <3>3, <4>0
        <4>2. f[k] \o ss[k + 1] \in Seq(T) /\ ComesFrom(f[k] \o ss[k + 1], ss, k + 1)
          BY <3>1, <4>1, ComesFromNext
        <4>3. k + 1 \in 0 .. n
          BY <3>1
        <4> HIDE DEF n
        <4> QED
          BY <4>1, <4>2, <4>3
      <3> QED
        BY <3>2, <3>3
    <2> HIDE DEF done
    <2>8. n \in done
      BY <2>1, <2>6, <2>7, ReachesAll
    <2> QED
      BY <1>2, <2>4, <2>8 DEF done
  <1> QED
    BY <1>1, <1>2

\* What follows the prefix of the input in the prefix and the signal of a
\* column, and what is left for its suffix.
InnerName(specs, k, labelSep, colSep) ==
    IF k \in Plain(specs, labelSep, colSep) THEN <<>> ELSE colSep \o Parts(specs[k].name, colSep).prefix

InnerLabel(specs, k, labelSep, colSep) ==
    IF k \in Plain(specs, labelSep, colSep) THEN <<>> ELSE labelSep \o Parts(specs[k].label, labelSep).prefix

SuffixOf(specs, k, labelSep, colSep) ==
    IF k \in Plain(specs, labelSep, colSep) THEN specs[k].name ELSE Parts(specs[k].name, colSep).suffix

\* What Mergeable says of the columns of one input.
MergeableSpecs(specs, labelSep, colSep) ==
    LET plain == Plain(specs, labelSep, colSep)
    IN  /\ \A k, l \in plain : specs[k].name # <<>> /\ (specs[k].name = specs[l].name => k = l)
        /\ NamedAfterSignals(specs, DOMAIN specs \ plain, labelSep, colSep)

LEMMA PlainParts ==
    ASSUME NEW sep \in OneCharacter, NEW pre \in Name, NEW name \in Name, ~HasSeparator(name, sep)
    PROVE  /\ HasParts(pre \o sep \o name, sep)
           /\ Parts(pre \o sep \o name, sep) = [prefix |-> pre, suffix |-> name]
  BY PartsOfConcat

\* Pieces of a name in other groups.
Regrouped(s, t, u) == s \o (t \o u) = (s \o t) \o u

RegroupedFive(s, t, u, v, w) == (s \o t) \o ((u \o v) \o w) = ((s \o (t \o u)) \o v) \o w

LEMMA Regroup ==
    ASSUME NEW s \in Seq(STRING), NEW t \in Seq(STRING), NEW u \in Seq(STRING)
    PROVE  Regrouped(s, t, u)
  BY ConcatAssociative DEF Regrouped

LEMMA RegroupFive ==
    ASSUME NEW s \in Seq(STRING), NEW t \in Seq(STRING), NEW u \in Seq(STRING), NEW v \in Seq(STRING),
           NEW w \in Seq(STRING)
    PROVE  RegroupedFive(s, t, u, v, w)
  <1>1. PICK st \in Seq(STRING), uv \in Seq(STRING) : st = s \o t /\ uv = u \o v
    BY ConcatProperties
  <1>2. Regrouped(st, uv, w) /\ Regrouped(st, u, v) /\ Regrouped(s, t, u)
    BY Regroup
  <1> QED
    BY <1>1, <1>2, Zenon DEF Regrouped, RegroupedFive

LEMMA PrefixedParts ==
    ASSUME NEW sep \in OneCharacter, NEW pre \in Name, NEW name \in Name, NEW r \in Readings(name, sep)
    PROVE  /\ HasParts(pre \o sep \o name, sep)
           /\ Parts(pre \o sep \o name, sep) = [prefix |-> pre \o (sep \o r.prefix), suffix |-> r.suffix]
  <1>1. /\ r.prefix \in Name /\ r.suffix \in Name
        /\ name = r.prefix \o sep \o r.suffix /\ ~HasSeparator(r.suffix, sep)
    BY ReadingIsParts
  <1>2. r.prefix \in Seq(STRING) /\ r.suffix \in Seq(STRING) /\ pre \in Seq(STRING) /\ sep \in Seq(STRING)
    BY <1>1, OneCharacterIsName DEF Name
  <1>3. PICK inner : inner = sep \o r.prefix
    OBVIOUS
  <1>4. PICK front : front = pre \o inner
    OBVIOUS
  <1>5. front \in Name
    <2>1. inner \in Seq(STRING)
      BY <1>2, <1>3, ConcatProperties
    <2> QED
      BY <1>2, <1>4, <2>1, ConcatProperties DEF Name
  <1>6. pre \o sep \o name = front \o sep \o r.suffix
    <2>1. RegroupedFive(pre, sep, r.prefix, sep, r.suffix)
      BY <1>2, RegroupFive
    <2> QED
      BY <1>1, <1>3, <1>4, <2>1, Zenon DEF RegroupedFive
  <1>7. /\ HasParts(front \o sep \o r.suffix, sep)
        /\ Parts(front \o sep \o r.suffix, sep) = [prefix |-> front, suffix |-> r.suffix]
    BY <1>1, <1>5, PartsOfConcat
  <1> QED
    BY <1>3, <1>4, <1>6, <1>7

\* The columns of an input, when they are named after it.
LEMMA ColumnPaths ==
    ASSUME NEW labelSep \in OneCharacter, NEW colSep \in OneCharacter, NEW specs \in Seq(ColumnSpec),
           MergeableSpecs(specs, labelSep, colSep), NEW pre \in Name, NEW pv \in Name,
           NEW k \in 1 .. Len(specs)
    PROVE  LET name  == pre \o colSep \o specs[k].name
               label == pv \o labelSep \o specs[k].label
           IN  /\ HasParts(name, colSep) /\ HasParts(label, labelSep)
               /\ Parts(name, colSep) = [prefix |-> pre \o InnerName(specs, k, labelSep, colSep),
                                         suffix |-> SuffixOf(specs, k, labelSep, colSep)]
               /\ Parts(label, labelSep).prefix = pv \o InnerLabel(specs, k, labelSep, colSep)
               /\ SuffixOf(specs, k, labelSep, colSep) # <<>>
  <1>1. specs[k].name \in Name /\ specs[k].label \in Name /\ k \in DOMAIN specs
    <2>1. specs[k] \in ColumnSpec /\ k \in DOMAIN specs
      OBVIOUS
    <2> QED
      BY <2>1 DEF ColumnSpec
  <1>2. CASE k \in Plain(specs, labelSep, colSep)
    <2>1. ~HasSeparator(specs[k].name, colSep) /\ ~HasSeparator(specs[k].label, labelSep)
      BY <1>2 DEF Plain
    <2>2. pre \o <<>> = pre /\ pv \o <<>> = pv
      BY ConcatEmptySeq DEF Name
    <2>3. specs[k].name # <<>>
      BY <1>2 DEF MergeableSpecs
    <2>4. /\ HasParts(pre \o colSep \o specs[k].name, colSep)
          /\ Parts(pre \o colSep \o specs[k].name, colSep) = [prefix |-> pre, suffix |-> specs[k].name]
      BY <1>1, <2>1, PlainParts
    <2>5. /\ HasParts(pv \o labelSep \o specs[k].label, labelSep)
          /\ Parts(pv \o labelSep \o specs[k].label, labelSep).prefix = pv
      BY <1>1, <2>1, PlainParts
    <2> QED
      BY <1>2, <2>2, <2>3, <2>4, <2>5 DEF InnerName, InnerLabel, SuffixOf
  <1>3. CASE k \notin Plain(specs, labelSep, colSep)
    <2>1. Readings(specs[k].name, colSep) # {} /\ Readings(specs[k].label, labelSep) # {}
      BY <1>1, <1>3 DEF MergeableSpecs, NamedAfterSignals
    <2>2. PICK r \in Readings(specs[k].name, colSep) : TRUE
      BY <2>1
    <2>3. PICK l \in Readings(specs[k].label, labelSep) : TRUE
      BY <2>1
    <2>4. Parts(specs[k].name, colSep) = r /\ r.suffix # <<>>
      BY <1>1, <2>2, ReadingIsParts
    <2>5. Parts(specs[k].label, labelSep) = l
      BY <1>1, <2>3, ReadingIsParts
    <2>6. /\ HasParts(pre \o colSep \o specs[k].name, colSep)
          /\ Parts(pre \o colSep \o specs[k].name, colSep)
               = [prefix |-> pre \o (colSep \o r.prefix), suffix |-> r.suffix]
      BY <1>1, <2>2, PrefixedParts
    <2>7. /\ HasParts(pv \o labelSep \o specs[k].label, labelSep)
          /\ Parts(pv \o labelSep \o specs[k].label, labelSep).prefix = pv \o (labelSep \o l.prefix)
      BY <1>1, <2>3, PrefixedParts
    <2> QED
      BY <1>3, <2>4, <2>5, <2>6, <2>7 DEF InnerName, InnerLabel, SuffixOf
  <1> QED
    BY <1>2, <1>3

\* Two names that are alike begin alike.
LEMMA SplitsAlike ==
    ASSUME NEW a \in Seq(STRING), NEW b \in Seq(STRING), NEW x \in Seq(STRING), NEW y \in Seq(STRING),
           Len(a) = Len(b), a \o x = b \o y
    PROVE  a = b /\ x = y
  <1> DEFINE ax == a \o x
             by == b \o y
  <1>1. \A i \in 1 .. Len(a) + Len(x) : ax[i] = IF i <= Len(a) THEN a[i] ELSE x[i - Len(a)]
    BY ConcatProperties
  <1>2. \A i \in 1 .. Len(b) + Len(y) : by[i] = IF i <= Len(b) THEN b[i] ELSE y[i - Len(b)]
    BY ConcatProperties
  <1>3. ax = by
    OBVIOUS
  <1>4. Len(a) \in Nat /\ Len(x) \in Nat /\ Len(y) \in Nat
    OBVIOUS
  <1>5. ASSUME NEW i \in 1 .. Len(a)
        PROVE  a[i] = b[i]
    <2> HIDE DEF ax, by
    <2>1. i \in 1 .. Len(a) + Len(x) /\ i \in 1 .. Len(b) + Len(y) /\ i <= Len(a) /\ i <= Len(b)
      BY <1>4
    <2> QED
      BY <1>1, <1>2, <1>3, <2>1
  <1>6. a = b
    BY <1>5, SeqEqual
  <1>7. a \o x = a \o y
    BY <1>6
  <1>8. x = y
    BY <1>7, ConcatSimplifications
  <1> QED
    BY <1>6, <1>8

\* What may follow a signal: nothing, or the separator and more.
Follows(x, sep) == x = <<>> \/ \E v \in Name : x = sep \o v

LEMMA FollowsBegins ==
    ASSUME NEW sep \in OneCharacter, NEW x, Follows(x, sep)
    PROVE  x \in Seq(STRING) /\ (Len(x) > 0 => x[1] = sep[1])
  <1>1. CASE x = <<>>
    <2>1. Len(x) = 0 /\ x \in Seq(STRING)
      BY <1>1
    <2> QED
      BY <2>1
  <1>2. ASSUME NEW v \in Name, x = sep \o v
        PROVE  x \in Seq(STRING) /\ (Len(x) > 0 => x[1] = sep[1])
    <2>1. sep \in Seq(STRING) /\ Len(sep) = 1 /\ v \in Seq(STRING)
      BY OneCharacterIsName DEF Name
    <2>2. /\ sep \o v \in Seq(STRING)
          /\ \A i \in 1 .. Len(sep) + Len(v) : (sep \o v)[i] = IF i <= Len(sep) THEN sep[i] ELSE v[i - Len(sep)]
      BY <2>1, ConcatProperties
    <2>3. 1 \in 1 .. 1 + Len(v) /\ 1 <= 1
      BY <2>1
    <2>4. (sep \o v)[1] = sep[1]
      BY <2>1, <2>2, <2>3
    <2> QED
      BY <1>2, <2>2, <2>4
  <1> QED
    BY <1>1, <1>2 DEF Follows

LEMMA NotShorter ==
    ASSUME NEW sep \in OneCharacter, NEW p \in Name, NEW q \in Name, NEW x, NEW y,
           ~HasSeparator(q, sep), Follows(x, sep), Follows(y, sep), p \o x = q \o y
    PROVE  ~(Len(p) < Len(q))
  <1> SUFFICES ASSUME Len(p) < Len(q) PROVE FALSE
    OBVIOUS
  <1>1. x \in Seq(STRING) /\ y \in Seq(STRING) /\ (Len(x) > 0 => x[1] = sep[1])
    BY FollowsBegins
  <1>2. p \in Seq(STRING) /\ q \in Seq(STRING)
    BY DEF Name
  <1> DEFINE px == p \o x
             qy == q \o y
             i  == Len(p) + 1
  <1>3. /\ Len(px) = Len(p) + Len(x)
        /\ \A k \in 1 .. Len(p) + Len(x) : px[k] = IF k <= Len(p) THEN p[k] ELSE x[k - Len(p)]
    BY <1>1, <1>2, ConcatProperties
  <1>4. /\ Len(qy) = Len(q) + Len(y)
        /\ \A k \in 1 .. Len(q) + Len(y) : qy[k] = IF k <= Len(q) THEN q[k] ELSE y[k - Len(q)]
    BY <1>1, <1>2, ConcatProperties
  <1>5. px = qy
    OBVIOUS
  <1>6. Len(p) \in Nat /\ Len(q) \in Nat /\ Len(x) \in Nat /\ Len(y) \in Nat
    BY <1>1, <1>2
  <1> HIDE DEF px, qy
  <1>7. /\ Len(x) > 0 /\ i \in 1 .. Len(p) + Len(x) /\ ~(i <= Len(p)) /\ i - Len(p) = 1
        /\ i \in 1 .. Len(q) + Len(y) /\ i <= Len(q) /\ i \in 1 .. Len(q)
    BY <1>3, <1>4, <1>5, <1>6
  <1> HIDE DEF i
  <1>8. px[i] = x[1] /\ qy[i] = q[i]
    BY <1>3, <1>4, <1>7
  <1>9. q[i] = sep[1]
    BY <1>1, <1>5, <1>7, <1>8
  <1>10. sep[1] \in ToSet(sep)
    BY DEF OneCharacter, ToSet
  <1>11. i \in DOMAIN q
    BY <1>2, <1>7
  <1> QED
    BY <1>9, <1>10, <1>11 DEF HasSeparator

LEMMA SignalsAlike ==
    ASSUME NEW sep \in OneCharacter, NEW p \in Name, NEW q \in Name, NEW x, NEW y,
           ~HasSeparator(p, sep), ~HasSeparator(q, sep), Follows(x, sep), Follows(y, sep), p \o x = q \o y
    PROVE  p = q /\ x = y
  <1>1. Len(p) = Len(q)
    <2>1. ~(Len(p) < Len(q)) /\ ~(Len(q) < Len(p))
      BY NotShorter
    <2>2. Len(p) \in Nat /\ Len(q) \in Nat
      BY DEF Name
    <2> QED
      BY <2>1, <2>2
  <1>2. x \in Seq(STRING) /\ y \in Seq(STRING) /\ p \in Seq(STRING) /\ q \in Seq(STRING)
    BY FollowsBegins DEF Name
  <1> QED
    BY <1>1, <1>2, SplitsAlike

LEMMA SeparatorIsSomething ==
    ASSUME NEW sep \in OneCharacter, NEW v \in Name
    PROVE  sep \o v # <<>>
  <1>1. sep \in Seq(STRING) /\ Len(sep) = 1 /\ v \in Seq(STRING)
    BY OneCharacterIsName DEF Name
  <1>2. Len(sep \o v) = Len(sep) + Len(v)
    BY <1>1, ConcatProperties
  <1>3. Len(v) \in Nat
    BY <1>1
  <1>4. Len(sep \o v) # 0
    BY <1>1, <1>2, <1>3
  <1> QED
    BY <1>4

\* Columns of an input of the same group have signals of the same group, and
\* no two have one place in it.
LEMMA InnerAgree ==
    ASSUME NEW labelSep \in OneCharacter, NEW colSep \in OneCharacter, NEW specs \in Seq(ColumnSpec),
           MergeableSpecs(specs, labelSep, colSep), NEW k \in 1 .. Len(specs), NEW l \in 1 .. Len(specs)
    PROVE  /\ InnerName(specs, k, labelSep, colSep) = InnerName(specs, l, labelSep, colSep)
                <=> InnerLabel(specs, k, labelSep, colSep) = InnerLabel(specs, l, labelSep, colSep)
           /\ /\ InnerName(specs, k, labelSep, colSep) = InnerName(specs, l, labelSep, colSep)
              /\ SuffixOf(specs, k, labelSep, colSep) = SuffixOf(specs, l, labelSep, colSep)
              => k = l
  <1> DEFINE plain == Plain(specs, labelSep, colSep)
  <1>1. \A i \in 1 .. Len(specs) : specs[i].name \in Name /\ specs[i].label \in Name /\ i \in DOMAIN specs
    <2>1. \A i \in 1 .. Len(specs) : specs[i] \in ColumnSpec /\ i \in DOMAIN specs
      OBVIOUS
    <2> QED
      BY <2>1 DEF ColumnSpec
  <1>2. ASSUME NEW i \in 1 .. Len(specs), i \notin plain
        PROVE  \E m \in Readings(specs[i].name, colSep), n \in Readings(specs[i].label, labelSep) :
                 /\ Parts(specs[i].name, colSep) = m /\ Parts(specs[i].label, labelSep) = n
                 /\ m.prefix \in Name /\ n.prefix \in Name
                 /\ m = [prefix |-> m.prefix, suffix |-> m.suffix]
    <2>1. Readings(specs[i].name, colSep) # {} /\ Readings(specs[i].label, labelSep) # {}
      BY <1>1, <1>2 DEF MergeableSpecs, NamedAfterSignals
    <2>2. PICK m \in Readings(specs[i].name, colSep), n \in Readings(specs[i].label, labelSep) : TRUE
      BY <2>1
    <2>3. Parts(specs[i].name, colSep) = m /\ m.prefix \in Name
      BY <1>1, <2>2, ReadingIsParts
    <2>4. Parts(specs[i].label, labelSep) = n /\ n.prefix \in Name
      BY <1>1, <2>2, ReadingIsParts
    <2>5. m = [prefix |-> m.prefix, suffix |-> m.suffix]
      BY <2>2 DEF Readings
    <2> QED
      BY <2>2, <2>3, <2>4, <2>5, Zenon
  <1>3. ASSUME NEW sep \in OneCharacter, NEW v \in Name
        PROVE  sep \o v # <<>>
    BY <1>3, SeparatorIsSomething
  <1>4. ASSUME NEW i \in 1 .. Len(specs)
        PROVE  IF i \in plain
               THEN InnerName(specs, i, labelSep, colSep) = <<>> /\ InnerLabel(specs, i, labelSep, colSep) = <<>>
               ELSE InnerName(specs, i, labelSep, colSep) # <<>> /\ InnerLabel(specs, i, labelSep, colSep) # <<>>
    <2> HIDE DEF plain
    <2>1. CASE i \in plain
      BY <2>1 DEF InnerName, InnerLabel, plain
    <2>2. CASE i \notin plain
      <3>1. /\ InnerName(specs, i, labelSep, colSep) = colSep \o Parts(specs[i].name, colSep).prefix
            /\ InnerLabel(specs, i, labelSep, colSep) = labelSep \o Parts(specs[i].label, labelSep).prefix
        BY <2>2 DEF InnerName, InnerLabel, plain
      <3>2. Parts(specs[i].name, colSep).prefix \in Name /\ Parts(specs[i].label, labelSep).prefix \in Name
        BY <1>2, <2>2
      <3> QED
        BY <1>3, <2>2, <3>1, <3>2
    <2> QED
      BY <2>1, <2>2
  <1>5. CASE k \in plain /\ l \in plain
    <2>1. SuffixOf(specs, k, labelSep, colSep) = specs[k].name /\ SuffixOf(specs, l, labelSep, colSep) = specs[l].name
      BY <1>5 DEF SuffixOf
    <2>2. specs[k].name = specs[l].name => k = l
      BY <1>5 DEF MergeableSpecs
    <2> HIDE DEF plain
    <2> QED
      BY <1>4, <1>5, <2>1, <2>2
  <1>6. CASE k \notin plain /\ l \notin plain
    <2>1. PICK m \in Readings(specs[k].name, colSep), mm \in Readings(specs[k].label, labelSep) :
            /\ Parts(specs[k].name, colSep) = m /\ Parts(specs[k].label, labelSep) = mm
            /\ m.prefix \in Name /\ mm.prefix \in Name
            /\ m = [prefix |-> m.prefix, suffix |-> m.suffix]
      BY <1>2, <1>6
    <2>2. PICK n \in Readings(specs[l].name, colSep), nn \in Readings(specs[l].label, labelSep) :
            /\ Parts(specs[l].name, colSep) = n /\ Parts(specs[l].label, labelSep) = nn
            /\ n.prefix \in Name /\ nn.prefix \in Name
            /\ n = [prefix |-> n.prefix, suffix |-> n.suffix]
      BY <1>2, <1>6
    <2>3. (m = n => k = l) /\ ((mm.prefix = nn.prefix) <=> (m.prefix = n.prefix))
      BY <1>1, <1>6, <2>1, <2>2 DEF MergeableSpecs, NamedAfterSignals
    <2>4. ASSUME NEW sep \in OneCharacter, NEW v \in Name, NEW w \in Name, sep \o v = sep \o w
          PROVE  v = w
      BY <2>4, OneCharacterIsName, SplitsAlike DEF Name
    <2>5. /\ InnerName(specs, k, labelSep, colSep) = colSep \o m.prefix
          /\ InnerName(specs, l, labelSep, colSep) = colSep \o n.prefix
          /\ InnerLabel(specs, k, labelSep, colSep) = labelSep \o mm.prefix
          /\ InnerLabel(specs, l, labelSep, colSep) = labelSep \o nn.prefix
          /\ SuffixOf(specs, k, labelSep, colSep) = m.suffix
          /\ SuffixOf(specs, l, labelSep, colSep) = n.suffix
      BY <1>6, <2>1, <2>2 DEF InnerName, InnerLabel, SuffixOf
    <2>6. (colSep \o m.prefix = colSep \o n.prefix) <=> m.prefix = n.prefix
      BY <2>1, <2>2, <2>4
    <2>7. (labelSep \o mm.prefix = labelSep \o nn.prefix) <=> mm.prefix = nn.prefix
      BY <2>1, <2>2, <2>4
    <2>8. m.prefix = n.prefix /\ m.suffix = n.suffix => m = n
      BY <2>1, <2>2, Zenon
    <2> QED
      BY <2>3, <2>5, <2>6, <2>7, <2>8, Zenon
  <1>7. CASE ~(k \in plain <=> l \in plain)
    <2> HIDE DEF plain
    <2> QED
      BY <1>4, <1>7
  <1> QED
    BY <1>5, <1>6, <1>7

LEMMA ShortNames ==
    ASSUME NEW s \in STRING, NEW t \in STRING
    PROVE  <<s>> \in Name /\ Len(<<s>>) = 1 /\ <<s, t>> \in Name /\ Len(<<s, t>>) = 2
  <1>1. ASSUME NEW T, NEW a \in T, NEW b \in T
        PROVE  <<a>> \in Seq(T) /\ Len(<<a>>) = 1 /\ <<a, b>> \in Seq(T) /\ Len(<<a, b>>) = 2
    OBVIOUS
  <1> QED
    BY <1>1, Zenon DEF Name

\* The columns of the merged table that come from one input.
ColumnsFrom(buffers, a, labelSep, colSep) ==
    [k \in DOMAIN ColumnsOf(buffers[a]) |->
       PrefixedColspec(a - 1, buffers[a].pvname, ColumnsOf(buffers[a])[k], labelSep, colSep)]

LEMMA ColumnsOfInput ==
    ASSUME NEW labelSep \in OneCharacter, NEW colSep \in OneCharacter, NEW buffers \in Seq(Input),
           AreNumbered(buffers), NEW a \in 1 .. Len(buffers)
    PROVE  /\ ColumnsOf(buffers[a]) \in Seq(ColumnSpec)
           /\ <<"tbl", ToString(a - 1)>> \in Name /\ buffers[a].pvname \in Name
           /\ ColumnsFrom(buffers, a, labelSep, colSep) \in Seq(ColumnSpec)
           /\ Len(ColumnsFrom(buffers, a, labelSep, colSep)) = Len(ColumnsOf(buffers[a]))
           /\ \A k \in 1 .. Len(ColumnsOf(buffers[a])) :
                ColumnsFrom(buffers, a, labelSep, colSep)[k] =
                  PrefixedColspec(a - 1, buffers[a].pvname, ColumnsOf(buffers[a])[k], labelSep, colSep)
  <1> DEFINE specs == ColumnsOf(buffers[a])
             cols == ColumnsFrom(buffers, a, labelSep, colSep)
  <1>1. a \in DOMAIN buffers /\ buffers[a] \in Input
    OBVIOUS
  <1>2. buffers[a].pvname \in Name /\ buffers[a].columns \in Seq(ColumnSpec)
    BY <1>1 DEF Input
  <1>3. <<"tbl", ToString(a - 1)>> \in Name
    <2>1. PICK n \in STRING : n = ToString(a - 1)
      BY <1>1 DEF AreNumbered
    <2>2. "tbl" \in STRING
      BY PiecesAssumption
    <2>3. <<"tbl", n>> \in Name
      BY <2>2, ShortNames, Zenon
    <2> QED
      BY <2>1, <2>3, Zenon
  <1>4. specs \in Seq(ColumnSpec)
    <2>1. <<Valid>> \in Seq(ColumnSpec)
      <3>1. <<"valid">> \in Name
        BY PiecesAssumption, ShortNames
      <3>2. "BoolA" \in ArrayTypes
        BY DEF ArrayTypes
      <3>3. Valid \in ColumnSpec
        BY <3>1, <3>2 DEF Valid, Column, ColumnSpec
      <3> QED
        BY <3>3
    <2>2. DataColumns(buffers[a].columns) \in Seq(ColumnSpec)
      BY <1>2, DataTypes
    <2> QED
      BY <2>1, <2>2, ConcatProperties DEF ColumnsOf
  <1>5. \A k \in 1 .. Len(specs) : k \in DOMAIN specs /\ specs[k] \in ColumnSpec
    BY <1>4
  <1>6. ASSUME NEW k \in 1 .. Len(specs)
        PROVE  PrefixedColspec(a - 1, buffers[a].pvname, specs[k], labelSep, colSep) \in ColumnSpec
    <2>1. specs[k].type \in ArrayTypes /\ specs[k].name \in Name /\ specs[k].label \in Name
      BY <1>5 DEF ColumnSpec
    <2>2. colSep \in Name /\ labelSep \in Name
      BY OneCharacterIsName
    <2>3. ASSUME NEW s \in Name, NEW t \in Name, NEW u \in Name
          PROVE  s \o t \o u \in Name
      BY ConcatProperties DEF Name
    <2>4. <<"tbl", ToString(a - 1)>> \o colSep \o specs[k].name \in Name
      BY <1>3, <2>1, <2>2, <2>3
    <2>5. buffers[a].pvname \o labelSep \o specs[k].label \in Name
      BY <1>2, <2>1, <2>2, <2>3
    <2> QED
      BY <2>1, <2>4, <2>5 DEF PrefixedColspec, ColumnSpec
  <1>7. cols = [k \in 1 .. Len(specs) |-> PrefixedColspec(a - 1, buffers[a].pvname, specs[k], labelSep, colSep)]
    BY <1>4 DEF ColumnsFrom
  <1> HIDE DEF specs, cols
  <1>8. Len(specs) \in Nat
    BY <1>4
  <1>9. cols \in [1 .. Len(specs) -> ColumnSpec]
    BY <1>6, <1>7
  <1>10. cols \in Seq(ColumnSpec)
    BY <1>8, <1>9, SeqDef
  <1>11. Len(cols) = Len(specs)
    BY <1>8, <1>9, <1>10, LenProperties
  <1> QED
    BY <1>2, <1>3, <1>4, <1>7, <1>10, <1>11 DEF specs, cols

\* What follows a prefix or a signal is a name.
LEMMA InnerTypes ==
    ASSUME NEW labelSep \in OneCharacter, NEW colSep \in OneCharacter, NEW specs \in Seq(ColumnSpec),
           MergeableSpecs(specs, labelSep, colSep), NEW k \in 1 .. Len(specs)
    PROVE  /\ InnerName(specs, k, labelSep, colSep) \in Seq(STRING)
           /\ Follows(InnerLabel(specs, k, labelSep, colSep), labelSep)
  <1>1. specs[k].name \in Name /\ specs[k].label \in Name /\ k \in DOMAIN specs
    <2>1. specs[k] \in ColumnSpec /\ k \in DOMAIN specs
      OBVIOUS
    <2> QED
      BY <2>1 DEF ColumnSpec
  <1>2. CASE k \in Plain(specs, labelSep, colSep)
    <2>1. InnerName(specs, k, labelSep, colSep) = <<>> /\ InnerLabel(specs, k, labelSep, colSep) = <<>>
      BY <1>2 DEF InnerName, InnerLabel
    <2> QED
      BY <2>1 DEF Follows
  <1>3. CASE k \notin Plain(specs, labelSep, colSep)
    <2>1. Readings(specs[k].name, colSep) # {} /\ Readings(specs[k].label, labelSep) # {}
      BY <1>1, <1>3 DEF MergeableSpecs, NamedAfterSignals
    <2>2. Parts(specs[k].name, colSep).prefix \in Name
      BY <1>1, <2>1, ReadingIsParts
    <2>3. Parts(specs[k].label, labelSep).prefix \in Name
      BY <1>1, <2>1, ReadingIsParts
    <2>4. /\ InnerName(specs, k, labelSep, colSep) = colSep \o Parts(specs[k].name, colSep).prefix
          /\ InnerLabel(specs, k, labelSep, colSep) = labelSep \o Parts(specs[k].label, labelSep).prefix
      BY <1>3 DEF InnerName, InnerLabel
    <2>5. colSep \o Parts(specs[k].name, colSep).prefix \in Seq(STRING)
      <3>1. colSep \in Seq(STRING) /\ Parts(specs[k].name, colSep).prefix \in Seq(STRING)
        BY <2>2, OneCharacterIsName DEF Name
      <3> QED
        BY <3>1, ConcatProperties
    <2> QED
      BY <2>3, <2>4, <2>5, Zenon DEF Follows
  <1> QED
    BY <1>2, <1>3

\* A column of the merged table, taken apart.
LEMMA MergedColumn ==
    ASSUME NEW labelSep \in OneCharacter, NEW colSep \in OneCharacter, NEW buffers \in Seq(Input),
           Mergeable(buffers, labelSep, colSep), AreNumbered(buffers),
           NEW a \in 1 .. Len(buffers), NEW k \in 1 .. Len(ColumnsOf(buffers[a]))
    PROVE  LET c == ColumnsFrom(buffers, a, labelSep, colSep)[k]
               specs == ColumnsOf(buffers[a])
           IN  /\ HasParts(c.label, labelSep) /\ HasParts(c.name, colSep)
               /\ PathOf(c, colSep) = [prefix |-> <<"tbl", ToString(a - 1)>> \o InnerName(specs, k, labelSep, colSep),
                                       suffix |-> SuffixOf(specs, k, labelSep, colSep)]
               /\ PvName(c, labelSep) = buffers[a].pvname \o InnerLabel(specs, k, labelSep, colSep)
               /\ SuffixOf(specs, k, labelSep, colSep) # <<>>
  <1> DEFINE c == ColumnsFrom(buffers, a, labelSep, colSep)[k]
             specs == ColumnsOf(buffers[a])
             pre == <<"tbl", ToString(a - 1)>>
             pv == buffers[a].pvname
  <1>1. /\ specs \in Seq(ColumnSpec) /\ pre \in Name /\ pv \in Name
        /\ c = PrefixedColspec(a - 1, pv, specs[k], labelSep, colSep)
    BY ColumnsOfInput, Zenon
  <1>2. c.name = pre \o colSep \o specs[k].name /\ c.label = pv \o labelSep \o specs[k].label
    <2> HIDE DEF c
    <2> QED
      BY <1>1 DEF PrefixedColspec
  <1>3. MergeableSpecs(specs, labelSep, colSep)
    <2>1. a \in DOMAIN buffers
      OBVIOUS
    <2> QED
      BY <2>1 DEF Mergeable, MergeableSpecs
  <1>4. k \in 1 .. Len(specs)
    OBVIOUS
  <1> HIDE DEF c, specs, pre, pv
  <1>5. LET name  == pre \o colSep \o specs[k].name
            label == pv \o labelSep \o specs[k].label
        IN  /\ HasParts(name, colSep) /\ HasParts(label, labelSep)
            /\ Parts(name, colSep) = [prefix |-> pre \o InnerName(specs, k, labelSep, colSep),
                                      suffix |-> SuffixOf(specs, k, labelSep, colSep)]
            /\ Parts(label, labelSep).prefix = pv \o InnerLabel(specs, k, labelSep, colSep)
            /\ SuffixOf(specs, k, labelSep, colSep) # <<>>
    BY <1>1, <1>3, <1>4, ColumnPaths, Zenon
  <1>6. /\ HasParts(c.label, labelSep) /\ HasParts(c.name, colSep)
        /\ PathOf(c, colSep) = [prefix |-> pre \o InnerName(specs, k, labelSep, colSep),
                                suffix |-> SuffixOf(specs, k, labelSep, colSep)]
        /\ PvName(c, labelSep) = pv \o InnerLabel(specs, k, labelSep, colSep)
        /\ SuffixOf(specs, k, labelSep, colSep) # <<>>
    BY <1>2, <1>5, Zenon DEF PathOf, PvName
  <1> QED
    BY <1>6 DEF c, specs, pre, pv

\* Two inputs are not taken for one another, and neither are columns of one.
LEMMA MergedColumnsDiffer ==
    ASSUME NEW labelSep \in OneCharacter, NEW colSep \in OneCharacter, NEW buffers \in Seq(Input),
           Mergeable(buffers, labelSep, colSep), AreNumbered(buffers),
           NEW a \in 1 .. Len(buffers), NEW k \in 1 .. Len(ColumnsOf(buffers[a])),
           NEW b \in 1 .. Len(buffers), NEW l \in 1 .. Len(ColumnsOf(buffers[b]))
    PROVE  LET c == ColumnsFrom(buffers, a, labelSep, colSep)[k]
               d == ColumnsFrom(buffers, b, labelSep, colSep)[l]
           IN  /\ PathOf(c, colSep) = PathOf(d, colSep) => a = b /\ k = l
               /\ PvName(c, labelSep) = PvName(d, labelSep)
                    <=> PathOf(c, colSep).prefix = PathOf(d, colSep).prefix
  <1> DEFINE c == ColumnsFrom(buffers, a, labelSep, colSep)[k]
             d == ColumnsFrom(buffers, b, labelSep, colSep)[l]
             ca == ColumnsOf(buffers[a])
             cb == ColumnsOf(buffers[b])
             pa == <<"tbl", ToString(a - 1)>>
             pb == <<"tbl", ToString(b - 1)>>
             na == InnerName(ca, k, labelSep, colSep)
             nb == InnerName(cb, l, labelSep, colSep)
             la == InnerLabel(ca, k, labelSep, colSep)
             lb == InnerLabel(cb, l, labelSep, colSep)
             sa == SuffixOf(ca, k, labelSep, colSep)
             sb == SuffixOf(cb, l, labelSep, colSep)
             va == buffers[a].pvname
             vb == buffers[b].pvname
  <1>1. a \in DOMAIN buffers /\ b \in DOMAIN buffers
    OBVIOUS
  <1>2. /\ PathOf(c, colSep) = [prefix |-> pa \o na, suffix |-> sa] /\ PvName(c, labelSep) = va \o la
        /\ PathOf(d, colSep) = [prefix |-> pb \o nb, suffix |-> sb] /\ PvName(d, labelSep) = vb \o lb
    BY MergedColumn, Zenon
  <1>3. /\ ca \in Seq(ColumnSpec) /\ pa \in Name /\ va \in Name
        /\ cb \in Seq(ColumnSpec) /\ pb \in Name /\ vb \in Name
    BY ColumnsOfInput, Zenon
  <1>4. MergeableSpecs(ca, labelSep, colSep) /\ MergeableSpecs(cb, labelSep, colSep)
    BY <1>1 DEF Mergeable, MergeableSpecs
  <1>5. /\ na \in Seq(STRING) /\ Follows(la, labelSep)
        /\ nb \in Seq(STRING) /\ Follows(lb, labelSep)
    <2> HIDE DEF ca, cb
    <2> QED
      BY <1>3, <1>4, InnerTypes, Zenon DEF ca, cb
  <1>6. /\ ~HasSeparator(va, labelSep) /\ ~HasSeparator(vb, labelSep)
        /\ va = vb => a = b
    BY <1>1 DEF Mergeable
  <1>7. pa = pb => a = b
    <2>1. PICK s, t : s = ToString(a - 1) /\ t = ToString(b - 1)
      OBVIOUS
    <2>2. s = t => a = b
      BY <1>1, <2>1 DEF AreNumbered
    <2>3. <<"tbl", s>> = <<"tbl", t>> => s = t
      OBVIOUS
    <2> QED
      BY <2>1, <2>2, <2>3, Zenon
  <1>8. Len(pa) = Len(pb)
    OBVIOUS
  <1>9. a = b => /\ na = nb <=> la = lb
                 /\ na = nb /\ sa = sb => k = l
    <2>1. ASSUME a = b
          PROVE  /\ na = nb <=> la = lb
                 /\ na = nb /\ sa = sb => k = l
      <3>1. ca = cb /\ l \in 1 .. Len(ca) /\ k \in 1 .. Len(ca)
        BY <2>1
      <3> HIDE DEF ca, cb
      <3> QED
        BY <1>3, <1>4, <3>1, InnerAgree
    <2> QED
      BY <2>1
  <1>10. a = b => pa = pb /\ va = vb
    OBVIOUS
  <1> HIDE DEF c, d, ca, cb, pa, pb, na, nb, la, lb, sa, sb, va, vb
  <1>11. pa \o na = pb \o nb <=> a = b /\ na = nb
    <2>1. pa \o na = pb \o nb => pa = pb /\ na = nb
      BY <1>3, <1>5, <1>8, SplitsAlike DEF Name
    <2> QED
      BY <1>7, <1>10, <2>1
  <1>12. va \o la = vb \o lb <=> a = b /\ la = lb
    <2>1. va \o la = vb \o lb => va = vb /\ la = lb
      BY <1>3, <1>5, <1>6, SignalsAlike
    <2> QED
      BY <1>6, <1>10, <2>1
  <1>13. /\ PathOf(c, colSep).prefix = pa \o na /\ PathOf(d, colSep).prefix = pb \o nb
         /\ PathOf(c, colSep).suffix = sa /\ PathOf(d, colSep).suffix = sb
    BY <1>2
  <1>14. PathOf(c, colSep) = PathOf(d, colSep) => pa \o na = pb \o nb /\ sa = sb
    BY <1>13, Zenon
  <1>15. /\ PathOf(c, colSep) = PathOf(d, colSep) => a = b /\ k = l
         /\ PvName(c, labelSep) = PvName(d, labelSep)
              <=> PathOf(c, colSep).prefix = PathOf(d, colSep).prefix
    BY <1>2, <1>9, <1>11, <1>12, <1>13, <1>14
  <1> QED
    BY <1>15 DEF c, d

\* No group is called like a time column: its name has more pieces.
LEMMA PrefixIsLong ==
    ASSUME NEW s \in STRING, NEW t \in STRING, NEW x \in Seq(STRING)
    PROVE  <<s, t>> \o x \notin {<<>>} \cup {c.name : c \in ToSet(TimeColumns)}
  <1>1. <<s, t>> \in Seq(STRING) /\ Len(<<s, t>>) = 2
    BY ShortNames DEF Name
  <1>2. Len(<<s, t>> \o x) = 2 + Len(x) /\ Len(x) \in Nat
    BY <1>1, ConcatProperties
  <1>3. \A c \in ToSet(TimeColumns) : Len(c.name) = 1
    BY DEF ToSet, TimeColumns, SecondsPastEpoch, Nanoseconds, PulseId, Column
  <1>4. Len(<<>>) = 0
    OBVIOUS
  <1> QED
    BY <1>2, <1>3, <1>4

LEMMA DataOfMerged ==
    ASSUME NEW data \in Seq(ColumnSpec)
    PROVE  FromDataColumns(data) \in Seq(ColumnSpec) /\ DataColumns(FromDataColumns(data)) = data
  <1>1. TimeColumns \in Seq(ColumnSpec) /\ Len(TimeColumns) = 3
    <2>1. Column("UInt32A", "secondsPastEpoch") \in ColumnSpec /\ Column("UInt32A", "nanoseconds") \in ColumnSpec
          /\ Column("UInt64A", "pulseId") \in ColumnSpec
      <3>1. ASSUME NEW type \in ArrayTypes, NEW str \in STRING
            PROVE  Column(type, str) \in ColumnSpec
        BY ShortNames DEF Column, ColumnSpec
      <3>2. "UInt32A" \in ArrayTypes /\ "UInt64A" \in ArrayTypes
        BY DEF ArrayTypes
      <3> QED
        BY <3>1, <3>2, PiecesAssumption
    <2> QED
      BY <2>1 DEF TimeColumns, SecondsPastEpoch, Nanoseconds, PulseId
  <1> DEFINE all == TimeColumns \o data
             rest == SubSeq(all, 4, Len(all))
  <1>2. /\ all \in Seq(ColumnSpec) /\ Len(all) = 3 + Len(data)
        /\ \A i \in 1 .. 3 + Len(data) : all[i] = IF i <= 3 THEN TimeColumns[i] ELSE data[i - 3]
    <2>1. PICK tc \in Seq(ColumnSpec) : tc = TimeColumns /\ Len(tc) = 3
      BY <1>1
    <2>2. /\ tc \o data \in Seq(ColumnSpec) /\ Len(tc \o data) = Len(tc) + Len(data)
          /\ \A i \in 1 .. Len(tc) + Len(data) : (tc \o data)[i] = IF i <= Len(tc) THEN tc[i] ELSE data[i - Len(tc)]
      BY ConcatProperties
    <2> QED
      BY <2>1, <2>2, Zenon
  <1>3. Len(data) \in Nat
    OBVIOUS
  <1> HIDE DEF all
  <1>4. \A i \in 4 .. 3 + Len(data) : all[i] \in ColumnSpec
    BY <1>2
  <1>5. /\ rest \in Seq(ColumnSpec) /\ Len(rest) = Len(data)
        /\ \A i \in 1 .. Len(data) : rest[i] = all[i + 3]
    BY <1>2, <1>3, <1>4, SubSeqProperties
  <1> HIDE DEF rest
  <1>6. ASSUME NEW i \in 1 .. Len(data)
        PROVE  rest[i] = data[i]
    <2>1. i + 3 \in 1 .. 3 + Len(data) /\ ~(i + 3 <= 3) /\ i + 3 - 3 = i
      BY <1>3
    <2>2. PICK m \in 1 .. 3 + Len(data) : m = i + 3
      BY <2>1
    <2>3. all[m] = data[m - 3] /\ m - 3 = i
      BY <1>2, <2>1, <2>2
    <2> QED
      BY <1>5, <2>2, <2>3
  <1>7. rest = data
    BY <1>5, <1>6, SeqEqual
  <1> QED
    BY <1>1, <1>2, <1>7 DEF FromDataColumns, DataColumns, all, rest

\* What a merger makes of inputs it is made for can be mirrored by a file.
LEMMA MergedAreMirrored ==
    ASSUME NEW labelSep \in OneCharacter, NEW colSep \in OneCharacter, NEW buffers \in Seq(Input),
           Mergeable(buffers, labelSep, colSep), AreNumbered(buffers)
    PROVE  IsMirrored(MergedColumns(buffers, labelSep, colSep), labelSep, colSep)
  <1> DEFINE Of(a) == ColumnsFrom(buffers, a, labelSep, colSep)
             ss == [a \in DOMAIN buffers |-> Of(a)]
             data == FlattenSeq(ss)
             n == Len(buffers)
  <1>1. MergedColumns(buffers, labelSep, colSep) = FromDataColumns(data)
    BY DEF MergedColumns, ColumnsFrom
  <1>2. n \in Nat /\ DOMAIN buffers = 1 .. n
    OBVIOUS
  <1>3. \A a \in 1 .. n : Of(a) \in Seq(ColumnSpec) /\ Len(Of(a)) = Len(ColumnsOf(buffers[a]))
    BY ColumnsOfInput, Zenon
  <1> HIDE DEF Of
  <1>4. ss \in Seq(Seq(ColumnSpec)) /\ Len(ss) = n /\ \A a \in 1 .. n : ss[a] = Of(a)
    <2>1. ss \in [1 .. n -> Seq(ColumnSpec)] /\ \A a \in 1 .. n : ss[a] = Of(a)
      BY <1>2, <1>3
    <2> HIDE DEF ss, n
    <2>2. ss \in Seq(Seq(ColumnSpec))
      BY <1>2, <2>1, SeqDef
    <2>3. Len(ss) = n
      BY <1>2, <2>1, <2>2, LenProperties
    <2> QED
      BY <2>1, <2>2, <2>3
  <1> HIDE DEF ss
  <1>5. data \in Seq(ColumnSpec) /\ ComesFrom(data, ss, n)
    BY <1>4, FlattenComesFrom
  <1> HIDE DEF data
  <1>6. PICK p \in [1 .. Len(data) -> Nat], q \in [1 .. Len(data) -> Nat] :
          /\ \A i \in 1 .. Len(data) : p[i] \in 1 .. n /\ q[i] \in 1 .. Len(ss[p[i]]) /\ data[i] = ss[p[i]][q[i]]
          /\ \A i, j \in 1 .. Len(data) : p[i] = p[j] /\ q[i] = q[j] => i = j
    BY <1>5 DEF ComesFrom
  <1>7. ASSUME NEW i \in 1 .. Len(data)
        PROVE  p[i] \in 1 .. n /\ q[i] \in 1 .. Len(ColumnsOf(buffers[p[i]])) /\ data[i] = Of(p[i])[q[i]]
    <2>1. p[i] \in 1 .. n /\ q[i] \in 1 .. Len(ss[p[i]]) /\ data[i] = ss[p[i]][q[i]]
      BY <1>6
    <2>2. ss[p[i]] = Of(p[i]) /\ Len(Of(p[i])) = Len(ColumnsOf(buffers[p[i]]))
      BY <1>3, <1>4, <2>1
    <2> QED
      BY <2>1, <2>2
  <1>8. ASSUME NEW i \in 1 .. Len(data)
        PROVE  /\ HasParts(data[i].label, labelSep) /\ HasParts(data[i].name, colSep)
               /\ PathOf(data[i], colSep).prefix \notin {<<>>} \cup {t.name : t \in ToSet(TimeColumns)}
               /\ PathOf(data[i], colSep).suffix # <<>>
    <2>1. PICK a, k : a \in 1 .. n /\ k \in 1 .. Len(ColumnsOf(buffers[a])) /\ data[i] = Of(a)[k]
      BY <1>7
    <2> DEFINE specs == ColumnsOf(buffers[a])
               c == ColumnsFrom(buffers, a, labelSep, colSep)[k]
               inner == InnerName(specs, k, labelSep, colSep)
               suffix == SuffixOf(specs, k, labelSep, colSep)
    <2>2. /\ HasParts(c.label, labelSep) /\ HasParts(c.name, colSep)
          /\ PathOf(c, colSep) = [prefix |-> <<"tbl", ToString(a - 1)>> \o inner, suffix |-> suffix]
          /\ suffix # <<>>
      BY <2>1, MergedColumn, Zenon DEF n
    <2>3. inner \in Seq(STRING)
      <3>1. a \in DOMAIN buffers
        BY <2>1 DEF n
      <3>2. specs \in Seq(ColumnSpec)
        BY <2>1, ColumnsOfInput, Zenon DEF n
      <3>3. MergeableSpecs(specs, labelSep, colSep)
        BY <3>1 DEF Mergeable, MergeableSpecs
      <3> HIDE DEF specs
      <3>4. inner \in Seq(STRING)
        BY <2>1, <3>2, <3>3, InnerTypes, Zenon DEF specs
      <3> QED
        BY <3>4
    <2>4. "tbl" \in STRING /\ ToString(a - 1) \in STRING
      BY <1>2, <2>1, PiecesAssumption DEF AreNumbered
    <2> HIDE DEF c, inner, suffix, specs
    <2>5. <<"tbl", ToString(a - 1)>> \o inner \notin {<<>>} \cup {t.name : t \in ToSet(TimeColumns)}
      BY <2>3, <2>4, PrefixIsLong, Zenon
    <2>6. PathOf(c, colSep).prefix = <<"tbl", ToString(a - 1)>> \o inner /\ PathOf(c, colSep).suffix = suffix
      BY <2>2
    <2>7. data[i] = c
      BY <2>1 DEF c, Of
    <2> QED
      BY <2>2, <2>5, <2>6, <2>7, Zenon
  <1>9. ASSUME NEW i \in 1 .. Len(data), NEW j \in 1 .. Len(data)
        PROVE  /\ PathOf(data[i], colSep) = PathOf(data[j], colSep) => i = j
               /\ PvName(data[i], labelSep) = PvName(data[j], labelSep)
                    <=> PathOf(data[i], colSep).prefix = PathOf(data[j], colSep).prefix
    <2>1. PICK a, k :
            /\ a \in 1 .. n /\ k \in 1 .. Len(ColumnsOf(buffers[a]))
            /\ a = p[i] /\ k = q[i] /\ data[i] = ColumnsFrom(buffers, a, labelSep, colSep)[k]
      BY <1>7 DEF Of
    <2>2. PICK b, l :
            /\ b \in 1 .. n /\ l \in 1 .. Len(ColumnsOf(buffers[b]))
            /\ b = p[j] /\ l = q[j] /\ data[j] = ColumnsFrom(buffers, b, labelSep, colSep)[l]
      BY <1>7 DEF Of
    <2> DEFINE c == ColumnsFrom(buffers, a, labelSep, colSep)[k]
               d == ColumnsFrom(buffers, b, labelSep, colSep)[l]
    <2>3. /\ PathOf(c, colSep) = PathOf(d, colSep) => a = b /\ k = l
          /\ PvName(c, labelSep) = PvName(d, labelSep)
               <=> PathOf(c, colSep).prefix = PathOf(d, colSep).prefix
      <3>1. /\ a \in 1 .. Len(buffers) /\ k \in 1 .. Len(ColumnsOf(buffers[a]))
            /\ b \in 1 .. Len(buffers) /\ l \in 1 .. Len(ColumnsOf(buffers[b]))
        BY <2>1, <2>2 DEF n
      <3> QED
        BY <3>1, MergedColumnsDiffer, SMTT(60)
    <2>4. a = b /\ k = l => i = j
      BY <1>6, <2>1, <2>2
    <2> HIDE DEF c, d
    <2>5. data[i] = c /\ data[j] = d
      BY <2>1, <2>2 DEF c, d
    <2> QED
      BY <2>3, <2>4, <2>5, Zenon
  <1>10. Named(data, labelSep, colSep)
    BY <1>8, <1>9 DEF Named
  <1>11. FromDataColumns(data) \in Seq(ColumnSpec) /\ DataColumns(FromDataColumns(data)) = data
    BY <1>5, DataOfMerged
  <1>12. IsMirrored(FromDataColumns(data), labelSep, colSep)
    BY <1>10, <1>11, NamedIsMirrored
  <1> QED
    BY <1>1, <1>12
=============================================================================
