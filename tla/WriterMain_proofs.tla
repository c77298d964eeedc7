-------------------------- MODULE WriterMain_proofs --------------------------
(***************************************************************************)
(* No update is lost, written twice or out of order, whatever the updates, *)
(* the limits and the command line are, and for however long; the rows of  *)
(* a file have the same columns; and the files mirror the tables.          *)
(***************************************************************************)
EXTENDS WriterMain, AlignedColumns_proofs

Popped == arrived - Len(queue)

\* The updates that have rows, and no file is to lose.
Due(n) == updates[n] # Disconnect /\ NumRows(Tables[updates[n]]) > 0

\* The queue holds the updates that have arrived and were not popped.
QueueIsNext ==
    /\ arrived \in Nat
    /\ queue \in Seq(Nat)
    /\ Len(queue) <= arrived
    /\ \A i \in 1 .. Len(queue) : queue[i] = Popped + i
    /\ wpc = "start" => arrived = 0

\* The name of the open file is the time it was opened, which has passed.
FileIsPast ==
    /\ now \in Nat
    /\ file \in {None} \cup Nat
    /\ file # None => file <= now

Entry == [update : Nat, file : Nat]

\* What is stored is of updates that were popped, and of files that are open
\* or were.
StoredArePopped ==
    /\ stored \in Seq(Entry)
    /\ \A i \in 1 .. Len(stored) :
         /\ stored[i].update <= Popped
         /\ stored[i].file <= now
         /\ file # None => stored[i].file <= file

StoredInOrder ==
    \A i, j \in 1 .. Len(stored) :
      i < j => stored[i].update < stored[j].update /\ stored[i].file <= stored[j].file

\* What is due is stored.
PoppedAreStored ==
    \A n \in 1 .. Popped :
      Due(n) /\ reason # "ERROR" /\ wpc # "suspended" => \E i \in 1 .. Len(stored) : stored[i].update = n

StopsEnd == reason # "none" => wpc = "ended"

WriterInv ==
    /\ QueueIsNext
    /\ FileIsPast
    /\ StoredArePopped
    /\ StoredInOrder
    /\ PoppedAreStored
    /\ StopsEnd

LEMMA Initially == Init => WriterInv
<1> SUFFICES ASSUME Init PROVE WriterInv
  OBVIOUS
<1>1. /\ arrived = 0 /\ queue = <<>> /\ stored = <<>> /\ now = 0 /\ file = None /\ reason = "none"
      /\ Len(queue) = 0 /\ Len(stored) = 0
  BY DEF Init
<1>2. QueueIsNext /\ FileIsPast /\ StopsEnd
  BY <1>1 DEF QueueIsNext, FileIsPast, StopsEnd
<1>3. StoredArePopped /\ StoredInOrder
  BY <1>1 DEF StoredArePopped, StoredInOrder
<1>4. PoppedAreStored
  BY <1>1 DEF PoppedAreStored, Popped
<1> QED
  BY <1>2, <1>3, <1>4 DEF WriterInv

\* What has to be shown of a step that neither pops nor stores.
LEMMA KeptByOthers ==
  ASSUME WriterInv, UNCHANGED <<queue, arrived, stored>>,
         now' \in Nat, now <= now', file' \in {None, file},
         UNCHANGED updates \/ arrived = 0,
         wpc' = "start" => wpc = "start",
         wpc = "suspended" => wpc' = "suspended", reason = "ERROR" => reason' = "ERROR",
         reason' # "none" => wpc' = "ended"
  PROVE  WriterInv'
<1>1. QueueIsNext'
  BY DEF WriterInv, QueueIsNext, Popped
<1>2. FileIsPast'
  BY DEF WriterInv, FileIsPast, None
<1>3. StoredArePopped'
  <2>1. \A i \in 1 .. Len(stored) : stored[i].file \in Nat
    <3>1. \A i \in 1 .. Len(stored) : stored[i] \in Entry
      BY DEF WriterInv, StoredArePopped
    <3> QED
      BY <3>1 DEF Entry
  <2> QED
    BY <2>1 DEF WriterInv, FileIsPast, StoredArePopped, Popped, None
<1>4. StoredInOrder' /\ StopsEnd'
  BY DEF WriterInv, StoredInOrder, StopsEnd
<1>5. PoppedAreStored'
  <2>1. CASE arrived = 0
    BY <2>1 DEF WriterInv, QueueIsNext, PoppedAreStored, Popped
  <2>2. CASE UNCHANGED updates
    BY <2>2 DEF WriterInv, PoppedAreStored, Popped, Due
  <2> QED
    BY <2>1, <2>2
<1> QED
  BY <1>1, <1>2, <1>3, <1>4, <1>5 DEF WriterInv

LEMMA KeptByArrive ==
  ASSUME WriterInv, Arrive
  PROVE  WriterInv'
<1>1. /\ arrived' = arrived + 1 /\ queue' = Append(queue, arrived + 1) /\ wpc # "start"
      /\ UNCHANGED <<now, wpc, file, stored, reason, updates>>
  BY DEF Arrive, loopVars
<1>2. arrived \in Nat /\ queue \in Seq(Nat) /\ Len(queue') = Len(queue) + 1
  BY <1>1 DEF WriterInv, QueueIsNext
<1>3. Popped' = Popped
  BY <1>1, <1>2 DEF Popped
<1>4. QueueIsNext'
  <2>1. \A i \in 1 .. Len(queue') : queue'[i] = Popped + i
    BY <1>1, <1>2 DEF WriterInv, QueueIsNext, Popped
  <2>2. arrived' \in Nat /\ queue' \in Seq(Nat) /\ Len(queue') <= arrived'
    BY <1>1, <1>2 DEF WriterInv, QueueIsNext
  <2> QED
    BY <1>1, <1>3, <2>1, <2>2 DEF QueueIsNext
<1>5. FileIsPast' /\ StoredArePopped' /\ StoredInOrder' /\ StopsEnd'
  BY <1>1, <1>3 DEF WriterInv, FileIsPast, StoredArePopped, StoredInOrder, StopsEnd
<1>6. PoppedAreStored'
  BY <1>1, <1>3 DEF WriterInv, PoppedAreStored, Due
<1> QED
  BY <1>4, <1>5, <1>6 DEF WriterInv

LEMMA KeptByPop ==
  ASSUME WriterInv, PopUpdate
  PROVE  WriterInv'
<1> DEFINE n == Popped + 1
<1>1. queue # <<>> /\ queue' = Tail(queue) /\ wpc = "drain" /\ UNCHANGED <<now, updates, arrived>>
  BY DEF PopUpdate, clientVars
<1>2. /\ queue \in Seq(Nat) /\ arrived \in Nat /\ Len(queue) <= arrived
      /\ \A i \in 1 .. Len(queue) : queue[i] = Popped + i
  BY DEF WriterInv, QueueIsNext
<1>3. Head(queue) = n /\ n \in 1 .. arrived /\ Popped \in Nat
  BY <1>1, <1>2 DEF Popped
<1>4. Popped' = n /\ Len(queue') = Len(queue) - 1
  BY <1>1, <1>2 DEF Popped
<1>5. wpc' # "start"
  BY <1>1 DEF PopUpdate, Stop
<1>6. QueueIsNext'
  BY <1>1, <1>2, <1>3, <1>4, <1>5 DEF QueueIsNext
<1>7. StopsEnd'
  BY <1>1 DEF PopUpdate, Stop, WriterInv, StopsEnd
<1>8. file' \in {None, Target} /\ Target \in Nat /\ Target <= now /\ now \in Nat
  BY DEF PopUpdate, Stop, Target, WriterInv, FileIsPast, None
<1>9. FileIsPast'
  BY <1>1, <1>8 DEF FileIsPast, None
<1>10. \A i \in 1 .. Len(stored) : stored[i] \in Entry /\ stored[i].update < n /\ stored[i].file <= Target
  <2>1. ASSUME NEW i \in 1 .. Len(stored) PROVE stored[i] \in Entry
    BY DEF WriterInv, StoredArePopped
  <2>2. ASSUME NEW i \in 1 .. Len(stored) PROVE stored[i].update < n /\ stored[i].file <= Target
    BY <1>3, <2>1 DEF WriterInv, StoredArePopped, Entry, Target, FileIsPast, None
  <2> QED
    BY <2>1, <2>2
<1>11. stored \in Seq(Entry)
  BY DEF WriterInv, StoredArePopped
<1>12. CASE stored' = stored /\ (~Due(n) \/ reason' = "ERROR" \/ wpc' = "suspended")
  <2>1. StoredArePopped'
    BY <1>1, <1>3, <1>4, <1>8, <1>10, <1>11, <1>12 DEF StoredArePopped, Entry
  <2>2. StoredInOrder'
    BY <1>12 DEF WriterInv, StoredInOrder
  <2>3. PoppedAreStored'
    BY <1>1, <1>3, <1>4, <1>12 DEF WriterInv, PoppedAreStored, StopsEnd, Due
  <2> QED
    BY <1>6, <1>7, <1>9, <2>1, <2>2, <2>3 DEF WriterInv
<1>13. CASE stored' = stored \o <<[update |-> n, file |-> Target]>>
  <2> DEFINE last == Len(stored) + 1
  <2>1. /\ Len(stored') = last /\ stored'[last] = [update |-> n, file |-> Target]
        /\ \A i \in 1 .. Len(stored) : stored'[i] = stored[i]
        /\ Len(stored) \in Nat
    BY <1>11, <1>13
  <2>2. StoredArePopped'
    <3>1. [update |-> n, file |-> Target] \in Entry
      BY <1>3, <1>8 DEF Entry
    <3>2. stored' \in Seq(Entry)
      BY <1>11, <1>13, <3>1
    <3>3. ASSUME NEW i \in 1 .. last
          PROVE  stored'[i].update <= n /\ stored'[i].file <= now /\ (file' # None => stored'[i].file <= file')
      <4>1. CASE i = last
        BY <1>3, <1>8, <2>1, <4>1
      <4>2. CASE i # last
        <5>1. i \in 1 .. Len(stored)
          BY <2>1, <4>2
        <5> QED
          BY <1>3, <1>8, <1>10, <2>1, <5>1 DEF Entry
      <4> QED
        BY <4>1, <4>2
    <3> QED
      BY <1>1, <1>4, <2>1, <3>2, <3>3 DEF StoredArePopped
  <2>3. StoredInOrder'
    <3>1. SUFFICES ASSUME NEW i \in 1 .. last, NEW j \in 1 .. last, i < j
                   PROVE  stored'[i].update < stored'[j].update /\ stored'[i].file <= stored'[j].file
      BY <2>1 DEF StoredInOrder
    <3>2. i \in 1 .. Len(stored)
      BY <2>1, <3>1
    <3>3. CASE j = last
      BY <1>10, <2>1, <3>2, <3>3
    <3>4. CASE j # last
      <4>1. j \in 1 .. Len(stored)
        BY <2>1, <3>4
      <4> QED
        BY <2>1, <3>1, <3>2, <4>1 DEF WriterInv, StoredInOrder
    <3> QED
      BY <3>3, <3>4
  <2>4. PoppedAreStored'
    <3>1. SUFFICES ASSUME NEW m \in 1 .. n, Due(m), reason' # "ERROR", wpc' # "suspended"
                   PROVE  \E i \in 1 .. last : stored'[i].update = m
      BY <1>1, <1>4, <2>1 DEF PoppedAreStored, Due
    <3>2. CASE m = n
      BY <2>1, <3>2
    <3>3. CASE m # n
      <4>1. m \in 1 .. Popped
        BY <1>3, <3>3
      <4>2. \E i \in 1 .. Len(stored) : stored[i].update = m
        BY <1>1, <3>1, <4>1 DEF WriterInv, PoppedAreStored, StopsEnd
      <4> QED
        BY <2>1, <4>2
    <3> QED
      BY <3>2, <3>3
  <2> QED
    BY <1>6, <1>7, <1>9, <2>2, <2>3, <2>4 DEF WriterInv
<1> QED
  <2>1. CASE updates[n] = Disconnect
    BY <1>3, <1>12, <2>1 DEF PopUpdate, Due
  <2>2. CASE updates[n] # Disconnect
    <3>1. \/ wpc' = "suspended" /\ stored' = stored
          \/ reason' = "ERROR" /\ stored' = stored
          \/ stored' = stored \o Written(n)
      BY <1>3, <2>2 DEF PopUpdate, Stop
    <3>2. CASE stored' = stored \o Written(n) /\ Due(n)
      BY <1>13, <3>2 DEF Written, Due
    <3>3. CASE stored' = stored \o Written(n) /\ ~Due(n)
      <4>1. Written(n) = <<>>
        BY <2>2, <3>3 DEF Written, Due
      <4> QED
        BY <1>11, <1>12, <3>3, <4>1
    <3> QED
      BY <1>12, <3>1, <3>2, <3>3
  <2> QED
    BY <2>1, <2>2

LEMMA InvariantIsInductive == WriterInv /\ [Next]_vars => WriterInv'
<1> SUFFICES ASSUME WriterInv, [Next]_vars PROVE WriterInv'
  OBVIOUS
<1>0. now \in Nat /\ (wpc = "start" => arrived = 0) /\ (reason # "none" => wpc = "ended")
  BY DEF WriterInv, FileIsPast, QueueIsNext, StopsEnd
<1>1. CASE ReadCommandLine
  BY <1>0, <1>1, KeptByOthers DEF ReadCommandLine, StartsWith
<1>2. CASE BeginWait \/ DrainEnds
  BY <1>0, <1>2, KeptByOthers DEF BeginWait, DrainEnds, clientVars
<1>3. CASE Wakes \/ WaitFails \/ Stat
  BY <1>0, <1>3, KeptByOthers DEF Wakes, WaitFails, Stat, Stop, NextFile, clientVars
<1>4. CASE PopUpdate
  BY <1>4, KeptByPop
<1>5. CASE Tick
  BY <1>0, <1>5, KeptByOthers DEF Tick, loopVars, clientVars
<1>6. CASE Arrive
  BY <1>6, KeptByArrive
<1>7. CASE Notify \/ Interrupt
  BY <1>0, <1>7, KeptByOthers DEF Notify, Interrupt, loopVars, clientVars
<1>8. CASE UNCHANGED vars
  BY <1>0, <1>8, KeptByOthers DEF vars, loopVars, clientVars
<1> QED
  BY <1>1, <1>2, <1>3, <1>4, <1>5, <1>6, <1>7, <1>8 DEF Next, LoopNext

\* An update with rows that has arrived is in the queue or in one file, in the
\* order of arrival, through every change of files (writerMain.cpp:232-310).
THEOREM NothingIsLostAlways == Spec => []NothingIsLost
<1>1. WriterInv => NothingIsLost
  <2> SUFFICES ASSUME WriterInv PROVE NothingIsLost
    OBVIOUS
  <2>1. /\ queue \in Seq(Nat) /\ arrived \in Nat /\ Len(queue) <= arrived /\ stored \in Seq(Entry)
        /\ \A i \in 1 .. Len(queue) : queue[i] = Popped + i
        /\ \A i \in 1 .. Len(stored) : stored[i].update <= Popped
        /\ Popped \in Nat
    BY DEF WriterInv, QueueIsNext, StoredArePopped, Popped
  <2>2. DOMAIN queue = 1 .. Len(queue) /\ DOMAIN stored = 1 .. Len(stored)
    BY <2>1
  <2>3. ASSUME NEW n \in 1 .. arrived, Due(n), reason # "ERROR", wpc # "suspended"
        PROVE  (n \in StoredUpdates) # (\E i \in DOMAIN queue : queue[i] = n)
    <3>1. CASE n <= Popped
      <4>1. n \in StoredUpdates
        BY <2>1, <2>2, <2>3, <3>1 DEF WriterInv, PoppedAreStored, StoredUpdates
      <4>2. ~\E i \in DOMAIN queue : queue[i] = n
        BY <2>1, <2>2, <3>1
      <4> QED
        BY <4>1, <4>2
    <3>2. CASE n > Popped
      <4>1. n \notin StoredUpdates
        BY <2>1, <2>2, <3>2 DEF StoredUpdates
      <4>2. n - Popped \in DOMAIN queue /\ queue[n - Popped] = n
        BY <2>1, <2>2, <3>2 DEF Popped
      <4> QED
        BY <4>1, <4>2
    <3>3. n <= Popped \/ n > Popped
      BY <2>1
    <3> QED
      BY <3>1, <3>2, <3>3
  <2>4. \A i, j \in DOMAIN stored :
          i < j => stored[i].update < stored[j].update /\ stored[i].file <= stored[j].file
    BY <2>2 DEF WriterInv, StoredInOrder
  <2> QED
    BY <2>3, <2>4 DEF NothingIsLost, Due
<1> QED
  BY <1>1, Initially, InvariantIsInductive, PTL DEF Spec

-----------------------------------------------------------------------------
(***************************************************************************)
(* Types, and why main always has a writer where it asks for the size of   *)
(* the file.                                                               *)
(***************************************************************************)

ClockTypes ==
    /\ now \in 0 .. MaxTime
    /\ start \in 0 .. now
    /\ elapsed \in 0 .. MaxTime
    /\ until \in Int
    /\ heard \in {None} \cup 0 .. MaxTime

ConfigTypes ==
    /\ argv \in CommandLines \cup {<<>>}
    /\ config \in [timeout : Nat, duration : Nat, size : Nat, unbuildable : SUBSET DOMAIN Tables]
    /\ updates \in Feeds \cup {<<>>}

FileTypes ==
    /\ file \in {None} \cup 0 .. MaxTime
    /\ files \subseteq 0 .. MaxTime
    /\ type_ \in {None} \cup DOMAIN updates
    /\ stored \in Seq([update : DOMAIN updates, file : files])

QueueTypes == queue \in Seq(DOMAIN updates)

PlaceTypes ==
    /\ wpc \in {"start", "loop", "wait", "drain", "stat", "suspended", "ended"}
    /\ reason \in {"none", "INTERRUPTED", "TIMEOUT", "DISCONNECTED", "ERROR", "USAGE"}
    /\ {event, needNotify, notifying} \subseteq BOOLEAN

\* What was subscribed to is not there before it is.
StartsEmpty == wpc = "start" => type_ = None /\ stored = <<>> /\ queue = <<>> /\ interrupted = "no"

\* An event is that of an update that is still in the queue, or the interrupt's.
EventMeansUpdate ==
    interrupted = "no" =>
      /\ event \/ notifying => queue # <<>> /\ wpc # "drain" /\ ~needNotify
      /\ ~(event /\ notifying)

\* The queue is not found empty before an update was taken from it.
FileIsOpen ==
    /\ wpc = "drain" => ~needNotify /\ (queue = <<>> => file # None)
    /\ wpc = "stat" => file # None

TypeInv ==
    /\ ClockTypes
    /\ ConfigTypes
    /\ FileTypes
    /\ QueueTypes
    /\ PlaceTypes
    /\ StartsEmpty
    /\ EventMeansUpdate
    /\ FileIsOpen

LEMMA InitiallyTyped == Init => TypeInv
<1> SUFFICES ASSUME Init PROVE TypeInv
  OBVIOUS
<1>1. ClockTypes /\ StartsEmpty
  BY WriterAssumption DEF Init, ClockTypes, StartsEmpty, None
<1>2. ConfigTypes
  BY DEF Init, ConfigTypes, NotConfigured
<1>3. FileTypes /\ QueueTypes
  BY DEF Init, FileTypes, QueueTypes, None
<1>4. PlaceTypes
  BY DEF Init, PlaceTypes
<1>5. EventMeansUpdate /\ FileIsOpen
  BY DEF Init, EventMeansUpdate, FileIsOpen
<1> QED
  BY <1>1, <1>2, <1>3, <1>4, <1>5 DEF TypeInv

LEMMA SequencesGrow ==
  ASSUME NEW S, NEW T, S \subseteq T, NEW s \in Seq(S)
  PROVE  s \in Seq(T)
<1>1. s \in [1 .. Len(s) -> T] /\ Len(s) \in Nat
  OBVIOUS
<1> QED
  BY <1>1

\* strtod() returns a number, whatever the argument is.
LEMMA NumbersAreIntegers ==
  ASSUME NEW arg
  PROVE  Cli!Number(arg) \in Int
  BY WriterAssumption DEF Cli!Number, Cli!Digits, Cli!Signs

LEMMA ConfigIsTyped ==
  ASSUME NEW parser, ~IsRefused(parser)
  PROVE  ConfigOf(parser) \in [timeout : Nat, duration : Nat, size : Nat, unbuildable : SUBSET DOMAIN Tables]
<1>1. Cli!Number(Cli!Setting(parser, "timeout_sec", <<>>)) \in Nat
  BY NumbersAreIntegers DEF IsRefused
<1>2. Cli!Number(Cli!Setting(parser, "max_duration_sec", <<>>)) \in Nat
  BY NumbersAreIntegers DEF IsRefused
<1>3. Cli!Unsigned(Cli!Setting(parser, "max_size_mb", <<>>)) \in Nat
  BY NumbersAreIntegers DEF Cli!Unsigned
<1> QED
  BY <1>1, <1>2, <1>3 DEF ConfigOf

LEMMA TypedAfterCommandLine ==
  ASSUME TypeInv, ReadCommandLine
  PROVE  TypeInv'
<1>1. /\ wpc = "start" /\ argv' = <<>>
      /\ UNCHANGED <<now, start, elapsed, until, file, type_, files, stored, heard,
                     event, interrupted, queue, arrived, needNotify, notifying>>
  BY DEF ReadCommandLine
<1>2. type_ = None /\ stored = <<>> /\ queue = <<>>
  BY <1>1 DEF TypeInv, StartsEmpty
<1>3. \/ wpc' = "ended" /\ reason' = "USAGE" /\ UNCHANGED <<config, updates>>
      \/ /\ wpc' = "loop" /\ updates' \in Feeds /\ UNCHANGED reason
         /\ config' \in [timeout : Nat, duration : Nat, size : Nat, unbuildable : SUBSET DOMAIN Tables]
  BY ConfigIsTyped DEF ReadCommandLine, StartsWith
<1>4. ClockTypes' /\ PlaceTypes' /\ StartsEmpty' /\ EventMeansUpdate' /\ FileIsOpen'
  BY <1>1, <1>3 DEF TypeInv, ClockTypes, PlaceTypes, StartsEmpty, EventMeansUpdate, FileIsOpen
<1>5. ConfigTypes'
  BY <1>1, <1>3 DEF TypeInv, ConfigTypes
<1>6. FileTypes' /\ QueueTypes'
  BY <1>1, <1>2 DEF TypeInv, FileTypes, QueueTypes
<1> QED
  BY <1>4, <1>5, <1>6 DEF TypeInv

\* What has to be shown of a step that neither pops nor is delivered to.
LEMMA TypedAfterOthers ==
  ASSUME TypeInv, UNCHANGED <<argv, config, updates, queue, stored, files>>,
         ClockTypes', PlaceTypes', EventMeansUpdate', FileIsOpen',
         wpc' # "start", file' \in {None, file}, type_' \in {None, type_}
  PROVE  TypeInv'
  BY DEF TypeInv, ConfigTypes, FileTypes, QueueTypes, StartsEmpty

LEMMA TypedAfterPop ==
  ASSUME WriterInv, TypeInv, PopUpdate, UNCHANGED <<argv, config>>
  PROVE  TypeInv'
<1> DEFINE n == Head(queue)
<1>1. /\ wpc = "drain" /\ queue # <<>> /\ queue' = Tail(queue)
      /\ UNCHANGED <<now, elapsed, until, event, interrupted, updates, arrived, needNotify, notifying>>
  BY DEF PopUpdate, clientVars
<1>2. ClockTypes /\ FileTypes /\ QueueTypes /\ PlaceTypes /\ EventMeansUpdate /\ FileIsOpen /\ MaxTime \in Nat
  BY WriterAssumption DEF TypeInv
<1>3. n \in DOMAIN updates /\ QueueTypes'
  BY <1>1, <1>2 DEF QueueTypes
<1>4. Target \in 0 .. MaxTime /\ Target # None
  BY <1>2 DEF Target, ClockTypes, FileTypes, None
<1>5. /\ file' \in {None, Target} /\ type_' \in {None, type_, n}
      /\ files' \in {files, files \cup {Target}}
      /\ start' \in {start, now} /\ heard' \in {heard, now}
      /\ wpc' \in {"drain", "suspended", "ended"} /\ (wpc' = "drain" => file' = Target)
      /\ reason' \in {reason, "ERROR", "DISCONNECTED"}
      /\ stored' = stored \/ (stored' = stored \o Written(n) /\ files' = files \cup {Target})
  BY <1>1 DEF PopUpdate, Stop
<1>6. ClockTypes'
  BY <1>1, <1>2, <1>5 DEF ClockTypes
<1>7. PlaceTypes' /\ StartsEmpty'
  BY <1>1, <1>2, <1>5 DEF PlaceTypes, StartsEmpty
<1>8. EventMeansUpdate' /\ FileIsOpen'
  BY <1>1, <1>2, <1>4, <1>5 DEF EventMeansUpdate, FileIsOpen
<1>9. FileTypes'
  <2>1. stored \in Seq([update : DOMAIN updates, file : files'])
    <3>1. [update : DOMAIN updates, file : files] \subseteq [update : DOMAIN updates, file : files']
      BY <1>5
    <3> QED
      BY <1>2, <3>1, SequencesGrow DEF FileTypes
  <2>2. stored' \in Seq([update : DOMAIN updates, file : files'])
    <3>1. CASE stored' = stored
      BY <2>1, <3>1
    <3>2. CASE stored' = stored \o Written(n) /\ files' = files \cup {Target}
      <4>1. Written(n) \in Seq([update : DOMAIN updates, file : files'])
        <5>1. Written(n) \in {<<>>, <<[update |-> n, file |-> Target]>>}
          BY DEF Written
        <5>2. [update |-> n, file |-> Target] \in [update : DOMAIN updates, file : files']
          BY <1>3, <3>2
        <5>3. ASSUME NEW S, NEW e \in S PROVE <<>> \in Seq(S) /\ <<e>> \in Seq(S)
          OBVIOUS
        <5> HIDE DEF n
        <5> QED
          BY <5>1, <5>2, <5>3
      <4> HIDE DEF n
      <4> QED
        BY <2>1, <3>2, <4>1
    <3> QED
      BY <1>5, <3>1, <3>2
  <2> QED
    BY <1>1, <1>2, <1>3, <1>4, <1>5, <2>2 DEF FileTypes
<1>10. ConfigTypes'
  BY <1>1 DEF TypeInv, ConfigTypes
<1> QED
  BY <1>3, <1>6, <1>7, <1>8, <1>9, <1>10 DEF TypeInv

LEMMA UpdatesAreASequence ==
  ASSUME updates \in Feeds \cup {<<>>}
  PROVE  updates \in Seq(DOMAIN Tables \cup {Disconnect})
<1>1. <<>> \in Seq(DOMAIN Tables \cup {Disconnect})
  OBVIOUS
<1> QED
  BY <1>1, WriterAssumption

LEMMA TypedAfterArrive ==
  ASSUME WriterInv, TypeInv, Arrive, UNCHANGED <<argv, config>>
  PROVE  TypeInv'
<1>1. /\ arrived < Len(updates) /\ queue' = Append(queue, arrived + 1) /\ wpc # "start"
      /\ notifying' = (notifying \/ needNotify) /\ needNotify' = FALSE
      /\ UNCHANGED <<now, wpc, start, elapsed, until, file, type_, files, stored, reason, heard,
                     event, interrupted, updates>>
  BY DEF Arrive, loopVars
<1>2. arrived \in Nat /\ queue \in Seq(DOMAIN updates)
  BY DEF WriterInv, QueueIsNext, TypeInv, QueueTypes
<1>3. arrived + 1 \in DOMAIN updates
  <2>1. updates \in Seq(DOMAIN Tables \cup {Disconnect})
    BY UpdatesAreASequence DEF TypeInv, ConfigTypes
  <2> QED
    BY <1>1, <1>2, <2>1
<1>4. queue' \in Seq(DOMAIN updates) /\ queue' # <<>>
  BY <1>1, <1>2, <1>3
<1>5. QueueTypes' /\ ConfigTypes' /\ ClockTypes' /\ FileTypes'
  BY <1>1, <1>4 DEF TypeInv, QueueTypes, ConfigTypes, ClockTypes, FileTypes
<1>6. PlaceTypes' /\ StartsEmpty'
  BY <1>1 DEF TypeInv, PlaceTypes, StartsEmpty
<1>7. EventMeansUpdate' /\ FileIsOpen'
  BY <1>1, <1>4 DEF TypeInv, EventMeansUpdate, FileIsOpen
<1> QED
  BY <1>5, <1>6, <1>7 DEF TypeInv

LEMMA TypesAreInductive == WriterInv /\ TypeInv /\ [Next]_vars => TypeInv'
<1> SUFFICES ASSUME WriterInv, TypeInv, [Next]_vars PROVE TypeInv'
  OBVIOUS
<1>1. ClockTypes /\ PlaceTypes /\ EventMeansUpdate /\ FileIsOpen /\ MaxTime \in Nat
  BY WriterAssumption DEF TypeInv
<1>2. CASE ReadCommandLine
  BY <1>2, TypedAfterCommandLine
<1>3. CASE BeginWait /\ UNCHANGED <<argv, config>>
  <2>1. Limit(config.timeout) \in Int /\ Limit(config.duration) \in Int
    BY <1>1 DEF TypeInv, ConfigTypes, Limit, Never
  <2>2. ClockTypes'
    BY <1>1, <1>3, <2>1 DEF BeginWait, ClockTypes, Lesser
  <2>3. PlaceTypes' /\ EventMeansUpdate' /\ FileIsOpen'
    BY <1>1, <1>3 DEF BeginWait, clientVars, PlaceTypes, EventMeansUpdate, FileIsOpen
  <2> QED
    BY <1>3, <2>2, <2>3, TypedAfterOthers DEF BeginWait, clientVars
<1>4. CASE (Wakes \/ WaitFails \/ Stat) /\ UNCHANGED <<argv, config>>
  <2>1. ClockTypes'
    BY <1>1, <1>4 DEF Wakes, WaitFails, Stat, Stop, NextFile, ClockTypes
  <2>2. PlaceTypes'
    BY <1>1, <1>4 DEF Wakes, WaitFails, Stat, Stop, NextFile, clientVars, PlaceTypes
  <2>3. EventMeansUpdate' /\ FileIsOpen'
    BY <1>1, <1>4 DEF Wakes, WaitFails, Stat, Stop, NextFile, clientVars, EventMeansUpdate, FileIsOpen
  <2> QED
    BY <1>4, <2>1, <2>2, <2>3, TypedAfterOthers DEF Wakes, WaitFails, Stat, Stop, NextFile, clientVars
<1>5. CASE DrainEnds /\ UNCHANGED <<argv, config>>
  <2>1. ClockTypes' /\ PlaceTypes' /\ EventMeansUpdate' /\ FileIsOpen'
    BY <1>1, <1>5 DEF DrainEnds, ClockTypes, PlaceTypes, EventMeansUpdate, FileIsOpen
  <2> QED
    BY <1>5, <2>1, TypedAfterOthers DEF DrainEnds
<1>6. CASE PopUpdate /\ UNCHANGED <<argv, config>>
  BY <1>6, TypedAfterPop
<1>7. CASE Tick /\ UNCHANGED <<argv, config>>
  <2>1. ClockTypes' /\ PlaceTypes' /\ EventMeansUpdate' /\ FileIsOpen'
    BY <1>1, <1>7 DEF Tick, loopVars, clientVars, ClockTypes, PlaceTypes, EventMeansUpdate, FileIsOpen
  <2> QED
    BY <1>7, <2>1, TypedAfterOthers DEF Tick, loopVars, clientVars
<1>8. CASE Arrive /\ UNCHANGED <<argv, config>>
  BY <1>8, TypedAfterArrive
<1>9. CASE (Notify \/ Interrupt) /\ UNCHANGED <<argv, config>>
  <2>1. wpc # "start"
    <3>1. wpc = "start" => queue = <<>> /\ interrupted = "no"
      BY DEF TypeInv, StartsEmpty
    <3>2. CASE Notify
      BY <1>1, <3>1, <3>2 DEF Notify, EventMeansUpdate
    <3>3. CASE Interrupt
      BY <3>1, <3>3 DEF Interrupt
    <3> QED
      BY <1>9, <3>2, <3>3
  <2>2. ClockTypes' /\ FileIsOpen'
    BY <1>1, <1>9 DEF Notify, Interrupt, loopVars, clientVars, ClockTypes, FileIsOpen
  <2>3. EventMeansUpdate'
    <3>1. CASE Notify
      BY <1>1, <3>1 DEF Notify, loopVars, EventMeansUpdate
    <3>2. CASE Interrupt
      BY <3>2 DEF Interrupt, EventMeansUpdate
    <3> QED
      BY <1>9, <3>1, <3>2
  <2>4. PlaceTypes'
    <3>1. event' \in {event, TRUE} /\ notifying' \in {notifying, FALSE} /\ UNCHANGED <<wpc, reason, needNotify>>
      BY <1>9 DEF Notify, Interrupt, loopVars, clientVars
    <3> QED
      BY <1>1, <3>1 DEF PlaceTypes
  <2> QED
    BY <1>9, <2>1, <2>2, <2>3, <2>4, TypedAfterOthers DEF Notify, Interrupt, loopVars, clientVars
<1>10. CASE UNCHANGED vars
  BY <1>10 DEF vars, loopVars, clientVars, TypeInv, ClockTypes, ConfigTypes, FileTypes, QueueTypes, PlaceTypes,
               StartsEmpty, EventMeansUpdate, FileIsOpen
<1> QED
  BY <1>2, <1>3, <1>4, <1>5, <1>6, <1>7, <1>8, <1>9, <1>10 DEF Next, LoopNext

\* The types of the writer's variables, and that there is a file where its size
\* is asked (writerMain.cpp:288).
THEOREM WriterTypesAlways == Spec => []WriterTypeOK
<1>1. TypeInv => WriterTypeOK
  <2> SUFFICES ASSUME TypeInv PROVE WriterTypeOK
    OBVIOUS
  <2>1. ClockTypes /\ ConfigTypes /\ FileTypes /\ QueueTypes /\ PlaceTypes /\ FileIsOpen /\ MaxTime \in Nat
    BY WriterAssumption DEF TypeInv
  <2>2. {now, start, elapsed} \subseteq 0 .. MaxTime
    BY <2>1 DEF ClockTypes
  <2> QED
    BY <2>1, <2>2
       DEF WriterTypeOK, ClockTypes, ConfigTypes, FileTypes, QueueTypes, PlaceTypes, FileIsOpen
<1> QED
  BY <1>1, Initially, InvariantIsInductive, InitiallyTyped, TypesAreInductive, PTL DEF Spec

-----------------------------------------------------------------------------
(***************************************************************************)
(* What is in one file.                                                    *)
(***************************************************************************)

\* A file that is open is there, with the type that its first update gave it
\* unless that has suspended the program.
TypeIsOfFile ==
    /\ type_ # None => file # None /\ updates[type_] \in DOMAIN Tables
    /\ file # None => file \in files /\ (type_ # None \/ wpc = "suspended")

\* What is stored in the open file has the columns of its type.
OpenIsUniform ==
    type_ # None =>
      \A i \in 1 .. Len(stored) : stored[i].file = file => UpdateColumns(stored[i].update) = Columns

ClosedAreUniform ==
    \A i, j \in 1 .. Len(stored) :
      stored[i].file = stored[j].file => UpdateColumns(stored[i].update) = UpdateColumns(stored[j].update)

UniformInv == TypeIsOfFile /\ OpenIsUniform /\ ClosedAreUniform

\* What is_valid() accepts has the columns it was compared with.
LEMMA ValidIsSame ==
  ASSUME NEW first \in Table, NEW value \in Table, IsValid(FromValue(first), value)
  PROVE  FromValue(value) = FromValue(first)
<1> DEFINE cols == FromValue(first)
           n == Len(first.columns)
<1>1. n \in Nat /\ Len(value.columns) \in Nat
  BY DEF Table
<1>2. Len(cols) = n
  BY <1>1 DEF FromValue
<1>3. ASSUME NEW i \in 1 .. n
      PROVE  cols[i] = [type |-> cols[i].type, name |-> cols[i].name, label |-> cols[i].label]
  BY DEF FromValue
<1>4. cols = [i \in 1 .. n |-> cols[i]]
  BY DEF FromValue
<1> HIDE DEF cols
<1>5. /\ Len(value.columns) = n
      /\ \A i \in 1 .. n :
           value.labels[i] = cols[i].label /\ value.columns[i].name = cols[i].name
             /\ value.columns[i].type = cols[i].type
  BY <1>2 DEF IsValid, cols
<1>6. FromValue(value) = [i \in 1 .. n |-> cols[i]]
  BY <1>3, <1>5 DEF FromValue
<1> QED
  BY <1>4, <1>6 DEF cols

\* A step that stores nothing leaves the open file as it is, or closes it.
LEMMA UniformAfterOthers ==
  ASSUME UniformInv, UNCHANGED <<updates, stored, files>>,
         UNCHANGED <<file, type_>> \/ (file' = None /\ type_' = None),
         wpc = "suspended" => wpc' = "suspended"
  PROVE  UniformInv'
<1>1. TypeIsOfFile'
  BY DEF UniformInv, TypeIsOfFile
<1>2. OpenIsUniform' /\ ClosedAreUniform'
  BY DEF UniformInv, OpenIsUniform, ClosedAreUniform, UpdateColumns, Columns
<1> QED
  BY <1>1, <1>2 DEF UniformInv

LEMMA UniformAfterPop ==
  ASSUME TypeInv, UniformInv, PopUpdate
  PROVE  UniformInv'
<1> DEFINE n == Head(queue)
<1>1. wpc = "drain" /\ queue # <<>> /\ UNCHANGED <<now, updates>>
  BY DEF PopUpdate, clientVars
<1>2. n \in DOMAIN updates
  BY <1>1 DEF TypeInv, QueueTypes
<1>3. Target # None /\ Target \in Int /\ n # None
  <2>1. now \in Nat
    BY WriterAssumption DEF TypeInv, ClockTypes
  <2>2. updates \in Seq(DOMAIN Tables \cup {Disconnect})
    BY UpdatesAreASequence DEF TypeInv, ConfigTypes
  <2>3. n \in Nat /\ n >= 1
    BY <1>2, <2>2
  <2> QED
    BY <2>1, <2>3 DEF Target, None, TypeInv, FileTypes
<1>4. /\ stored \in Seq([update : DOMAIN updates, file : files])
      /\ \A i \in 1 .. Len(stored) : stored[i].file \in files
  <2>1. stored \in Seq([update : DOMAIN updates, file : files])
    BY DEF TypeInv, FileTypes
  <2>2. ASSUME NEW i \in 1 .. Len(stored) PROVE stored[i] \in [update : DOMAIN updates, file : files]
    BY <2>1, ElementOfSeq, Zenon
  <2> QED
    BY <2>1, <2>2
<1>5. CASE updates[n] = Disconnect
  BY <1>1, <1>5, UniformAfterOthers DEF PopUpdate, Stop
<1> HIDE DEF n
<1>6. CASE /\ updates[n] # Disconnect /\ stored' = stored /\ files' = files \cup {Target}
           /\ \/ file' = None /\ type_' = None
              \/ wpc' = "suspended" /\ file' = Target /\ type_ = None /\ type_' = None
  <2>1. TypeIsOfFile'
    BY <1>3, <1>6 DEF TypeIsOfFile
  <2>2. OpenIsUniform' /\ ClosedAreUniform'
    BY <1>1, <1>6 DEF UniformInv, OpenIsUniform, ClosedAreUniform, UpdateColumns
  <2> QED
    BY <2>1, <2>2 DEF UniformInv
<1>7. CASE /\ updates[n] # Disconnect /\ ~NameIsTaken /\ ~CannotBeWritten(n)
           /\ file' = Target /\ type_' = IF type_ = None THEN n ELSE type_
           /\ files' = files \cup {Target} /\ stored' = stored \o Written(n)
  <2>1. updates[n] \in DOMAIN Tables
    BY <1>2, <1>7, UpdatesAreASequence DEF TypeInv, ConfigTypes
  <2>2. TypeIsOfFile'
    BY <1>1, <1>3, <1>7, <2>1 DEF UniformInv, TypeIsOfFile
  <2>3. Columns' = IF type_ = None THEN UpdateColumns(n) ELSE Columns
    BY <1>1, <1>3, <1>7 DEF Columns, UpdateColumns
  \* Earlier entries of the file.
  <2>4. ASSUME NEW i \in 1 .. Len(stored), stored[i].file = Target
        PROVE  type_ # None /\ UpdateColumns(stored[i].update) = Columns
    <3>1. file # None
      BY <1>4, <1>7, <2>4 DEF NameIsTaken, Target
    <3>2. type_ # None
      BY <1>1, <3>1 DEF UniformInv, TypeIsOfFile
    <3> QED
      BY <2>4, <3>1, <3>2 DEF UniformInv, OpenIsUniform, Target
  \* The new one, which is not there for an update without rows.
  <2>5. NumRows(Tables[updates[n]]) > 0 => UpdateColumns(n) = Columns'
    <3>1. CASE type_ = None
      BY <2>3, <3>1
    <3>2. CASE type_ # None /\ NumRows(Tables[updates[n]]) > 0
      <4>1. IsValid(Columns, Tables[updates[n]])
        BY <1>7, <3>2 DEF CannotBeWritten, WriteFails
      <4>2. updates[type_] \in DOMAIN Tables
        BY <3>2 DEF UniformInv, TypeIsOfFile
      <4> QED
        BY <2>1, <2>3, <3>2, <4>1, <4>2, ValidIsSame, WriterAssumption DEF Columns, UpdateColumns
    <3> QED
      BY <3>1, <3>2
  <2>6. CASE stored' = stored
    <3>1. OpenIsUniform'
      BY <1>1, <1>7, <2>3, <2>4, <2>6 DEF OpenIsUniform, UpdateColumns
    <3>2. ClosedAreUniform'
      BY <1>1, <2>6 DEF UniformInv, ClosedAreUniform, UpdateColumns
    <3> QED
      BY <2>2, <3>1, <3>2 DEF UniformInv
  <2>7. CASE NumRows(Tables[updates[n]]) > 0 /\ stored' = stored \o <<[update |-> n, file |-> Target]>>
    <3> DEFINE last == Len(stored) + 1
    <3>1. /\ Len(stored') = last /\ stored'[last] = [update |-> n, file |-> Target]
          /\ \A i \in 1 .. Len(stored) : stored'[i] = stored[i]
          /\ Len(stored) \in Nat
      BY <1>4, <2>7
    <3>2. \A m : UpdateColumns(m)' = UpdateColumns(m)
      BY <1>1 DEF UpdateColumns
    <3>3. ASSUME NEW i \in 1 .. last, stored'[i].file = Target
          PROVE  UpdateColumns(stored'[i].update) = Columns'
      <4>1. CASE i = last
        BY <2>5, <2>7, <3>1, <4>1
      <4>2. CASE i # last
        <5>1. i \in 1 .. Len(stored) /\ stored'[i] = stored[i]
          BY <3>1, <4>2
        <5> QED
          BY <2>3, <2>4, <3>3, <5>1
      <4> QED
        BY <4>1, <4>2
    <3> HIDE DEF last
    <3>4. OpenIsUniform'
      BY <1>1, <1>7, <3>1, <3>3 DEF OpenIsUniform, UpdateColumns
    <3>5. ASSUME NEW i \in 1 .. last, NEW j \in 1 .. last, stored'[i].file = stored'[j].file
          PROVE  UpdateColumns(stored'[i].update) = UpdateColumns(stored'[j].update)
      <4>1. CASE stored'[i].file = Target
        BY <3>3, <3>5, <4>1
      <4>2. CASE stored'[i].file # Target
        <5>1. i \in 1 .. Len(stored) /\ j \in 1 .. Len(stored)
          BY <3>1, <3>5, <4>2 DEF last
        <5>2. stored'[i] = stored[i] /\ stored'[j] = stored[j]
          BY <3>1, <5>1
        <5> QED
          BY <3>5, <5>1, <5>2 DEF UniformInv, ClosedAreUniform
      <4> QED
        BY <4>1, <4>2
    <3>6. ClosedAreUniform'
      BY <1>1, <3>1, <3>5 DEF ClosedAreUniform, UpdateColumns
    <3> QED
      BY <2>2, <3>4, <3>6 DEF UniformInv
  <2> QED
    BY <1>4, <1>7, <2>6, <2>7 DEF Written
<1> QED
  BY <1>5, <1>6, <1>7 DEF PopUpdate, Stop, AssertionFails, n

LEMMA UniformIsInductive == TypeInv /\ UniformInv /\ [Next]_vars => UniformInv'
<1> SUFFICES ASSUME TypeInv, UniformInv, [Next]_vars PROVE UniformInv'
  OBVIOUS
<1>1. CASE ReadCommandLine
  <2>1. /\ wpc = "start" /\ UNCHANGED <<file, type_, files, stored>>
    BY <1>1 DEF ReadCommandLine
  <2>2. type_ = None /\ stored = <<>>
    BY <2>1 DEF TypeInv, StartsEmpty
  <2>3. file = None
    BY <2>1, <2>2 DEF UniformInv, TypeIsOfFile
  <2> QED
    BY <2>1, <2>2, <2>3 DEF UniformInv, TypeIsOfFile, OpenIsUniform, ClosedAreUniform
<1>2. CASE BeginWait \/ Wakes \/ WaitFails \/ DrainEnds \/ Stat
  BY <1>2, UniformAfterOthers
     DEF BeginWait, Wakes, WaitFails, DrainEnds, Stat, Stop, NextFile, clientVars
<1>3. CASE PopUpdate
  BY <1>3, UniformAfterPop
<1>4. CASE Tick \/ Arrive \/ Notify \/ Interrupt
  BY <1>4, UniformAfterOthers DEF Tick, Arrive, Notify, Interrupt, loopVars, clientVars
<1>5. CASE UNCHANGED vars
  BY <1>5, UniformAfterOthers DEF vars, loopVars, clientVars
<1> QED
  BY <1>1, <1>2, <1>3, <1>4, <1>5 DEF Next, LoopNext

\* The rows of a file have the columns of its first update, for any updates and
\* however often files are changed within a second: a later update that differs
\* is refused, and so is a name that is taken (writer.cpp:181, :229).
THEOREM FilesAreAlwaysUniform == Spec => []FilesAreUniform
<1>1. Init => UniformInv
  BY DEF Init, UniformInv, TypeIsOfFile, OpenIsUniform, ClosedAreUniform
<1>2. TypeInv /\ UniformInv => FilesAreUniform
  <2>1. TypeInv => DOMAIN stored = 1 .. Len(stored)
    BY DEF TypeInv, FileTypes
  <2> QED
    BY <2>1 DEF UniformInv, ClosedAreUniform, FilesAreUniform
<1> QED
  BY <1>1, <1>2, Initially, InvariantIsInductive, InitiallyTyped, TypesAreInductive, UniformIsInductive,
     PTL DEF Spec

-----------------------------------------------------------------------------
(***************************************************************************)
(* How files mirror tables.  The command line only decides the separators. *)
(***************************************************************************)

LEMMA ReceivedColumns ==
    ASSUME NEW value \in Table, IsTable(value)
    PROVE  FromValue(value) \in Seq(ColumnSpec)
<1> DEFINE n == Len(value.columns)
           cols == FromValue(value)
<1>1. /\ value.columns \in Seq([type : TypeCode, name : Name, length : Nat])
      /\ value.labels \in Seq(Name)
  BY DEF Table
<1>2. n \in Nat /\ Len(value.labels) = n /\ \A i \in 1 .. n : value.columns[i].type \in ArrayTypes
  BY <1>1 DEF IsTable, HasLabels
<1>3. ASSUME NEW i \in 1 .. n
      PROVE  value.columns[i].name \in Name /\ value.labels[i] \in Name
  <2>1. value.columns[i] \in [type : TypeCode, name : Name, length : Nat]
    BY <1>1, ElementOfSeq, Zenon
  <2>2. value.labels[i] \in Name
    <3>1. i \in 1 .. Len(value.labels)
      BY <1>2
    <3> QED
      BY <1>1, <3>1, ElementOfSeq, Zenon
  <2> QED
    BY <2>1, <2>2
<1>4. cols = [i \in 1 .. n |-> [type |-> value.columns[i].type, name |-> value.columns[i].name,
                                label |-> value.labels[i]]]
  BY DEF FromValue
<1> HIDE DEF n, cols
<1>5. cols \in [1 .. n -> ColumnSpec]
  BY <1>2, <1>3, <1>4 DEF ColumnSpec
<1> QED
  BY <1>2, <1>5, SeqDef DEF cols

\* Whatever tables arrive and whatever a merger makes of its inputs, a file can
\* be built for it and mirrors it, as long as its columns are named for that.
LEMMA TablesAreMirrored ==
    ASSUME NEW labelSep \in OneCharacter, NEW colSep \in OneCharacter
    PROVE  TablesMirrored(labelSep, colSep)
<1>1. ASSUME NEW u \in DOMAIN Tables, IsTable(Tables[u]), WellNamed(FromValue(Tables[u]), labelSep, colSep)
      PROVE  IsMirrored(FromValue(Tables[u]), labelSep, colSep)
  <2>1. FromValue(Tables[u]) \in Seq(ColumnSpec)
    BY <1>1, WriterAssumption, ReceivedColumns
  <2> QED
    BY <1>1, <2>1, WellNamedIsMirrored
<1>2. ASSUME NEW in \in Inputs, Mergeable(in, labelSep, colSep)
      PROVE  IsMirrored(MergedColumns(in, labelSep, colSep), labelSep, colSep)
  <2>1. in \in Seq(Input) /\ AreNumbered(in)
    BY WriterAssumption, NumbersAssumption
  <2> QED
    BY <1>2, <2>1, MergedAreMirrored
<1> QED
  BY <1>1, <1>2 DEF TablesMirrored

\* A file mirrors the table of its updates, for any tables, inputs of mergers and
\* separators of one character: parts() takes apart what prefixed_colspec() put
\* together, no two columns of any inputs get one path, and each signal has one
\* group (writer.cpp:85, taligntable.cpp:34).
THEOREM FilesMirrorTables == Spec => []FileMirrorsTable
<1>1. FileMirrorsTable
  <2>1. ASSUME NEW parser, {LabelSep(parser), ColSep(parser)} \subseteq OneCharacter
        PROVE  TablesMirrored(LabelSep(parser), ColSep(parser))
    BY <2>1, TablesAreMirrored
  <2>2. ASSUME NEW parser
        PROVE  MirrorsTables(parser)
    BY <2>1 DEF MirrorsTables
  <2> QED
    BY <2>2 DEF FileMirrorsTable
<1> QED
  BY <1>1, PTL
=============================================================================
