---------------------------- MODULE Manager_proofs ----------------------------
(***************************************************************************)
(* The managers that start, and the one whose watcher is followed: those   *)
(* without an excuse exclude each other, what Supervisor promises holds of *)
(* a manager that looks at its list, and a merger does not outlive the     *)
(* change of the list it has read.                                         *)
(***************************************************************************)
EXTENDS Manager, Supervisor_proofs

(***************************************************************************)
(* The lock file.                                                          *)
(***************************************************************************)

States == {"new", "found", "proceeds", "emptied", "working", "refused", "ended", "other process", "forgotten"}

LockType ==
    /\ lockFile \in Managers \cup {NoFile, NoNumber}
    /\ state \in [Managers -> States]
    /\ existing \in [Managers -> Managers \cup {NoNumber}]
    /\ excuses \in [Managers -> SUBSET Excuses]

\* A manager that works without an excuse has its number in the file, and who
\* starts meanwhile without an excuse has found it there.
OrderlyStarts ==
    \A w \in Working : excuses[w] = {} =>
      /\ lockFile = w
      /\ \A m \in Starting : excuses[m] = {} => state[m] = "found" /\ existing[m] = w

LockInv == LockType /\ OrderlyStarts

LEMMA LockInitially == LockInit => LockInv
  BY LockFileAssumption DEF LockInit, LockInv, LockType, OrderlyStarts, Starting, Working, States

LEMMA LockTypeKept == LockType /\ [LockNext]_lockVars => LockType'
<1> SUFFICES ASSUME LockType, [LockNext]_lockVars PROVE LockType'
  OBVIOUS
<1>1. CASE UNCHANGED lockVars
  BY <1>1 DEF LockType, lockVars
<1>2. ASSUME NEW m \in Managers, FindNumber(m) \/ FindNone(m) \/ CannotRead(m) PROVE LockType'
  BY <1>2 DEF FindNumber, FindNone, CannotRead, Move, LockType, States, Excused, Excuses
<1>3. ASSUME NEW m \in Managers, AnotherWorks(m) \/ NoneWorks(m) \/ NotPermitted(m) PROVE LockType'
  <2>1. excuses' \in [Managers -> SUBSET Excuses]
    BY <1>3 DEF AnotherWorks, NoneWorks, NotPermitted, Excused, Excuses, LockType
  <2> QED
    BY <1>3, <2>1 DEF AnotherWorks, NoneWorks, NotPermitted, Move, LockType, States
<1>4. ASSUME NEW m \in Managers, EmptyFile(m) \/ WriteNumber(m) PROVE LockType'
  <2>1. excuses' \in [Managers -> SUBSET Excuses]
    <3>1. PICK late \in SUBSET Managers : Displaces(m, late)
      BY <1>4 DEF EmptyFile, WriteNumber, Starting
    <3> QED
      BY <3>1 DEF Displaces, LockType, Excuses
  <2> QED
    BY <1>4, <2>1 DEF EmptyFile, WriteNumber, Move, LockType, States
<1>5. ASSUME NEW m \in Managers, CannotWrite(m) PROVE LockType'
  BY <1>5 DEF CannotWrite, Move, LockType, States, Excused, Excuses
<1>6. ASSUME NEW m \in Managers, Ends(m) PROVE LockType'
  BY <1>6 DEF Ends, Move, LockType, States
<1>7. ASSUME NEW m \in Managers, NumberReused(m) PROVE LockType'
  <2>1. excuses' \in [Managers -> SUBSET Excuses]
    BY <1>7 DEF NumberReused, LockType
  <2> QED
    BY <1>7, <2>1 DEF NumberReused, Move, LockType, States
<1> QED
  BY <1>1, <1>2, <1>3, <1>4, <1>5, <1>6, <1>7 DEF LockNext

LEMMA OrderlyStartsKept == LockInv /\ [LockNext]_lockVars => OrderlyStarts'
<1> SUFFICES ASSUME LockInv, [LockNext]_lockVars PROVE OrderlyStarts'
  OBVIOUS
<1> USE DEF LockInv, LockType, OrderlyStarts, Starting, Working
<1>1. CASE UNCHANGED lockVars
  BY <1>1 DEF lockVars
<1>2. ASSUME NEW m \in Managers, FindNumber(m) PROVE OrderlyStarts'
  BY <1>2 DEF FindNumber, Move
<1>3. ASSUME NEW m \in Managers, FindNone(m) PROVE OrderlyStarts'
  BY <1>3 DEF FindNone, Move
<1>4. ASSUME NEW m \in Managers, CannotRead(m) \/ NotPermitted(m) PROVE OrderlyStarts'
  <2>1. state' = [state EXCEPT ![m] = "proceeds"] /\ state[m] \in {"new", "found"} /\ UNCHANGED <<lockFile, existing>>
    BY <1>4 DEF CannotRead, NotPermitted, Move
  <2>2. \E why \in Excuses : Excused(m, why)
    BY <1>4 DEF CannotRead, NotPermitted, Excuses
  <2>3. excuses'[m] # {} /\ \A n \in Managers \ {m} : excuses'[n] = excuses[n]
    BY <2>2 DEF Excused
  <2>4. Working' = Working /\ m \notin Working
    BY <2>1
  <2>5. \A n \in Starting' \ {m} : n \in Starting /\ state'[n] = state[n]
    BY <2>1
  <2> QED
    BY <2>1, <2>3, <2>4, <2>5
<1>5. ASSUME NEW m \in Managers, AnotherWorks(m) PROVE OrderlyStarts'
  BY <1>5 DEF AnotherWorks, Move
<1>6. ASSUME NEW m \in Managers, NoneWorks(m) PROVE OrderlyStarts'
  <2>1. state' = [state EXCEPT ![m] = "proceeds"] /\ state[m] = "found" /\ UNCHANGED <<lockFile, existing, excuses>>
    BY <1>6 DEF NoneWorks, Move
  <2>2. \A w \in Working : excuses[w] = {} => excuses[m] # {}
    BY <1>6, <2>1 DEF NoneWorks, Alive
  <2>3. Working' = Working
    BY <2>1
  <2>4. \A n \in Starting' \ {m} : n \in Starting /\ state'[n] = state[n]
    BY <2>1
  <2> QED
    BY <2>1, <2>2, <2>3, <2>4
<1>7. ASSUME NEW m \in Managers, EmptyFile(m) PROVE OrderlyStarts'
  <2>1. \A w \in Working : excuses'[w] # {}
    BY <1>7 DEF EmptyFile, Move, Displaces
  <2>2. Working' = Working
    BY <1>7 DEF EmptyFile, Move
  <2> QED
    BY <2>1, <2>2
<1>8. ASSUME NEW m \in Managers, WriteNumber(m) PROVE OrderlyStarts'
  <2>1. state' = [state EXCEPT ![m] = "working"] /\ lockFile' = m /\ Displaces(m, Starting \ {m})
    BY <1>8 DEF WriteNumber, Move
  <2>2. \A w \in Working : excuses'[w] # {}
    BY <1>8, <2>1 DEF WriteNumber, Move, Displaces
  <2>3. Working' = Working \cup {m} /\ Starting' \subseteq Starting \ {m}
    BY <2>1
  <2>4. \A n \in Starting' : excuses'[n] # {}
    BY <2>1, <2>3 DEF Displaces
  <2> QED
    BY <2>1, <2>2, <2>3, <2>4
<1>9. ASSUME NEW m \in Managers, CannotWrite(m) PROVE OrderlyStarts'
  BY <1>9 DEF CannotWrite, Move, Excused
<1>10. ASSUME NEW m \in Managers, Ends(m) PROVE OrderlyStarts'
  <2>1. state' = [state EXCEPT ![m] = "ended"] /\ UNCHANGED <<lockFile, existing, excuses>>
    BY <1>10 DEF Ends, Move
  <2>2. Starting' \subseteq Starting /\ Working' \subseteq Working
    BY <2>1
  <2>3. \A n \in Starting' : state'[n] = state[n]
    BY <2>1
  <2> QED
    BY <2>1, <2>2, <2>3
<1>11. ASSUME NEW m \in Managers, NumberReused(m) PROVE OrderlyStarts'
  <2>1. UNCHANGED lockFile /\ \A n \in Managers \ {m} : state'[n] = state[n] /\ existing'[n] = existing[n] /\ excuses'[n] = excuses[n]
    BY <1>11 DEF NumberReused, Move
  <2>2. m \notin Starting' /\ m \notin Working'
    BY <1>11 DEF NumberReused, Move
  <2>3. \A n \in Managers \ {m} : (n \in Starting' <=> n \in Starting) /\ (n \in Working' <=> n \in Working)
    BY <2>1
  <2> QED
    BY <2>1, <2>2, <2>3
<1> QED
  BY <1>1, <1>2, <1>3, <1>4, <1>5, <1>6, <1>7, <1>8, <1>9, <1>10, <1>11 DEF LockNext

LEMMA LockKept == LockInv /\ [ManagerNext]_allVars => LockInv'
<1> SUFFICES ASSUME LockInv, [ManagerNext]_allVars PROVE LockInv'
  OBVIOUS
<1>1. CASE Starts \/ UNCHANGED lockVars
  BY <1>1, LockTypeKept, OrderlyStartsKept DEF Starts, LockInv
<1>2. CASE BeginsToWatch
  <2>1. LockType'
    BY <1>2 DEF BeginsToWatch, LockInv, LockType, States
  <2>2. Starting' = {} /\ Working' = {}
    BY <1>2 DEF BeginsToWatch, Starting, Working
  <2> QED
    BY <2>1, <2>2 DEF LockInv, OrderlyStarts
<1> QED
  BY <1>1, <1>2 DEF ManagerNext, Watches, allVars

\* Of two managers that work at a time one has an excuse: it, or one that took
\* the file from it, looked at the file before another one had written to it,
\* could not read or write it, or found the process of another user.  Nothing
\* else lets two managers work at a time, for any number of them and of users,
\* whatever has ended before and whoever has its number
\* (bsasManager.py:194-272).
THEOREM OneManagerWorksAlways == ManagerSpec => []OneManagerWorks
<1>1. ManagerInit => LockInv
  BY LockInitially DEF ManagerInit
<1>2. LockInv => OneManagerWorks
  BY DEF LockInv, OrderlyStarts, OneManagerWorks, Working
<1> QED
  BY <1>1, <1>2, LockKept, PTL DEF ManagerSpec

-----------------------------------------------------------------------------
(***************************************************************************)
(* The threads, children and mutexes of a manager that watches.            *)
(***************************************************************************)

\* But for the AttributeError that ends main, a step of the watcher is one of
\* Supervisor, or none.
LEMMA WatcherStepsSupervise == WatcherNext => [Next]_vars \/ LastTimeIsUnset
<1>1. FileNext \/ FindFile \/ FirstModTime \/ MergerReads => UNCHANGED vars
  BY DEF FileNext, Tick, Save, Remove, ChangeMode, FindFile, FirstModTime, MergerReads
<1>2. \/ WatchLooks \/ FileIsMissing \/ SameModTime \/ WithinSession \/ AfterPause
      \/ CheckFails \/ SamePVs \/ ChangedPVs
      => Look \/ ReadList \/ NoChange \/ Changed
  BY DEF WatchLooks, FileIsMissing, SameModTime, WithinSession, AfterPause, CheckFails, SamePVs, ChangedPVs
<1>3. ChildStarts => \E p \in Programs : PopenStarts(p)
  BY DEF ChildStarts
<1>4. SignalMisses => TestHandle
  BY DEF SignalMisses
<1>5. OtherSteps => Next
  BY DEF OtherSteps, Others, Next, MainNext, ThreadNext
<1> QED
  BY <1>1, <1>2, <1>3, <1>4, <1>5 DEF WatcherNext, LookSteps, Next, MainNext, ThreadNext

LEMMA CrashKeepsInv == SupervisorInv /\ LastTimeIsUnset => SupervisorInv'
<1> SUFFICES ASSUME SupervisorInv, LastTimeIsUnset PROVE SupervisorInv'
  OBVIOUS
<1>1. /\ At("main", "getmtime") /\ calls' = <<>>
      /\ UNCHANGED <<unreadable, exited, asked, signals, locked, tpc, popened, handle, alive>>
  BY DEF LastTimeIsUnset, threadVars
<1>2. ThreadTypes' /\ MainTypes' /\ CallTypes'
  <2>1. ThreadTypes /\ MainTypes
    BY TypeParts DEF SupervisorInv
  <2>2. ThreadTypes' /\ MainTypes'
    BY <1>1, <2>1 DEF ThreadTypes, MainTypes
  <2>3. CallTypes'
    BY <1>1 DEF CallTypes
  <2> QED
    BY <2>2, <2>3
<1>3. \A p \in Programs : ~locked[p]
  <2>1. Len(calls) = 1 /\ Top.pc = "getmtime" /\ calls \in Seq(FrameType)
    BY <1>1, TopOK DEF At, SupervisorInv, SupervisorTypeOK
  <2>2. \A i \in DOMAIN calls : calls[i].pc \notin Holding
    <3>1. DOMAIN calls = {1}
      BY <2>1
    <3> QED
      BY <2>1, <3>1 DEF Top, Holding
  <2> QED
    BY <2>2 DEF SupervisorInv, LockedByFrame, Holds
<1>4. StackOK' /\ MutexOrder' /\ LockedByFrame' /\ MainOK' /\ HandleIsSafe'
  BY <1>1, <1>3 DEF StackOK, MutexOrder, LockedByFrame, MainOK, HandleIsSafe
<1>5. ChildIsKnown' /\ AssignsChild' /\ ExitedMeansEnded'
  BY <1>1 DEF SupervisorInv, ChildIsKnown, AssignsChild, ExitedMeansEnded, Ended, At
<1> QED
  BY <1>2, <1>4, <1>5, TypePartsPrimed DEF SupervisorInv

LEMMA ManagerKeepsInv == SupervisorInv /\ [ManagerNext]_allVars => SupervisorInv'
<1>1. Starts \/ BeginsToWatch \/ UNCHANGED allVars => UNCHANGED vars
  BY DEF Starts, BeginsToWatch, FindFile, allVars, managerVars
<1>2. Watches(WatcherNext) => [Next]_vars \/ LastTimeIsUnset
  BY WatcherStepsSupervise DEF Watches
<1> QED
  BY <1>1, <1>2, InvariantIsInductive, CrashKeepsInv DEF ManagerNext

LEMMA ManagerSupervises == ManagerSpec => []SupervisorInv
<1>1. ManagerInit => SupervisorInv
  BY Initially DEF ManagerInit, WatcherInit
<1> QED
  BY <1>1, ManagerKeepsInv, PTL DEF ManagerSpec

\* What Supervisor promises with its looks at the list left open holds of a
\* manager that looks at a file, and that may end by an AttributeError while
\* its threads go on (bsasManager.py:433-468, 564-630, 753-866).
THEOREM WatchingManagerSupervises ==
  ManagerSpec => [](HandleIsSafe /\ NoMutexIsLeft /\ OneChildAtATime /\ ExitLeavesNoChild)
  BY ManagerSupervises, InvariantSuffices, PTL

-----------------------------------------------------------------------------
(***************************************************************************)
(* Types, and the times.                                                   *)
(***************************************************************************)

FileTypes ==
    /\ now \in StartTime .. EndOfTime
    /\ inputFile \in [exists : BOOLEAN, readable : BOOLEAN, pvs : Lists, mtime : 1 .. now]

WatchTypes ==
    /\ watching \in {"exists", "getmtime", "started", "crashed"}
    /\ {lastModTime, newModTime, lastUpdateTime, unread} \subseteq 0 .. now
    /\ editSessionFinished \in BOOLEAN
    /\ previousPVSet \in Lists \cup {{}}

ChildTypes == hasRead \subseteq Pids /\ outdated \subseteq Pids /\ missed \subseteq Pids

LEMMA WatcherTypeParts == (WatcherTypeOK <=> FileTypes /\ WatchTypes /\ ChildTypes)
  BY DEF WatcherTypeOK, FileTypes, WatchTypes, ChildTypes

LEMMA WatcherTypePartsPrimed == (FileTypes /\ WatchTypes /\ ChildTypes)' => WatcherTypeOK'
  BY DEF WatcherTypeOK, FileTypes, WatchTypes, ChildTypes

LEMMA WatcherTypesInitially == WatcherInit => WatcherTypeOK
<1> SUFFICES ASSUME WatcherInit PROVE WatcherTypeOK
  OBVIOUS
<1>1. FileTypes
  <2>1. StartTime \in StartTime .. EndOfTime /\ 1 \in 1 .. StartTime /\ StartTime \in 1 .. StartTime
    BY WatcherAssumption DEF EndOfTime
  <2> QED
    BY <2>1 DEF WatcherInit, FileTypes
<1>2. WatchTypes
  BY WatcherAssumption DEF WatcherInit, WatchTypes, NoTime
<1>3. ChildTypes
  BY DEF WatcherInit, ChildTypes
<1> QED
  BY <1>1, <1>2, <1>3, WatcherTypeParts

\* Time passes, and the file is edited.
LEMMA WatcherTypesKeptByFile == WatcherTypeOK /\ FileNext => WatcherTypeOK'
<1> SUFFICES ASSUME WatcherTypeOK, FileNext PROVE WatcherTypeOK'
  OBVIOUS
<1>1. FileTypes /\ WatchTypes /\ ChildTypes
  BY WatcherTypeParts
<1>2. UNCHANGED <<watchVars, childVars>>
  BY DEF FileNext, Tick, Save, Remove, ChangeMode
<1>3. {now, StartTime, EndOfTime} \subseteq Nat /\ StartTime > 0
  BY <1>1, WatcherAssumption DEF FileTypes, EndOfTime
<1>4. CASE Tick
  <2>1. now' = now + 1 /\ now < EndOfTime /\ inputFile' = inputFile
    BY <1>4 DEF Tick
  <2>2. FileTypes'
    BY <1>1, <1>3, <2>1 DEF FileTypes
  <2>3. WatchTypes'
    BY <1>1, <1>2, <1>3, <2>1 DEF WatchTypes, watchVars
  <2> QED
    BY <1>1, <1>2, <2>2, <2>3, WatcherTypePartsPrimed DEF ChildTypes, childVars
<1>5. CASE (\E pvs \in Lists : Save(pvs)) \/ Remove \/ ChangeMode
  <2>1. now' = now
    BY <1>5 DEF Save, Remove, ChangeMode
  <2>2. FileTypes'
    <3>1. now \in 1 .. now
      BY <1>1, <1>3 DEF FileTypes
    <3>2. inputFile' \in [exists : BOOLEAN, readable : BOOLEAN, pvs : Lists, mtime : 1 .. now]
      <4>1. CASE \E pvs \in Lists : Save(pvs)
        BY <1>1, <3>1, <4>1 DEF FileTypes, Save
      <4>2. CASE Remove
        BY <1>1, <4>2 DEF FileTypes, Remove
      <4>3. CASE ChangeMode
        BY <1>1, <4>3 DEF FileTypes, ChangeMode
      <4> QED
        BY <1>5, <4>1, <4>2, <4>3
    <3> QED
      BY <1>1, <2>1, <3>2 DEF FileTypes
  <2>3. WatchTypes'
    BY <1>1, <1>2, <2>1 DEF WatchTypes, watchVars
  <2> QED
    BY <1>1, <1>2, <2>2, <2>3, WatcherTypePartsPrimed DEF ChildTypes, childVars
<1> QED
  BY <1>4, <1>5 DEF FileNext

\* The watcher looks at the file: every time it keeps is one it was told, or
\* the present.
LEMMA WatcherTypesKeptByLooks == SupervisorInv /\ WatcherTypeOK /\ LookSteps => WatcherTypeOK'
<1> SUFFICES ASSUME SupervisorInv, WatcherTypeOK, LookSteps PROVE WatcherTypeOK'
  OBVIOUS
<1>1. FileTypes /\ WatchTypes /\ ChildTypes
  BY WatcherTypeParts
<1>2. now \in Nat /\ inputFile.mtime \in 0 .. now /\ inputFile.pvs \in Lists /\ UNCHANGED fileVars
  <2>1. now \in Nat
    BY <1>1, WatcherAssumption DEF FileTypes, EndOfTime
  <2>2. UNCHANGED fileVars
    BY DEF LookSteps, FindFile, FirstModTime, WatchLooks, FileIsMissing, LastTimeIsUnset, SameModTime,
           WithinSession, AfterPause, ModTimeIsTold, CheckFails, SamePVs, ChangedPVs, CheckEnds
  <2> QED
    BY <1>1, <2>1, <2>2 DEF FileTypes
<1>3. FileTypes'
  BY <1>1, <1>2 DEF FileTypes, fileVars
<1>4. WatchTypes'
  <2>1. CASE FindFile \/ FirstModTime
    BY <1>1, <1>2, <2>1 DEF FindFile, FirstModTime, WatchTypes, NoTime, fileVars
  <2>2. CASE WatchLooks \/ FileIsMissing
    BY <1>1, <1>2, <2>2 DEF WatchLooks, FileIsMissing, WatchTypes, watchVars, fileVars
  <2>3. CASE LastTimeIsUnset
    BY <1>1, <1>2, <2>3 DEF LastTimeIsUnset, WatchTypes, fileVars
  <2>4. CASE SameModTime \/ WithinSession \/ AfterPause
    BY <1>1, <1>2, <2>4 DEF SameModTime, WithinSession, AfterPause, ModTimeIsTold, WatchTypes, fileVars
  <2>5. CASE CheckFails \/ SamePVs \/ ChangedPVs
    BY <1>1, <1>2, <2>5 DEF CheckFails, SamePVs, ChangedPVs, CheckEnds, WatchTypes, fileVars
  <2> QED
    BY <2>1, <2>2, <2>3, <2>4, <2>5 DEF LookSteps
<1>5. ChildTypes'
  <2>1. UNCHANGED <<hasRead, missed>> /\ (outdated' = outdated \/ outdated' = hasRead \cap alive["merger"])
    BY DEF LookSteps, FindFile, FirstModTime, WatchLooks, FileIsMissing, LastTimeIsUnset, SameModTime,
           WithinSession, AfterPause, ModTimeIsTold, CheckFails, SamePVs, ChangedPVs, CheckEnds, childVars
  <2> QED
    BY <1>1, <2>1 DEF ChildTypes
<1> QED
  BY <1>3, <1>4, <1>5, WatcherTypePartsPrimed

\* Children begin, read the list, and are meant by signals.
LEMMA WatcherTypesKeptByChildren ==
  ASSUME SupervisorInv, WatcherTypeOK, ChildStarts \/ MergerReads \/ SignalMisses \/ OtherSteps
  PROVE  WatcherTypeOK'
<1>1. FileTypes /\ WatchTypes /\ ChildTypes /\ ThreadTypes
  BY WatcherTypeParts, TypeParts DEF SupervisorInv
<1>2. UNCHANGED <<fileVars, watchVars>>
  BY DEF ChildStarts, MergerReads, SignalMisses, OtherSteps
<1>3. FileTypes' /\ WatchTypes'
  BY <1>1, <1>2 DEF FileTypes, WatchTypes, fileVars, watchVars
<1>4. ChildTypes'
  <2>1. CASE ChildStarts \/ OtherSteps
    BY <1>1, <2>1 DEF ChildStarts, OtherSteps, childVars, ChildTypes
  <2>2. CASE MergerReads
    BY <1>1, <2>2, WatcherAssumption DEF MergerReads, ChildTypes, ThreadTypes
  <2>3. CASE SignalMisses
    BY <1>1, <2>3, WatcherAssumption DEF SignalMisses, ChildTypes, ThreadTypes
  <2> QED
    BY <2>1, <2>2, <2>3
<1> QED
  BY <1>3, <1>4, WatcherTypePartsPrimed

LEMMA WatcherTypesKept == SupervisorInv /\ WatcherTypeOK /\ [ManagerNext]_allVars => WatcherTypeOK'
<1> SUFFICES ASSUME SupervisorInv, WatcherTypeOK, [ManagerNext]_allVars PROVE WatcherTypeOK'
  OBVIOUS
<1>1. CASE Starts \/ UNCHANGED allVars
  <2>1. UNCHANGED <<fileVars, watchVars, childVars>>
    BY <1>1 DEF Starts, allVars, managerVars
  <2> QED
    BY <2>1 DEF WatcherTypeOK, fileVars, watchVars, childVars
<1>2. CASE BeginsToWatch
  BY <1>2, WatcherTypesKeptByLooks DEF BeginsToWatch, LookSteps
<1>3. CASE Watches(WatcherNext)
  BY <1>3, WatcherTypesKeptByFile, WatcherTypesKeptByLooks, WatcherTypesKeptByChildren DEF Watches, WatcherNext
<1> QED
  BY <1>1, <1>2, <1>3 DEF ManagerNext

\* The types of the watcher, and that it keeps no time that is still to come,
\* whatever happens to the file at whatever time (bsasManager.py:433-468,
\* 564-729).
THEOREM WatcherTypesAlways == ManagerSpec => []WatcherTypeOK
<1>1. ManagerInit => WatcherTypeOK
  BY WatcherTypesInitially DEF ManagerInit
<1> QED
  BY <1>1, WatcherTypesKept, ManagerSupervises, PTL DEF ManagerSpec

-----------------------------------------------------------------------------
(***************************************************************************)
(* The mergers that have read a list that changed.                         *)
(***************************************************************************)

\* Where the output of every child can be read, the thread of the merger knows
\* its child, and has a handle only while it reads the output and until it
\* has cleared it.
ChildOfMerger ==
    /\ alive["merger"] \subseteq CASE tpc["merger"] = "assign" -> {popened["merger"]}
                                   [] tpc["merger"] = "read"   -> {handle["merger"]}
                                   [] OTHER                    -> {}
    /\ handle["merger"] # None => tpc["merger"] \in {"read", "clear"}

SignalsMerger == calls # <<>> /\ Top.program = "merger" /\ Top.pc \in Holding \cup {"signal"}

OutdatedAreMissed == ~SignalsMerger => outdated \cap alive["merger"] \subseteq missed

LEMMA ChildOfMergerInitially == WatcherInit => ChildOfMerger
  BY WatcherAssumption DEF WatcherInit, Init, ChildOfMerger, None

LEMMA ChildOfMergerKept == SupervisorInv /\ ChildOfMerger /\ [ManagerNext]_allVars => ChildOfMerger'
<1> SUFFICES ASSUME SupervisorInv, ChildOfMerger, [ManagerNext]_allVars PROVE ChildOfMerger'
  OBVIOUS
<1>0. ThreadTypes /\ "merger" \in Programs
  BY TypeParts, WatcherAssumption DEF SupervisorInv
<1>1. CASE UNCHANGED <<threadVars, alive>>
  BY <1>1 DEF ChildOfMerger, threadVars
<1>2. Starts \/ BeginsToWatch \/ UNCHANGED allVars => UNCHANGED <<threadVars, alive>>
  BY DEF Starts, BeginsToWatch, FindFile, allVars, managerVars, vars
<1>3. FileNext \/ LookSteps \/ MergerReads \/ SignalMisses => UNCHANGED <<threadVars, alive>>
  BY DEF FileNext, Tick, Save, Remove, ChangeMode, MergerReads, SignalMisses, TestHandle, vars,
         LookSteps, FindFile, FirstModTime, WatchLooks, Look, FileIsMissing, LastTimeIsUnset, SameModTime, WithinSession,
         AfterPause, CheckFails, SamePVs, ChangedPVs, ReadList, NoChange, Changed
<1>4. ASSUME NEW p \in Programs, PopenStarts(p) PROVE ChildOfMerger'
  <2>1. PICK c \in Pids : alive' = [alive EXCEPT ![p] = @ \cup {c}] /\ popened' = [popened EXCEPT ![p] = c]
    BY <1>4 DEF PopenStarts
  <2>2. tpc[p] = "popen" /\ tpc' = [tpc EXCEPT ![p] = "assign"] /\ handle' = handle
    BY <1>4 DEF PopenStarts
  <2> QED
    BY <1>0, <2>1, <2>2 DEF ThreadTypes, ChildOfMerger
<1>5. ASSUME NEW p \in Programs, AssignHandle(p) PROVE ChildOfMerger'
  BY <1>0, <1>5 DEF AssignHandle, ThreadTypes, ChildOfMerger
<1>6. ASSUME NEW p \in Programs, ClearHandle(p) PROVE ChildOfMerger'
  BY <1>0, <1>6 DEF ClearHandle, ThreadTypes, ChildOfMerger, None
<1>7. ASSUME NEW p \in Programs, LoopTest(p) \/ PopenFails(p) \/ Retry(p) PROVE ChildOfMerger'
  BY <1>0, <1>7 DEF LoopTest, PopenFails, Retry, ThreadTypes, ChildOfMerger
<1>8. ASSUME NEW p \in Programs, ChildWaitedFor(p) PROVE ChildOfMerger'
  BY <1>0, <1>8 DEF ChildWaitedFor, ThreadTypes, ChildOfMerger
<1>9. ASSUME NEW p \in Programs, ChildEnds(p) PROVE ChildOfMerger'
  BY <1>0, <1>9 DEF ChildEnds, threadVars, ThreadTypes, ChildOfMerger
<1>10. CASE SendSignal
  <2>1. alive' = [alive EXCEPT ![Top.program] = @ \ {handle[Top.program]}] /\ UNCHANGED threadVars
    BY <1>10 DEF SendSignal
  <2> QED
    BY <1>0, <2>1 DEF threadVars, ThreadTypes, ChildOfMerger
<1>11. CASE CreateThread \/ StartThread
  <2>1. calls # <<>> /\ Top.fn = "main" /\ Top.program \in Programs /\ tpc[Top.program] \in {None, "created"}
    BY <1>11, TopOK DEF CreateThread, StartThread, At, BottomOK
  <2>2. \E s \in {"created", "test", None} : tpc' = [tpc EXCEPT ![Top.program] = s]
    BY <1>11 DEF CreateThread, StartThread
  <2>3. UNCHANGED <<popened, handle, alive>>
    BY <1>11 DEF CreateThread, StartThread
  <2> QED
    BY <1>0, <2>1, <2>2, <2>3 DEF ThreadTypes, ChildOfMerger, None
<1>12. CASE AcquireMutex \/ ProcessExits
  BY <1>1, <1>12 DEF AcquireMutex, ProcessExits
<1> QED
  BY <1>1, <1>2, <1>3, <1>4, <1>5, <1>6, <1>7, <1>8, <1>9, <1>10, <1>11, <1>12
     DEF ManagerNext, Watches, WatcherNext, ChildStarts, OtherSteps, Others

\* While main does not signal the merger: nothing becomes outdated, and no
\* outdated child comes to live.
LEMMA StaysMissed ==
  ASSUME OutdatedAreMissed, ~SignalsMerger,
         outdated' \cap alive'["merger"] \subseteq outdated \cap alive["merger"], missed \subseteq missed'
  PROVE  OutdatedAreMissed'
  BY DEF OutdatedAreMissed

LEMMA MissedKeptByLooks == ASSUME SupervisorInv, ChildOfMerger, OutdatedAreMissed, LookSteps PROVE OutdatedAreMissed'
<1>1. UNCHANGED <<missed, alive, tpc>>
  BY DEF LookSteps, FindFile, FirstModTime, WatchLooks, Look, FileIsMissing, LastTimeIsUnset, SameModTime,
         WithinSession, AfterPause, ModTimeIsTold, CheckFails, SamePVs, ChangedPVs, CheckEnds, ReadList, NoChange, Changed,
         childVars, vars, threadVars
<1>2. CASE ChangedPVs
  <2>1. outdated' \subseteq alive["merger"] /\ Moved(Frame("main", IF tpc["merger"] = None THEN "create" ELSE "signal", "merger"))
    BY <1>2, MainMoves DEF ChangedPVs
  <2>2. CASE tpc["merger"] = None
    <3>1. alive'["merger"] = {}
      BY <1>1, <2>2 DEF ChildOfMerger, None
    <3> QED
      BY <3>1 DEF OutdatedAreMissed
  <2>3. CASE tpc["merger"] # None
    <3>1. calls' # <<>> /\ calls'[1] = Frame("main", "signal", "merger")
      BY <2>1, <2>3 DEF Moved
    <3>2. SignalsMerger'
      BY <3>1 DEF SignalsMerger, Top, Frame
    <3> QED
      BY <3>2 DEF OutdatedAreMissed
  <2> QED
    BY <2>2, <2>3
<1>3. CASE UNCHANGED <<calls, outdated>>
  BY <1>1, <1>3 DEF OutdatedAreMissed, SignalsMerger, Top
<1>4. FindFile \/ FirstModTime => UNCHANGED <<calls, outdated>>
  BY DEF FindFile, FirstModTime, vars, mainVars, childVars
<1>5. CASE \/ WatchLooks \/ FileIsMissing \/ LastTimeIsUnset
           \/ SameModTime \/ WithinSession \/ AfterPause \/ CheckFails \/ SamePVs
  <2>1. At("main", "pause") \/ At("main", "getmtime") \/ At("main", "open")
    BY <1>5 DEF WatchLooks, Look, FileIsMissing, LastTimeIsUnset, SameModTime, WithinSession, AfterPause, CheckFails,
                SamePVs, ReadList
  <2>2. ~SignalsMerger
    BY <2>1 DEF At, SignalsMerger, Holding
  <2>3. outdated' = outdated
    BY <1>5 DEF WatchLooks, FileIsMissing, LastTimeIsUnset, SameModTime, WithinSession, AfterPause, ModTimeIsTold,
                CheckFails, SamePVs, childVars
  <2> QED
    BY <1>1, <2>2, <2>3, StaysMissed
<1> QED
  BY <1>2, <1>3, <1>4, <1>5 DEF LookSteps

\* The signal reaches the child of the merger, if there is one with a handle;
\* the one without is noted.
LEMMA MissedKeptBySignals ==
  ASSUME SupervisorInv, WatcherTypeOK, ChildOfMerger, OutdatedAreMissed,
         SignalMisses \/ (SendSignal /\ UNCHANGED childVars)
  PROVE  OutdatedAreMissed'
<1>0. ThreadTypes /\ "merger" \in Programs
  BY TypeParts, WatcherAssumption DEF SupervisorInv
<1>1. calls # <<>> /\ 1 \in DOMAIN calls /\ Top.program \in Programs /\ Top.pc \in Holding
  BY TopOK DEF SignalMisses, TestHandle, SendSignal, At, Holding
<1>2. CASE Top.program # "merger"
  <2>1. ~SignalsMerger
    BY <1>2 DEF SignalsMerger
  <2>2. alive'["merger"] = alive["merger"] /\ missed' = missed /\ outdated' = outdated
    BY <1>0, <1>1, <1>2 DEF SignalMisses, TestHandle, SendSignal, childVars, ThreadTypes
  <2> QED
    BY <2>1, <2>2, StaysMissed
<1>3. CASE Top.program = "merger" /\ SignalMisses /\ handle["merger"] # None
  <2>1. Moved(Frame(Top.fn, "send", "merger"))
    BY <1>3, MainMoves DEF SignalMisses
  <2>2. SignalsMerger'
    BY <2>1 DEF Moved, SignalsMerger, Top, Frame, Holding
  <2> QED
    BY <2>2 DEF OutdatedAreMissed
<1>4. CASE Top.program = "merger" /\ SignalMisses /\ handle["merger"] = None
  <2>1. UNCHANGED <<alive, outdated>> /\ missed' = missed \cup ({popened["merger"]} \ {None})
    BY <1>4 DEF SignalMisses, TestHandle
  <2>2. alive["merger"] \subseteq {popened["merger"]} \cup {None}
    BY <1>4 DEF ChildOfMerger
  <2>3. None \notin alive["merger"]
    BY <1>0, ProgramsAssumption DEF ThreadTypes, None
  <2> QED
    BY <2>1, <2>2, <2>3 DEF OutdatedAreMissed
<1>5. CASE Top.program = "merger" /\ SendSignal /\ UNCHANGED childVars
  <2>1. Top.pc = "send"
    BY <1>5 DEF SendSignal, At
  <2>2. handle["merger"] # None
    BY <1>1, <1>5, <2>1 DEF SupervisorInv, HandleIsSafe, Top
  <2>3. alive["merger"] \subseteq {handle["merger"]}
    BY <2>2 DEF ChildOfMerger
  <2>4. alive'["merger"] = {}
    BY <1>0, <1>5, <2>3 DEF SendSignal, ThreadTypes
  <2> QED
    BY <2>4 DEF OutdatedAreMissed
<1> QED
  BY <1>2, <1>3, <1>4, <1>5

LEMMA MissedKeptByChildren ==
  ASSUME SupervisorInv, OutdatedAreMissed, ChildStarts \/ MergerReads
  PROVE  OutdatedAreMissed'
<1>0. ThreadTypes /\ "merger" \in Programs
  BY TypeParts, WatcherAssumption DEF SupervisorInv
<1>1. UNCHANGED calls
  BY DEF ChildStarts, PopenStarts, MergerReads, vars, mainVars
<1>2. outdated' \cap alive'["merger"] \subseteq missed' \/ ~(outdated \cap alive["merger"] \subseteq missed)
  <2>1. CASE MergerReads
    BY <2>1 DEF MergerReads, vars
  <2>2. CASE ChildStarts
    <3>1. PICK p \in Programs :
            /\ PopenStarts(p)
            /\ outdated' = outdated \ (IF p = "merger" THEN {popened'[p]} ELSE {})
            /\ missed' = missed \ (IF p = "merger" THEN {popened'[p]} ELSE {})
      BY <2>2 DEF ChildStarts
    <3>2. PICK c \in Pids : alive' = [alive EXCEPT ![p] = @ \cup {c}] /\ popened' = [popened EXCEPT ![p] = c]
      BY <3>1 DEF PopenStarts
    <3>3. popened'[p] = c /\ alive'["merger"] \subseteq alive["merger"] \cup (IF p = "merger" THEN {c} ELSE {})
      BY <1>0, <3>2 DEF ThreadTypes
    <3> QED
      BY <3>1, <3>3
  <2> QED
    BY <2>1, <2>2
<1> QED
  BY <1>1, <1>2 DEF OutdatedAreMissed, SignalsMerger, Top

LEMMA MissedKeptByOthers ==
  ASSUME SupervisorInv, WatcherTypeOK, ChildOfMerger, OutdatedAreMissed, OtherSteps
  PROVE  OutdatedAreMissed'
<1>0. ThreadTypes /\ "merger" \in Programs /\ UNCHANGED <<outdated, missed>>
  BY TypeParts, WatcherAssumption DEF SupervisorInv, OtherSteps, childVars
<1>1. CASE SendSignal
  BY <1>1, MissedKeptBySignals DEF OtherSteps
<1>2. ASSUME NEW p \in Programs,
             \/ LoopTest(p) \/ PopenFails(p) \/ AssignHandle(p)
             \/ ChildWaitedFor(p) \/ ClearHandle(p) \/ Retry(p) \/ ChildEnds(p)
      PROVE  OutdatedAreMissed'
  <2>1. UNCHANGED calls
    BY <1>2 DEF LoopTest, PopenFails, AssignHandle, ChildWaitedFor, ClearHandle, Retry, ChildEnds, mainVars
  <2>2. alive'["merger"] \subseteq alive["merger"]
    BY <1>0, <1>2 DEF LoopTest, PopenFails, AssignHandle, ChildWaitedFor, ClearHandle, Retry, ChildEnds, ThreadTypes
  <2> QED
    BY <1>0, <2>1, <2>2 DEF OutdatedAreMissed, SignalsMerger, Top
<1>3. CASE AcquireMutex
  <2>1. calls # <<>> /\ Top.pc = "signal" /\ UNCHANGED alive
    BY <1>3 DEF AcquireMutex, At
  <2>2. calls' # <<>> /\ calls'[1] = Frame(Top.fn, "test handle", Top.program)
    BY <1>3, MainMoves DEF Moved
  <2>3. Top.program = "merger" => SignalsMerger'
    <3> DEFINE f == Frame(Top.fn, "test handle", Top.program)
    <3>0. f.program = Top.program /\ f.pc = "test handle"
      BY DEF Frame
    <3>1. calls'[1].program = Top.program /\ calls'[1].pc = "test handle"
      BY <2>2, <3>0
    <3> QED
      BY <2>2, <3>1 DEF SignalsMerger, Top, Holding
  <2>4. Top.program # "merger" => ~SignalsMerger
    BY DEF SignalsMerger
  <2> QED
    BY <1>0, <2>1, <2>3, <2>4, StaysMissed DEF OutdatedAreMissed
<1>4. CASE CreateThread \/ StartThread \/ ProcessExits
  <2>1. ~SignalsMerger /\ UNCHANGED alive
    BY <1>4 DEF CreateThread, StartThread, ProcessExits, At, SignalsMerger, Holding
  <2> QED
    BY <1>0, <2>1, StaysMissed
<1> QED
  BY <1>1, <1>2, <1>3, <1>4 DEF OtherSteps, Others

LEMMA MissedKept ==
  SupervisorInv /\ WatcherTypeOK /\ ChildOfMerger /\ OutdatedAreMissed /\ [ManagerNext]_allVars => OutdatedAreMissed'
<1> SUFFICES ASSUME SupervisorInv, WatcherTypeOK, ChildOfMerger, OutdatedAreMissed, [ManagerNext]_allVars
             PROVE  OutdatedAreMissed'
  OBVIOUS
<1>1. CASE Starts \/ FileNext \/ UNCHANGED allVars
  <2>1. UNCHANGED <<vars, childVars>>
    BY <1>1 DEF Starts, FileNext, Tick, Save, Remove, ChangeMode, allVars, managerVars
  <2> QED
    BY <2>1 DEF OutdatedAreMissed, SignalsMerger, Top, vars, mainVars, childVars
<1> QED
  BY <1>1, MissedKeptByLooks, MissedKeptBySignals, MissedKeptByChildren, MissedKeptByOthers
     DEF ManagerNext, BeginsToWatch, Watches, WatcherNext, LookSteps

\* A merger that has read the list before it changed does not run on once main
\* has done with the change, whenever it started, ended or was signalled in
\* between, but for one that Popen had started and run() had not assigned
\* (bsasManager.py:673-729, 753-866).
THEOREM ChangesReachTheMergerAlways == ManagerSpec => []ChangesReachTheMerger
<1>1. ManagerInit => ChildOfMerger /\ OutdatedAreMissed
  BY ChildOfMergerInitially DEF ManagerInit, WatcherInit, OutdatedAreMissed
<1>2. OutdatedAreMissed => ChangesReachTheMerger
  BY DEF OutdatedAreMissed, ChangesReachTheMerger, SignalsMerger, At, Holding
<1> QED
  BY <1>1, <1>2, ChildOfMergerKept, MissedKept, WatcherTypesAlways, ManagerSupervises, PTL DEF ManagerSpec
=============================================================================
