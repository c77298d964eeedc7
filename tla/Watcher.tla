------------------------------- MODULE Watcher -------------------------------
(***************************************************************************)
(* The list of PVs and the manager that watches it: startWatching(),       *)
(* lookForChanges() and _checkForChangedPVs() of managerApp/bsasManager.py *)
(* with the modification times they compare, over the threads, the         *)
(* children and the calls of Supervisor.  The merger reads the list when   *)
(* it starts, and never again.  Signals to quit, and children whose output *)
(* cannot be read, are followed in Supervisor and not here.                *)
(*                                                                         *)
(* The order and the repetitions in the file matter to nobody here: it is  *)
(* the set of its PVs, empty when it has no line.                          *)
(***************************************************************************)
EXTENDS Supervisor

CONSTANTS
    Lists,      \* the sets of PVs that may be in the file
    Grace,      \* editGracePeriod, in ticks
    StartTime,  \* the time at which the manager starts
    LastEdit    \* bounds the time at which the file is edited

ASSUME WatcherAssumption ==
    /\ "merger" \in Programs
    /\ {Grace, StartTime, LastEdit} \subseteq Nat
    /\ 0 < Grace /\ Grace < StartTime /\ StartTime <= LastEdit

VARIABLES
    now,                    \* time.time()
    inputFile,              \* the file, with its modification time
    watching,               \* where startWatching() is, or what became of it
    lastModTime,            \* _lastModTime
    newModTime,             \* _newModTime
    lastUpdateTime,         \* _lastUpdateTime
    editSessionFinished,    \* _editSessionFinished
    previousPVSet,          \* _previousPVSet
    hasRead,                \* the children of the merger's thread that have read the list
    outdated,               \* those that read it before a change was noticed
    missed,                 \* the children a signal was meant for and did not find
    unread                  \* the modification time at which a check found no file to read

fileVars == <<now, inputFile>>
watchVars == <<watching, lastModTime, newModTime, lastUpdateTime, editSessionFinished, previousPVSet, unread>>
childVars == <<hasRead, outdated, missed>>
managerVars == <<vars, fileVars, watchVars, childVars>>

\* When nothing is edited any more, and every comparison of times is settled.
EndOfTime == LastEdit + Grace + 1

NoTime == 0

WatcherInit ==
    /\ Init
    /\ now = StartTime
    /\ inputFile \in [exists : BOOLEAN, readable : {TRUE}, pvs : Lists, mtime : {1, StartTime}]
    /\ watching = "exists"
    /\ lastModTime = NoTime
    /\ newModTime = NoTime
    /\ lastUpdateTime = 0
    /\ editSessionFinished = TRUE
    /\ previousPVSet = {}
    /\ hasRead = {}
    /\ outdated = {}
    /\ missed = {}
    /\ unread = NoTime

-----------------------------------------------------------------------------
(***************************************************************************)
(* The file and the time.                                                  *)
(***************************************************************************)

\* When main has ended, the manager looks at neither.
Watched == calls # <<>>

Tick ==
    /\ Watched
    /\ now < EndOfTime
    /\ now' = now + 1
    /\ UNCHANGED <<vars, inputFile, watchVars, childVars>>

MayEdit == Watched /\ now <= LastEdit

\* A save, or a half of one: editors may empty the file before they write it.
\* Two saves have different times.
Save(pvs) ==
    /\ MayEdit
    /\ inputFile.mtime # now
    /\ inputFile' = [inputFile EXCEPT !.exists = TRUE, !.pvs = pvs, !.mtime = now]
    /\ UNCHANGED <<vars, now, watchVars, childVars>>

Remove ==
    /\ MayEdit
    /\ inputFile' = [inputFile EXCEPT !.exists = FALSE]
    /\ UNCHANGED <<vars, now, watchVars, childVars>>

\* Permissions, or a file server that does not answer: the modification time
\* can be told and stays what it is, the contents cannot be read.
ChangeMode ==
    /\ MayEdit
    /\ inputFile' = [inputFile EXCEPT !.readable = ~@]
    /\ UNCHANGED <<vars, now, watchVars, childVars>>

FileNext == Tick \/ (\E pvs \in Lists : Save(pvs)) \/ Remove \/ ChangeMode

Readable == inputFile.exists /\ inputFile.readable

-----------------------------------------------------------------------------
(***************************************************************************)
(* startWatching().                                                        *)
(***************************************************************************)

\* os.path.exists(): without a file, the present is a guess.
FindFile ==
    /\ watching = "exists"
    /\ IF inputFile.exists
       THEN watching' = "getmtime" /\ UNCHANGED lastModTime
       ELSE watching' = "started" /\ lastModTime' = now
    /\ UNCHANGED <<vars, fileVars, childVars, newModTime, lastUpdateTime, editSessionFinished, previousPVSet, unread>>

\* os.path.getmtime(), of a file that may have gone: the bare except leaves
\* _lastModTime without a value.
FirstModTime ==
    /\ watching = "getmtime"
    /\ watching' = "started"
    /\ lastModTime' = IF inputFile.exists THEN inputFile.mtime ELSE NoTime
    /\ UNCHANGED <<vars, fileVars, childVars, newModTime, lastUpdateTime, editSessionFinished, previousPVSet, unread>>

-----------------------------------------------------------------------------
(***************************************************************************)
(* lookForChanges().                                                       *)
(***************************************************************************)

WatchLooks ==
    /\ watching = "started"
    /\ Look
    /\ UNCHANGED <<fileVars, watchVars, childVars>>

\* getmtime() raises, and the current list is used until it is accessible.
FileIsMissing ==
    /\ ~inputFile.exists
    /\ At("main", "getmtime")
    /\ NoChange
    /\ UNCHANGED <<fileVars, watchVars, childVars>>

\* The attribute that startWatching() could not set: AttributeError ends main.
LastTimeIsUnset ==
    /\ inputFile.exists
    /\ lastModTime = NoTime
    /\ At("main", "getmtime")
    /\ watching' = "crashed"
    /\ calls' = <<>>
    /\ UNCHANGED <<unreadable, exited, asked, signals, locked, threadVars, alive>>
    /\ UNCHANGED <<fileVars, childVars, lastModTime, newModTime, lastUpdateTime, editSessionFinished, previousPVSet, unread>>

\* What is the same for the three that follow.
ModTimeIsTold ==
    /\ inputFile.exists
    /\ lastModTime # NoTime
    /\ newModTime' = inputFile.mtime
    /\ UNCHANGED <<fileVars, childVars, watching, previousPVSet, unread>>

\* The file has not changed.  If it was being edited, is that long enough ago?
SameModTime ==
    /\ ModTimeIsTold
    /\ newModTime' = lastModTime
    /\ IF editSessionFinished /\ now > lastUpdateTime + Grace
       THEN ReadList /\ editSessionFinished' = FALSE
       ELSE At("main", "getmtime") /\ NoChange /\ UNCHANGED editSessionFinished
    /\ UNCHANGED <<lastModTime, lastUpdateTime>>

\* Mutant: the edit session is not remembered.
ForgetsSession ==
    /\ ModTimeIsTold
    /\ newModTime' # lastModTime
    /\ newModTime' < lastModTime + Grace
    /\ At("main", "getmtime")
    /\ NoChange
    /\ lastModTime' = newModTime'
    /\ UNCHANGED <<editSessionFinished, lastUpdateTime>>

\* Mutant: the grace period is added twice.
SessionInFuture ==
    /\ ModTimeIsTold
    /\ newModTime' # lastModTime
    /\ newModTime' < lastModTime + Grace
    /\ At("main", "getmtime")
    /\ NoChange
    /\ editSessionFinished' = TRUE
    /\ lastUpdateTime' = newModTime' + Grace
    /\ lastModTime' = newModTime'

\* It has, and not for long: it is not read on each save of an edit session.
WithinSession ==
    /\ ModTimeIsTold
    /\ newModTime' # lastModTime
    /\ newModTime' < lastModTime + Grace
    /\ At("main", "getmtime")
    /\ NoChange
    /\ editSessionFinished' = TRUE
    /\ lastUpdateTime' = newModTime'
    /\ lastModTime' = newModTime'

\* It has, long after the last change.
AfterPause ==
    /\ ModTimeIsTold
    /\ newModTime' >= lastModTime + Grace
    /\ ReadList
    /\ editSessionFinished' = FALSE
    /\ UNCHANGED <<lastModTime, lastUpdateTime>>

-----------------------------------------------------------------------------
(***************************************************************************)
(* _checkForChangedPVs().  When it returns, however it does, the time it   *)
(* was called for becomes _lastModTime.                                    *)
(***************************************************************************)

CheckEnds ==
    /\ lastModTime' = newModTime
    /\ UNCHANGED <<fileVars, watching, newModTime, lastUpdateTime, editSessionFinished, hasRead, missed>>

\* The file cannot be opened or has no line: the list in use is kept.
CheckFails ==
    /\ At("main", "open")
    /\ ~Readable \/ inputFile.pvs = {}
    /\ NoChange
    /\ unread' = IF Readable THEN unread ELSE newModTime
    /\ CheckEnds
    /\ UNCHANGED <<previousPVSet, outdated>>

\* "The contents of the PV list used by the Merger software has not changed."
SamePVs ==
    /\ At("main", "open")
    /\ Readable
    /\ inputFile.pvs = previousPVSet
    /\ inputFile.pvs # {}
    /\ NoChange
    /\ CheckEnds
    /\ UNCHANGED <<previousPVSet, outdated, unread>>

\* Mutant: a merger that runs is left alone.
StartsOnly ==
    /\ At("main", "open")
    /\ Readable
    /\ inputFile.pvs \notin {previousPVSet, {}}
    /\ IF tpc["merger"] = None THEN Changed ELSE NoChange
    /\ previousPVSet' = inputFile.pvs
    /\ outdated' = hasRead \cap alive["merger"]
    /\ CheckEnds
    /\ UNCHANGED unread

\* The merger is started, or signalled.
ChangedPVs ==
    /\ At("main", "open")
    /\ Readable
    /\ inputFile.pvs \notin {previousPVSet, {}}
    /\ Changed
    /\ previousPVSet' = inputFile.pvs
    /\ outdated' = hasRead \cap alive["merger"]
    /\ CheckEnds
    /\ UNCHANGED unread

-----------------------------------------------------------------------------
(***************************************************************************)
(* The rest of the manager, and the merger.                                *)
(***************************************************************************)

\* A child begins.  The merger has read nothing yet.
ChildStarts ==
    /\ \E p \in Programs :
         /\ PopenStarts(p)
         /\ LET fresh == IF p = "merger" THEN {popened'[p]} ELSE {}
            IN  /\ hasRead' = hasRead \ fresh
                /\ outdated' = outdated \ fresh
                /\ missed' = missed \ fresh
    /\ UNCHANGED <<fileVars, watchVars>>

\* pvlist_from_file(), of whatever the file is just now: one that cannot be
\* read, or is half saved, is taken for a list with fewer PVs or none.
MergerReads ==
    /\ \E c \in alive["merger"] \ hasRead : hasRead' = hasRead \cup {c}
    /\ UNCHANGED <<vars, fileVars, watchVars, outdated, missed>>

\* signalProcess() finds no handle, although Popen has started a child.
SignalMisses ==
    /\ TestHandle
    /\ missed' = IF handle[Top.program] = None /\ Top.program = "merger"
                 THEN missed \cup ({popened["merger"]} \ {None})
                 ELSE missed
    /\ UNCHANGED <<fileVars, watchVars, hasRead, outdated>>

\* The steps of Supervisor that have nothing to do with the list.
Others ==
    \/ CreateThread \/ StartThread \/ AcquireMutex \/ SendSignal \/ ProcessExits
    \/ \E p \in Programs :
         \/ LoopTest(p) \/ PopenFails(p) \/ AssignHandle(p)
         \/ ChildWaitedFor(p) \/ ClearHandle(p) \/ Retry(p) \/ ChildEnds(p)

OtherSteps == Others /\ UNCHANGED <<fileVars, watchVars, childVars>>

LookSteps ==
    \/ FindFile \/ FirstModTime
    \/ WatchLooks \/ FileIsMissing \/ LastTimeIsUnset
    \/ SameModTime \/ WithinSession \/ AfterPause
    \/ CheckFails \/ SamePVs \/ ChangedPVs

WatcherNext == FileNext \/ LookSteps \/ ChildStarts \/ MergerReads \/ SignalMisses \/ OtherSteps

\* What the main thread does in the calls of Supervisor.
MainStep == SignalMisses \/ (MainNext /\ OtherSteps)

WatcherSpec == WatcherInit /\ [][WatcherNext]_managerVars

-----------------------------------------------------------------------------
(***************************************************************************)
(* Properties.                                                             *)
(***************************************************************************)

\* Every variable has values of its type, and no modification time, nor the
\* time of the last update, is later than the present: no grace period is
\* counted from a time that is still to come.
WatcherTypeOK ==
    /\ now \in StartTime .. EndOfTime
    /\ inputFile \in [exists : BOOLEAN, readable : BOOLEAN, pvs : Lists, mtime : 1 .. now]
    /\ watching \in {"exists", "getmtime", "started", "crashed"}
    /\ {lastModTime, newModTime, lastUpdateTime, unread} \subseteq 0 .. now
    /\ editSessionFinished \in BOOLEAN
    /\ previousPVSet \in Lists \cup {{}}
    /\ hasRead \subseteq Pids /\ outdated \subseteq Pids /\ missed \subseteq Pids

\* Whatever the edits, the removals and the order of the looks, the list the
\* manager goes by is in the end the one in the file.  A check that finds the
\* file unreadable is the one exception: it is not repeated for that
\* modification time.  (So is a file that vanishes while startWatching() looks
\* for it, which ends main.)
EditsAreNoticed ==
    <>[](watching = "started" /\ inputFile.exists /\ inputFile.pvs # {})
      => <>[](previousPVSet = inputFile.pvs \/ unread = inputFile.mtime)

\* When main has done with a change, no merger that had read the list before
\* it runs on, but for one that had started and had no handle yet.
ChangesReachTheMerger ==
    At("main", "pause") => outdated \cap alive["merger"] \subseteq missed
=============================================================================
