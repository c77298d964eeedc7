------------------------------ MODULE LockFile -------------------------------
(***************************************************************************)
(* stopIfAlreadyWorking() of managerApp/bsasManager.py: the managers of    *)
(* one target beamline on one host keep a file with the process number of  *)
(* the one that works.  The file is never removed: a manager that has      *)
(* ended leaves its number there, and the system may give the number to    *)
(* another process.  A manager and its process number are the same here.   *)
(***************************************************************************)
CONSTANTS
    Managers,   \* the processes that are started as managers
    Users,      \* whom the processes may run as
    NoFile,     \* there is no file
    NoNumber    \* the file has no number in it

ASSUME LockFileAssumption == Managers \cap {NoFile, NoNumber} = {} /\ NoFile # NoNumber

VARIABLES
    lockFile,   \* the file: the number of a manager, NoNumber or NoFile
    state,      \* manager -> where stopIfAlreadyWorking() is, or what became of the process
    existing,   \* manager -> existingPid
    user,       \* process -> its user
    excuses     \* manager -> why it may work beside another one (a history variable)

lockVars == <<lockFile, state, existing, user, excuses>>

\* It has looked at the file before another one wrote its number; it cannot
\* read or write the file; it finds the process of another user.
Excuses == {"overlap", "access", "user"}

LockInit ==
    /\ lockFile \in {NoFile, NoNumber}
    /\ state = [m \in Managers |-> "new"]
    /\ existing = [m \in Managers |-> NoNumber]
    /\ user \in [Managers -> Users]
    /\ excuses = [m \in Managers |-> {}]

Move(m, from, to) == state[m] = from /\ state' = [state EXCEPT ![m] = to]

\* Between the read of the file and the write to it.
Starting == {m \in Managers : state[m] \in {"found", "proceeds", "emptied"}}

Alive == {m \in Managers : state[m] \in {"found", "proceeds", "emptied", "working", "other process"}}

Working == {m \in Managers : state[m] = "working"}

Excused(m, why) == excuses' = [excuses EXCEPT ![m] = @ \cup {why}]

\* m writes to the file: the managers in late have looked at it too early, and
\* the one whose number is lost has no better an excuse than m to work beside m.
Displaces(m, late) ==
    excuses' = [n \in Managers |->
        excuses[n] \cup (IF n \in late THEN {"overlap"} ELSE {})
                   \cup (IF n = lockFile /\ n \in Working THEN excuses[m] ELSE {})]

\* The file has the number of a process ...
FindNumber(m) ==
    /\ lockFile \in Managers
    /\ Move(m, "new", "found")
    /\ existing' = [existing EXCEPT ![m] = lockFile]
    /\ UNCHANGED <<lockFile, user, excuses>>

\* ... or it does not exist, or int() finds none in it: it is safe to proceed.
FindNone(m) ==
    /\ lockFile \notin Managers
    /\ Move(m, "new", "proceeds")
    /\ UNCHANGED <<lockFile, existing, user, excuses>>

\* Any other exception is taken for the same.
CannotRead(m) ==
    /\ lockFile # NoFile
    /\ Move(m, "new", "proceeds")
    /\ Excused(m, "access")
    /\ UNCHANGED <<lockFile, existing, user>>

\* Mutant: the manager that is found is warned about, and not respected.
WarnsOnly(m) ==
    /\ existing[m] \in Alive
    /\ user[existing[m]] = user[m]
    /\ Move(m, "found", "proceeds")
    /\ UNCHANGED <<lockFile, existing, user, excuses>>

\* os.kill(existingPid, 0) returns: sys.exit(2).
AnotherWorks(m) ==
    /\ existing[m] \in Alive
    /\ user[existing[m]] = user[m]
    /\ Move(m, "found", "refused")
    /\ UNCHANGED <<lockFile, existing, user, excuses>>

\* It raises ProcessLookupError.
NoneWorks(m) ==
    /\ existing[m] \notin Alive
    /\ Move(m, "found", "proceeds")
    /\ UNCHANGED <<lockFile, existing, user, excuses>>

\* It raises PermissionError, which is an OSError too.
NotPermitted(m) ==
    /\ existing[m] \in Alive
    /\ user[existing[m]] # user[m]
    /\ Move(m, "found", "proceeds")
    /\ Excused(m, "user")
    /\ UNCHANGED <<lockFile, existing, user>>

\* open(lockFileName, 'w') empties the file, the number is in it when it is
\* closed ...
EmptyFile(m) ==
    /\ Move(m, "proceeds", "emptied")
    /\ lockFile' = NoNumber
    /\ Displaces(m, {})
    /\ UNCHANGED <<existing, user>>

WriteNumber(m) ==
    /\ Move(m, "emptied", "working")
    /\ lockFile' = m
    /\ Displaces(m, Starting \ {m})
    /\ UNCHANGED <<existing, user>>

\* ... or either is refused: a warning.
CannotWrite(m) ==
    /\ \E from \in {"proceeds", "emptied"} : Move(m, from, "working")
    /\ Excused(m, "access")
    /\ UNCHANGED <<lockFile, existing, user>>

\* A manager ends, in whatever way, or is killed while it starts.
Ends(m) ==
    /\ \E from \in {"found", "proceeds", "emptied", "working", "other process"} : Move(m, from, "ended")
    /\ UNCHANGED <<lockFile, existing, user, excuses>>

\* The number is given to another process: a new manager, perhaps, which may
\* then find its own number in the file.
NumberReused(m) ==
    /\ \E from \in {"refused", "ended"}, to \in {"new", "other process"} : Move(m, from, to)
    /\ \E u \in Users : user' = [user EXCEPT ![m] = u]
    /\ existing' = [existing EXCEPT ![m] = NoNumber]
    /\ excuses' = [excuses EXCEPT ![m] = {}]
    /\ UNCHANGED lockFile

LockNext ==
    \E m \in Managers :
      \/ FindNumber(m) \/ FindNone(m) \/ CannotRead(m)
      \/ AnotherWorks(m) \/ NoneWorks(m) \/ NotPermitted(m)
      \/ EmptyFile(m) \/ WriteNumber(m) \/ CannotWrite(m)
      \/ Ends(m) \/ NumberReused(m)

LockSpec == LockInit /\ [][LockNext]_lockVars

-----------------------------------------------------------------------------
(***************************************************************************)
(* Properties.                                                             *)
(***************************************************************************)

\* "Check to see if another instance of this program is already running": of
\* two managers that work at a time one has an excuse, or has lost the file to
\* one that has: it looked at the file before another one's number was in it,
\* was refused an access to it, or found the process of another user.  What
\* ended managers have left in the file, whoever has their numbers now, and what
\* excuses they had, excuses none of the others.
OneManagerWorks == \A m, n \in Working : excuses[m] = {} /\ excuses[n] = {} => m = n

\* "it is possible the effectuve UID of the current process doesn't have
\* permission to send this signal.  In such a case, we wouldn't want to
\* continue anyway" (bsasManager.py:251-254): that a manager is another user's
\* is no excuse.  Violated, as PermissionError is an OSError, and the handler
\* at 246 takes it for a process that is no longer running.
UsersExcludeEachOther == \A m, n \in Working : excuses[m] \cup excuses[n] \subseteq {"user"} => m = n
=============================================================================
