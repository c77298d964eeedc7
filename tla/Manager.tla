------------------------------- MODULE Manager -------------------------------
(***************************************************************************)
(* main() of managerApp/bsasManager.py: stopIfAlreadyWorking(), and then   *)
(* the watcher for as long as the process lives.  A manager that works     *)
(* does not look at the lock file again, and one that starts touches       *)
(* nothing the watcher sees.  So the starts of the managers are followed,  *)
(* with all their interleavings, up to the step in which self begins to    *)
(* watch, however late it does, and the lock is forgotten in that step.    *)
(***************************************************************************)
EXTENDS Watcher, LockFile

CONSTANT self   \* the manager whose watcher is followed

ASSUME ManagerAssumption == self \in Managers

allVars == <<managerVars, lockVars>>

ManagerInit == WatcherInit /\ LockInit

Starts ==
    /\ watching = "exists"
    /\ LockNext
    /\ UNCHANGED managerVars

BeginsToWatch ==
    /\ state[self] = "working"
    /\ FindFile
    /\ lockFile' = NoFile
    /\ state' = [m \in Managers |-> "forgotten"]
    /\ existing' = [m \in Managers |-> NoNumber]
    /\ user' = [m \in Managers |-> NoNumber]
    /\ excuses' = [m \in Managers |-> {}]

Watches(step) == watching # "exists" /\ step /\ UNCHANGED lockVars

ManagerNext == Starts \/ BeginsToWatch \/ Watches(WatcherNext)

\* Time passes, and the main thread, woken by SIGALRM, does all its steps.
ManagerSpec ==
    /\ ManagerInit
    /\ [][ManagerNext]_allVars
    /\ WF_allVars(Watches(Tick))
    /\ WF_allVars(Watches(LookSteps))
    /\ WF_allVars(Watches(MainStep))
=============================================================================
