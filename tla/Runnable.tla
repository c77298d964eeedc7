------------------------------ MODULE Runnable ------------------------------
(***************************************************************************)
(* class Runnable (mergerApp/src/mergerMain.cpp): what the two worker      *)
(* threads of the merger share, a flag each thread polls and the queue of  *)
(* dead threads that main waits on.                                        *)
(***************************************************************************)
EXTENDS Sequences

VARIABLES
    running,    \* running_ of each thread
    dead        \* dead_ : the threads that ended, in order

Threads == {"listener", "reactor"}

runnableVars == <<running, dead>>

\* start(): both threads are started before main waits.
RunnableInit ==
    /\ running = [t \in Threads |-> TRUE]
    /\ dead = <<>>

\* Mutant: running_ stays set.
StoppedRunning(t) ==
    /\ running' = running
    /\ dead' = Append(dead, t)

\* stopped(): the natural end of a thread.
Stopped(t) ==
    /\ running' = [running EXCEPT ![t] = FALSE]
    /\ dead' = Append(dead, t)
=============================================================================
