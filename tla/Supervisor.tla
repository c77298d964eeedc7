----------------------------- MODULE Supervisor -----------------------------
(***************************************************************************)
(* The manager process (managerApp/bsasManager.py): a main thread, and for *)
(* the merger and the writer one thread each (_BSAThread) that runs the    *)
(* program as a child process and starts it again when it ends.            *)
(*                                                                         *)
(* Signals are handled in the main thread, between any two of its steps:   *)
(* calls is its stack, the main loop at the bottom and a frame of          *)
(* _askedToQuit for every signal that is being handled, the top first.     *)
(* When the main loop has ended, the interpreter waits for the threads;    *)
(* then the stack is empty, or has the frames of handlers only.            *)
(* Delays are left out: where the code sleeps it may go on at any time.    *)
(***************************************************************************)
EXTENDS Naturals, Sequences, FiniteSets

CONSTANTS
    Programs,       \* the programs that are managed
    Pids,           \* bounds the children of one program that live at a time
    MaxSignals,     \* bounds the signals to quit
    MaxDepth,       \* bounds the stack of main
    MaxUnreadable   \* bounds the programs whose output cannot be read

ASSUME ProgramsAssumption ==
    /\ Programs \subseteq {"merger", "writer"}
    /\ Programs # {}
    /\ {MaxSignals, MaxDepth, MaxUnreadable} \subseteq Nat
    /\ "none" \notin Pids

VARIABLES
    unreadable,     \* programs that may print what the manager cannot decode
    calls,          \* the stack of the main thread
    exited,         \* the process has ended
    asked,          \* _askedToStop
    signals,        \* how many signals to quit were handled
    tpc,            \* program -> where its thread's run() is
    popened,        \* program -> the child Popen returned and run() has not assigned
    handle,         \* program -> _processHandle
    locked,         \* program -> main holds its thread's _mutex
    alive           \* program -> its children

mainVars == <<unreadable, calls, exited, asked, signals, locked>>
threadVars == <<tpc, popened, handle>>
vars == <<mainVars, threadVars, alive>>

None == "none"

Frame(fn, pc, p) == [fn |-> fn, pc |-> pc, program |-> p]

\* The main loop waits in pause().  With the writer only, the constructor
\* starts its thread first, and the list of PVs is never looked at.
Init ==
    /\ calls = <<IF "merger" \in Programs THEN Frame("main", "pause", None)
                 ELSE Frame("main", "create", "writer")>>
    /\ unreadable \in {u \in SUBSET Programs : Cardinality(u) <= MaxUnreadable}
    /\ exited = FALSE
    /\ asked = FALSE
    /\ signals = 0
    /\ tpc = [p \in Programs |-> None]
    /\ popened = [p \in Programs |-> None]
    /\ handle = [p \in Programs |-> None]
    /\ locked = [p \in Programs |-> FALSE]
    /\ alive = [p \in Programs |-> {}]

Top == calls[1]

At(fn, pc) == calls # <<>> /\ Top.fn = fn /\ Top.pc = pc

\* The top frame continues at pc.
Goto(pc, p) == calls' = [calls EXCEPT ![1] = Frame(@.fn, pc, p)]

-----------------------------------------------------------------------------
(***************************************************************************)
(* run() of the thread of program p.                                       *)
(***************************************************************************)

\* while not self._parent._askedToStop
LoopTest(p) ==
    /\ tpc[p] = "test"
    /\ tpc' = [tpc EXCEPT ![p] = IF asked THEN "ended" ELSE "popen"]
    /\ UNCHANGED <<mainVars, popened, handle, alive>>

\* Popen has started the child, and returns its handle ...
PopenStarts(p) ==
    /\ tpc[p] = "popen"
    /\ \E c \in Pids \ alive[p] :
         /\ alive' = [alive EXCEPT ![p] = @ \cup {c}]
         /\ popened' = [popened EXCEPT ![p] = c]
    /\ tpc' = [tpc EXCEPT ![p] = "assign"]
    /\ UNCHANGED <<mainVars, handle>>

\* Mutant: without the continue, run() goes on to wait() on what it has.
FallsThrough(p) ==
    /\ tpc[p] = "popen"
    /\ tpc' = [tpc EXCEPT ![p] = "read"]
    /\ UNCHANGED <<mainVars, popened, handle, alive>>

PopenFails(p) ==
    /\ tpc[p] = "popen"
    /\ tpc' = [tpc EXCEPT ![p] = "retry"]
    /\ UNCHANGED <<mainVars, popened, handle, alive>>

\* ... which is assigned in a step of its own.
AssignHandle(p) ==
    /\ tpc[p] = "assign"
    /\ handle' = [handle EXCEPT ![p] = popened[p]]
    /\ popened' = [popened EXCEPT ![p] = None]
    /\ tpc' = [tpc EXCEPT ![p] = "read"]
    /\ UNCHANGED <<mainVars, alive>>

\* The except around Popen also covers the reading of the child's output.
ReadFails(p) ==
    /\ p \in unreadable
    /\ tpc[p] = "read"
    /\ handle[p] \in alive[p]
    /\ tpc' = [tpc EXCEPT ![p] = "retry"]
    /\ UNCHANGED <<mainVars, popened, handle, alive>>

\* Mutant: the child is not waited for.
WaitsNot(p) ==
    /\ tpc[p] = "read"
    /\ tpc' = [tpc EXCEPT ![p] = "clear"]
    /\ UNCHANGED <<mainVars, popened, handle, alive>>

\* The output ends, and wait() returns, when the child has ended.
ChildWaitedFor(p) ==
    /\ tpc[p] = "read"
    /\ handle[p] \notin alive[p]
    /\ tpc' = [tpc EXCEPT ![p] = "clear"]
    /\ UNCHANGED <<mainVars, popened, handle, alive>>

\* Mutant: the handle is cleared without the mutex.
ClearsUnlocked(p) ==
    /\ tpc[p] = "clear"
    /\ handle' = [handle EXCEPT ![p] = None]
    /\ tpc' = [tpc EXCEPT ![p] = IF asked THEN "test" ELSE "retry"]
    /\ UNCHANGED <<mainVars, popened, alive>>

\* _processHandle = None, under the mutex.
ClearHandle(p) ==
    /\ tpc[p] = "clear"
    /\ ~locked[p]
    /\ handle' = [handle EXCEPT ![p] = None]
    /\ tpc' = [tpc EXCEPT ![p] = IF asked THEN "test" ELSE "retry"]
    /\ UNCHANGED <<mainVars, popened, alive>>

\* Mutant: the thread ends with its child.
EndsWithChild(p) ==
    /\ tpc[p] = "retry"
    /\ tpc' = [tpc EXCEPT ![p] = "ended"]
    /\ UNCHANGED <<mainVars, popened, handle, alive>>

\* 10 seconds, a minute or five have passed, or _askedToStop was seen.
Retry(p) ==
    /\ tpc[p] = "retry"
    /\ tpc' = [tpc EXCEPT ![p] = "test"]
    /\ UNCHANGED <<mainVars, popened, handle, alive>>

ThreadNext(p) ==
    \/ LoopTest(p) \/ PopenStarts(p) \/ PopenFails(p) \/ AssignHandle(p)
    \/ ReadFails(p) \/ ChildWaitedFor(p) \/ ClearHandle(p) \/ Retry(p)

\* A child ends on its own: an error, a timeout, a PV that disconnects.
ChildEnds(p) ==
    /\ \E c \in alive[p] : alive' = [alive EXCEPT ![p] = @ \ {c}]
    /\ UNCHANGED <<mainVars, threadVars>>

-----------------------------------------------------------------------------
(***************************************************************************)
(* The main thread: lookForChanges() and _checkForChangedPVs().            *)
(***************************************************************************)

\* pause() returns: look at the modification time, in a try of its own.
Look ==
    /\ At("main", "pause")
    /\ "merger" \in Programs
    /\ Goto("getmtime", None)
    /\ UNCHANGED <<unreadable, exited, asked, signals, locked, threadVars, alive>>

\* The time has changed: read the list, in a try of its own.
ReadList ==
    /\ At("main", "getmtime")
    /\ Goto("open", None)
    /\ UNCHANGED <<unreadable, exited, asked, signals, locked, threadVars, alive>>

\* No change, or none yet, or the file cannot be read or is empty.
NoChange ==
    /\ At("main", "getmtime") \/ At("main", "open")
    /\ Goto("pause", None)
    /\ UNCHANGED <<unreadable, exited, asked, signals, locked, threadVars, alive>>

\* The list has changed: start the merger's thread, or signal its child.
Changed ==
    /\ At("main", "open")
    /\ Goto(IF tpc["merger"] = None THEN "create" ELSE "signal", "merger")
    /\ UNCHANGED <<unreadable, exited, asked, signals, locked, threadVars, alive>>

\* What follows the start or the signal of p: the writer's thread, if there
\* is to be one and is not yet.
AfterStart(p) ==
    IF p = "merger" /\ "writer" \in Programs /\ tpc["writer"] = None
    THEN Goto("create", "writer")
    ELSE Goto("pause", None)

\* self._mergerThread = self._BSAThread(...)
CreateThread ==
    /\ At("main", "create")
    /\ tpc' = [tpc EXCEPT ![Top.program] = "created"]
    /\ Goto("start", Top.program)
    /\ UNCHANGED <<unreadable, exited, asked, signals, locked, popened, handle, alive>>

\* self._mergerThread.start(), which may raise: the attribute is reset.
StartThread ==
    /\ At("main", "start")
    /\ \E started \in {"test", None} : tpc' = [tpc EXCEPT ![Top.program] = started]
    /\ AfterStart(Top.program)
    /\ UNCHANGED <<unreadable, exited, asked, signals, locked, popened, handle, alive>>

-----------------------------------------------------------------------------
(***************************************************************************)
(* signalProcess(), called by the main loop and by _askedToQuit.           *)
(***************************************************************************)

AfterSignal(p) ==
    CASE Top.fn = "main"                    -> AfterStart(p)
      [] Top.fn = "quit" /\ p = "merger"    -> Goto("signal", "writer")
      [] Top.fn = "quit" /\ p = "writer"    -> Goto("join", "merger")

NoThread(p) == IF p \in Programs THEN tpc[p] = None ELSE TRUE

\* _askedToQuit leaves out a thread that does not exist.
SkipSignal ==
    /\ At("quit", "signal")
    /\ NoThread(Top.program)
    /\ AfterSignal(Top.program)
    /\ UNCHANGED <<unreadable, exited, asked, signals, locked, threadVars, alive>>

\* self._mutex.acquire(), of a lock that is not reentrant.
AcquireMutex ==
    /\ At("main", "signal") \/ At("quit", "signal")
    /\ ~NoThread(Top.program)
    /\ ~locked[Top.program]
    /\ locked' = [locked EXCEPT ![Top.program] = TRUE]
    /\ Goto("test handle", Top.program)
    /\ UNCHANGED <<unreadable, exited, asked, signals, threadVars, alive>>

ReleaseMutex ==
    /\ locked' = [locked EXCEPT ![Top.program] = FALSE]
    /\ AfterSignal(Top.program)

\* Mutant: returns without a release when there is no process.
KeepsMutex ==
    /\ At("main", "test handle") \/ At("quit", "test handle")
    /\ IF handle[Top.program] # None
       THEN Goto("send", Top.program) /\ UNCHANGED locked
       ELSE AfterSignal(Top.program) /\ UNCHANGED locked
    /\ UNCHANGED <<unreadable, exited, asked, signals, threadVars, alive>>

\* if self._processHandle != None
TestHandle ==
    /\ At("main", "test handle") \/ At("quit", "test handle")
    /\ IF handle[Top.program] # None
       THEN Goto("send", Top.program) /\ UNCHANGED locked
       ELSE ReleaseMutex
    /\ UNCHANGED <<unreadable, exited, asked, signals, threadVars, alive>>

\* SIGTERM ends the child.  A child that has ended is left alone.
SendSignal ==
    /\ At("main", "send") \/ At("quit", "send")
    /\ LET p == Top.program IN alive' = [alive EXCEPT ![p] = @ \ {handle[p]}]
    /\ ReleaseMutex
    /\ UNCHANGED <<unreadable, exited, asked, signals, threadVars>>

-----------------------------------------------------------------------------
(***************************************************************************)
(* _askedToQuit(), the handler of SIGTERM, SIGINT and SIGHUP.              *)
(***************************************************************************)

\* It interrupts main wherever it is, the handler itself and the wait for the
\* threads included.
Interrupt ==
    /\ ~exited
    /\ signals < MaxSignals
    /\ Len(calls) < MaxDepth
    /\ signals' = signals + 1
    /\ asked' = TRUE
    /\ calls' = <<Frame("quit", "signal", "merger")>> \o calls
    /\ UNCHANGED <<unreadable, exited, locked, threadVars, alive>>

\* join(30): the thread has ended, or 30 seconds have passed.
JoinThread ==
    /\ At("quit", "join")
    /\ Top.program \in Programs => tpc[Top.program] # "created"
    /\ IF Top.program = "merger" THEN Goto("join", "writer") ELSE Goto("exit", None)
    /\ UNCHANGED <<unreadable, exited, asked, signals, locked, threadVars, alive>>

Bottom == calls[Len(calls)]

Ended(p) == tpc[p] \in {None, "created", "ended"}

\* sys.exit(1) raises SystemExit, which ends all frames, but the main loop's
\* when a bare except catches it: lookForChanges then returns to the loop.
Exit ==
    /\ At("quit", "exit")
    /\ Bottom.fn = "main"
    /\ calls' = IF Bottom.pc \in {"getmtime", "open"} THEN <<Frame("main", "pause", None)>> ELSE <<>>
    /\ UNCHANGED <<unreadable, exited, asked, signals, locked, threadVars, alive>>

\* Where the interpreter waits for the threads, SystemExit ends the wait: the
\* process exits, and the threads are gone with it.
ExitCutsWait ==
    /\ At("quit", "exit")
    /\ Bottom.fn = "quit"
    /\ calls' = <<>>
    /\ exited' = TRUE
    /\ tpc' = [p \in Programs |-> IF Ended(p) THEN tpc[p] ELSE "killed"]
    /\ UNCHANGED <<unreadable, asked, signals, locked, popened, handle, alive>>

\* A thread that is not started yet cannot be joined.  The RuntimeError is
\* caught where main was about to start it; the attribute is reset.
JoinRaises ==
    LET p == Bottom.program
    IN  /\ At("quit", "join")
        /\ ~NoThread(Top.program)
        /\ tpc[Top.program] = "created"
        /\ Bottom.pc = "start"
        /\ tpc' = [tpc EXCEPT ![p] = None]
        /\ calls' = <<IF p = "merger" /\ "writer" \in Programs /\ tpc["writer"] = None
                      THEN Frame("main", "create", "writer")
                      ELSE Frame("main", "pause", None)>>
        /\ UNCHANGED <<unreadable, exited, asked, signals, locked, popened, handle, alive>>

\* Mutant: the threads are daemons.
ExitsAtOnce ==
    /\ calls = <<>>
    /\ ~exited
    /\ exited' = TRUE
    /\ UNCHANGED <<unreadable, calls, asked, signals, locked, threadVars, alive>>

\* The interpreter waits for the threads, which are no daemons.
ProcessExits ==
    /\ calls = <<>>
    /\ ~exited
    /\ \A p \in Programs : Ended(p)
    /\ exited' = TRUE
    /\ UNCHANGED <<unreadable, calls, asked, signals, locked, threadVars, alive>>

MainNext ==
    \/ Look \/ ReadList \/ NoChange \/ Changed \/ CreateThread \/ StartThread
    \/ SkipSignal \/ AcquireMutex \/ TestHandle \/ SendSignal
    \/ JoinThread \/ Exit \/ ExitCutsWait \/ JoinRaises \/ ProcessExits

Next ==
    \/ MainNext
    \/ Interrupt
    \/ \E p \in Programs : ThreadNext(p) \/ ChildEnds(p)

Spec == Init /\ [][Next]_vars

\* Every thread keeps running.  Popen does not fail for ever, and main, which
\* sleeps for seconds between two looks, is not in signalProcess() whenever
\* the thread tries the mutex.  Children and signals are not fair.
FairSpec ==
    /\ Spec
    /\ WF_vars(MainNext)
    /\ \A p \in Programs : WF_vars(ThreadNext(p)) /\ SF_vars(PopenStarts(p)) /\ SF_vars(ClearHandle(p))

-----------------------------------------------------------------------------
(***************************************************************************)
(* Properties.                                                             *)
(***************************************************************************)

FrameType ==
    [fn : {"main", "quit"},
     pc : {"pause", "getmtime", "open", "create", "start", "signal", "test handle", "send", "join", "exit"},
     program : {"merger", "writer", None}]

\* Every variable has values of its type, _mergerThread and _writerThread are
\* objects where they are used, and so is _processHandle where run() reads the
\* output and waits: no step raises AttributeError.
SupervisorTypeOK ==
    /\ calls \in Seq(FrameType)
    /\ unreadable \subseteq Programs /\ {exited, asked} \subseteq BOOLEAN
    /\ signals \in 0 .. MaxSignals
    /\ tpc \in [Programs -> {None, "created", "test", "popen", "assign", "read", "clear", "retry", "ended", "killed"}]
    /\ popened \in [Programs -> Pids \cup {None}]
    /\ handle \in [Programs -> Pids \cup {None}]
    /\ locked \in [Programs -> BOOLEAN]
    /\ alive \in [Programs -> SUBSET Pids]
    /\ \A p \in Programs : tpc[p] = "read" => handle[p] # None
    /\ \A i \in DOMAIN calls :
         calls[i].pc \in {"test handle", "send"} =>
           calls[i].program \in Programs /\ tpc[calls[i].program] # None

\* The frames of main that hold the mutex of p.
Holders(p) == {i \in DOMAIN calls : calls[i].pc \in {"test handle", "send"} /\ calls[i].program = p}

\* "Guard against reseting the processHandle before we can use it to signal"
\* (bsasManager.py:852): between the test and the use of _processHandle, by
\* the main loop or by a handler that interrupted it, run() does not reset it.
HandleIsSafe ==
    \A i \in DOMAIN calls : calls[i].pc = "send" => handle[calls[i].program] # None

\* A mutex is locked as long as one frame of main is between its acquire()
\* and its release(), and no longer: signalProcess() has no finally, and an
\* exception of a handler ends the frames below it wherever they are.  (That
\* the frame comes to its release() is another matter: see HandlerProceeds.)
NoMutexIsLeft ==
    \A p \in Programs :
      /\ locked[p] <=> Holders(p) # {}
      /\ \A i, j \in Holders(p) : i = j

\* However often a program ends, is signalled or cannot be started, it runs
\* once at a time: two mergers would serve the same PV.  Only a child whose
\* output cannot be read is left to run beside the next one.
OneChildAtATime == \A p \in Programs \ unreadable : \A c, d \in alive[p] : c = d

\* When the manager has ended, whichever way it was interrupted, nothing it
\* started and can read from runs on, unless a signal cut short the wait for
\* the thread.
ExitLeavesNoChild == exited => \A p \in Programs \ unreadable : tpc[p] # "killed" => alive[p] = {}

\* A program whose thread was started comes to run, and again after it has
\* ended or was signalled, unless the manager was asked to stop.
KeepsRunning ==
    \A p \in Programs : tpc[p] \notin {None, "created"} ~> alive[p] # {} \/ asked

-----------------------------------------------------------------------------
(***************************************************************************)
(* What comments say and the code does not do.  "let the threads know that *)
(* they don't want to keep their processes alive, then terminate those     *)
(* processes.  Attempt to join both then exit" (bsasManager.py:489-491).   *)
(***************************************************************************)

\* The handler does not wait for a mutex that a frame below it holds.
HandlerProceeds == \A p \in Programs : At("quit", "signal") /\ Top.program = p => ~locked[p]

\* When it joins, the processes were terminated.
ProcessesTerminated ==
    At("quit", "join") /\ Top.program = "merger" => \A p \in Programs : alive[p] = {}

\* After the handler, main does not go on.
HandlerEndsMain == asked => calls = <<>> \/ Top.fn = "quit"

\* All that is said.
QuitIsOrderly == HandlerProceeds /\ ProcessesTerminated /\ HandlerEndsMain
=============================================================================
