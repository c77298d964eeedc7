-------------------------- MODULE Supervisor_proofs --------------------------
(***************************************************************************)
(* The manager's threads, children and mutexes, for every set of process   *)
(* numbers and however many signals interrupt main wherever it is.         *)
(***************************************************************************)
EXTENDS Supervisor, TLAPS

Holding == {"test handle", "send"}

\* The stack: the main loop is at its bottom, and nowhere else.
StackOK ==
    \A i \in DOMAIN calls :
      /\ calls[i].fn = "main" => i = Len(calls)
      /\ calls[i].pc = "signal" => calls[i].program \in {"merger", "writer"}
      /\ calls[i].fn = "quit" => calls[i].pc \in {"signal", "test handle", "send", "join", "exit"}
      /\ calls[i].fn = "quit" /\ calls[i].pc = "join" => calls[i].program \in {"merger", "writer"}

\* A frame that has not come to take the mutex of q, and holds none but that
\* of the merger.
Before(f, q) ==
    \/ f.pc = "signal" /\ f.program = "merger"
    \/ q = "writer" /\ f.pc \in Holding /\ f.program = "merger"
    \/ q = "writer" /\ f.pc = "signal" /\ f.program = "writer"

\* Above a frame that holds a mutex is none that holds it too, or has passed
\* the point where it would have to take it.
MutexOrder ==
    \A i, j \in DOMAIN calls :
      i < j /\ calls[j].pc \in Holding => Before(calls[i], calls[j].program)

\* A mutex is locked when a frame holds it.
Holds(f, p) == f.pc \in Holding /\ f.program = p

LockedByFrame == \A p \in Programs : locked[p] <=> \E i \in DOMAIN calls : Holds(calls[i], p)

\* What main has found before it starts a thread or signals a child.
BottomOK(f, t) ==
    /\ f.pc \in {"getmtime", "open"} => "merger" \in Programs
    /\ f.pc \in {"create", "start", "signal"} => f.program \in Programs
    /\ f.pc = "create" => t[f.program] = None
    /\ f.pc = "start" => t[f.program] = "created"
    /\ f.pc = "signal" => t[f.program] # None
    /\ \A p \in Programs : t[p] = "created" => f.pc = "start" /\ f.program = p

MainOK == calls # <<>> /\ Bottom.fn = "main" => BottomOK(Bottom, tpc)

\* The child that lives is the one the thread knows of, or knew of when it was
\* gone with the process.
ChildIsKnown ==
    \A p \in Programs \ unreadable :
      IF tpc[p] = "killed"
      THEN \A c, d \in alive[p] : c = d
      ELSE alive[p] \subseteq CASE tpc[p] = "assign" -> {popened[p]}
                                [] tpc[p] = "read"   -> {handle[p]}
                                [] OTHER             -> {}

AssignsChild == \A p \in Programs : tpc[p] = "assign" => popened[p] \in Pids

ExitedMeansEnded == exited => calls = <<>> /\ \A p \in Programs : Ended(p) \/ tpc[p] = "killed"

SupervisorInv ==
    /\ SupervisorTypeOK
    /\ StackOK
    /\ MutexOrder
    /\ LockedByFrame
    /\ MainOK
    /\ HandleIsSafe
    /\ ChildIsKnown
    /\ AssignsChild
    /\ ExitedMeansEnded

-----------------------------------------------------------------------------
(***************************************************************************)
(* The stack.                                                              *)
(***************************************************************************)

\* The top frame becomes f, the others stay.
Moved(f) ==
    /\ calls # <<>> /\ calls' # <<>>
    /\ calls' \in Seq(FrameType)
    /\ Len(calls') = Len(calls)
    /\ DOMAIN calls' = DOMAIN calls
    /\ calls'[1] = f
    /\ \A i \in DOMAIN calls : i # 1 => calls'[i] = calls[i]

LEMMA GotoMoves ==
  ASSUME calls \in Seq(FrameType), calls # <<>>, NEW pc, NEW q, Goto(pc, q), Frame(Top.fn, pc, q) \in FrameType
  PROVE  Moved(Frame(Top.fn, pc, q))
  BY DEF Goto, Top, Moved, Frame

\* A handler is pushed on the stack.
LEMMA PushMoves ==
  ASSUME calls \in Seq(FrameType), NEW f \in FrameType, calls' = <<f>> \o calls
  PROVE  /\ calls' \in Seq(FrameType)
         /\ Len(calls') = Len(calls) + 1 /\ calls' # <<>>
         /\ DOMAIN calls' = 1 .. Len(calls) + 1
         /\ calls'[1] = f
         /\ \A i \in DOMAIN calls' : i # 1 => i - 1 \in DOMAIN calls /\ calls'[i] = calls[i - 1]
  OBVIOUS

\* Where a call of signalProcess() returns to, and the start of a thread.
MainResumes(p) ==
    IF p = "merger" /\ "writer" \in Programs /\ tpc["writer"] = None
    THEN Frame("main", "create", "writer")
    ELSE Frame("main", "pause", None)

SignalReturns(p) ==
    CASE Top.fn = "main"                    -> MainResumes(p)
      [] Top.fn = "quit" /\ p = "merger"    -> Frame("quit", "signal", "writer")
      [] Top.fn = "quit" /\ p = "writer"    -> Frame("quit", "join", "merger")

LEMMA AfterStartMoves ==
  ASSUME SupervisorInv, calls # <<>>, Top.fn = "main", NEW p, AfterStart(p)
  PROVE  Moved(MainResumes(p))
<1>1. calls \in Seq(FrameType)
  BY DEF SupervisorInv, SupervisorTypeOK
<1>2. Frame("main", "create", "writer") \in FrameType /\ Frame("main", "pause", None) \in FrameType
  BY DEF Frame, FrameType, None
<1> QED
  BY <1>1, <1>2, GotoMoves DEF AfterStart, MainResumes

LEMMA AfterSignalMoves ==
  ASSUME SupervisorInv, calls # <<>>, NEW p \in {"merger", "writer"}, AfterSignal(p)
  PROVE  Moved(SignalReturns(p)) /\ SignalReturns(p) \in FrameType
<1>1. calls \in Seq(FrameType)
  BY DEF SupervisorInv, SupervisorTypeOK
<1>2. /\ Frame("quit", "signal", "writer") \in FrameType /\ Frame("quit", "join", "merger") \in FrameType
      /\ MainResumes(p) \in FrameType
  BY DEF Frame, FrameType, None, MainResumes
<1>3. Top.fn \in {"main", "quit"}
  <2>1. Top \in FrameType
    BY <1>1 DEF Top
  <2> QED
    BY <2>1 DEF FrameType
<1>4. CASE Top.fn = "main"
  BY <1>2, <1>4, AfterStartMoves DEF AfterSignal, SignalReturns
<1>5. CASE Top.fn = "quit"
  BY <1>1, <1>2, <1>5, GotoMoves DEF AfterSignal, SignalReturns
<1> QED
  BY <1>3, <1>4, <1>5

\* The steps that move the top frame, and where to.
LEMMA MainMoves ==
  ASSUME SupervisorInv
  PROVE  /\ Look => Moved(Frame("main", "getmtime", None))
         /\ ReadList => Moved(Frame("main", "open", None))
         /\ NoChange => Moved(Frame("main", "pause", None))
         /\ Changed => Moved(Frame("main", IF tpc["merger"] = None THEN "create" ELSE "signal", "merger"))
         /\ CreateThread => Moved(Frame("main", "start", Top.program))
         /\ StartThread => Moved(MainResumes(Top.program))
         /\ SkipSignal => Moved(SignalReturns(Top.program))
         /\ AcquireMutex => Moved(Frame(Top.fn, "test handle", Top.program))
         /\ TestHandle => Moved(IF handle[Top.program] # None THEN Frame(Top.fn, "send", Top.program)
                                ELSE SignalReturns(Top.program))
         /\ SendSignal => Moved(SignalReturns(Top.program))
         /\ JoinThread => Moved(IF Top.program = "merger" THEN Frame("quit", "join", "writer")
                                ELSE Frame("quit", "exit", None))
<1>1. calls \in Seq(FrameType)
  BY DEF SupervisorInv, SupervisorTypeOK
<1>2. calls # <<>> => Top \in FrameType /\ 1 \in DOMAIN calls
  BY <1>1 DEF Top
<1>3. Look => Moved(Frame("main", "getmtime", None))
  BY <1>1, GotoMoves DEF Look, At, Frame, FrameType, None
<1>4. ReadList => Moved(Frame("main", "open", None))
  BY <1>1, GotoMoves DEF ReadList, At, Frame, FrameType, None
<1>5. NoChange => Moved(Frame("main", "pause", None))
  BY <1>1, GotoMoves DEF NoChange, At, Frame, FrameType, None
<1>6. Changed => Moved(Frame("main", IF tpc["merger"] = None THEN "create" ELSE "signal", "merger"))
  BY <1>1, GotoMoves DEF Changed, At, Frame, FrameType
<1>7. CreateThread => Moved(Frame("main", "start", Top.program))
  BY <1>1, <1>2, GotoMoves DEF CreateThread, At, Frame, FrameType
<1>8. StartThread => Moved(MainResumes(Top.program))
  BY AfterStartMoves DEF StartThread, At
<1>9. ASSUME calls # <<>>, Top.pc \in Holding \cup {"signal"} PROVE Top.program \in {"merger", "writer"}
  BY <1>2, <1>9, ProgramsAssumption DEF SupervisorInv, SupervisorTypeOK, StackOK, Holding, Top
<1>10. SkipSignal => Moved(SignalReturns(Top.program))
  BY <1>9, AfterSignalMoves DEF SkipSignal, At, Holding
<1>11. AcquireMutex => Moved(Frame(Top.fn, "test handle", Top.program))
  BY <1>1, <1>2, GotoMoves DEF AcquireMutex, At, Frame, FrameType
<1>12. TestHandle => Moved(IF handle[Top.program] # None THEN Frame(Top.fn, "send", Top.program)
                           ELSE SignalReturns(Top.program))
  <2>1. SUFFICES ASSUME TestHandle
        PROVE  Moved(IF handle[Top.program] # None THEN Frame(Top.fn, "send", Top.program)
                     ELSE SignalReturns(Top.program))
    OBVIOUS
  <2>2. calls # <<>> /\ Top.pc = "test handle"
    BY <2>1 DEF TestHandle, At
  <2>3. CASE handle[Top.program] # None
    BY <1>1, <1>2, <2>1, <2>2, <2>3, GotoMoves DEF TestHandle, Frame, FrameType
  <2>4. CASE handle[Top.program] = None
    BY <1>9, <2>1, <2>2, <2>4, AfterSignalMoves DEF TestHandle, ReleaseMutex, Holding
  <2> QED
    BY <2>3, <2>4
<1>13. SendSignal => Moved(SignalReturns(Top.program))
  BY <1>9, AfterSignalMoves DEF SendSignal, ReleaseMutex, At, Holding
<1>14. JoinThread => Moved(IF Top.program = "merger" THEN Frame("quit", "join", "writer")
                           ELSE Frame("quit", "exit", None))
  BY <1>1, <1>2, GotoMoves DEF JoinThread, At, Frame, FrameType, None
<1> QED
  BY <1>3, <1>4, <1>5, <1>6, <1>7, <1>8, <1>10, <1>11, <1>12, <1>13, <1>14

-----------------------------------------------------------------------------
(***************************************************************************)
(* Types.                                                                  *)
(***************************************************************************)

ThreadStates == {None, "created", "test", "popen", "assign", "read", "clear", "retry", "ended", "killed"}

\* The type invariant, by the parts that a step can disturb.
ThreadTypes ==
    /\ tpc \in [Programs -> ThreadStates]
    /\ popened \in [Programs -> Pids \cup {None}]
    /\ handle \in [Programs -> Pids \cup {None}]
    /\ alive \in [Programs -> SUBSET Pids]
    /\ \A p \in Programs : tpc[p] = "read" => handle[p] # None

MainTypes ==
    /\ unreadable \subseteq Programs /\ {exited, asked} \subseteq BOOLEAN
    /\ signals \in 0 .. MaxSignals
    /\ locked \in [Programs -> BOOLEAN]

CallTypes ==
    /\ calls \in Seq(FrameType)
    /\ \A i \in DOMAIN calls :
         calls[i].pc \in Holding => calls[i].program \in Programs /\ tpc[calls[i].program] # None

LEMMA TypeParts == SupervisorTypeOK <=> ThreadTypes /\ MainTypes /\ CallTypes
  BY DEF SupervisorTypeOK, ThreadTypes, MainTypes, CallTypes, ThreadStates, Holding

LEMMA TypePartsPrimed == (ThreadTypes /\ MainTypes /\ CallTypes)' => SupervisorTypeOK'
  BY DEF SupervisorTypeOK, ThreadTypes, MainTypes, CallTypes, ThreadStates, Holding

LEMMA TypeInitially == Init => SupervisorTypeOK
<1> SUFFICES ASSUME Init PROVE SupervisorTypeOK
  OBVIOUS
<1>1. ThreadTypes
  BY DEF Init, ThreadTypes, ThreadStates, None
<1>2. MainTypes
  <2>1. unreadable \subseteq Programs /\ locked \in [Programs -> BOOLEAN] /\ exited = FALSE /\ asked = FALSE
    BY DEF Init
  <2>2. signals \in 0 .. MaxSignals
    BY ProgramsAssumption DEF Init
  <2> QED
    BY <2>1, <2>2 DEF MainTypes
<1>3. Frame("main", "pause", None) \in FrameType /\ Frame("main", "create", "writer") \in FrameType
  BY DEF Frame, FrameType, None
<1>4. CallTypes
  <2>1. \E f \in FrameType : calls = <<f>> /\ f.pc \notin Holding
    BY <1>3 DEF Init, Frame, Holding
  <2> QED
    BY <2>1 DEF CallTypes
<1> QED
  BY <1>1, <1>2, <1>4, TypeParts

LEMMA TypeKeptByThreads ==
  ASSUME SupervisorInv, NEW p \in Programs, ThreadNext(p) \/ ChildEnds(p)
  PROVE  SupervisorTypeOK'
<1>1. ThreadTypes /\ MainTypes /\ CallTypes
  BY TypeParts DEF SupervisorInv
<1>2. UNCHANGED mainVars
  BY DEF ThreadNext, LoopTest, PopenStarts, PopenFails, AssignHandle, ReadFails, ChildWaitedFor, ClearHandle,
         Retry, ChildEnds
<1>3. MainTypes'
  BY <1>1, <1>2 DEF MainTypes, mainVars
<1>4. /\ tpc' = [tpc EXCEPT ![p] = tpc'[p]]
      /\ tpc[p] \in {"created", None} => tpc'[p] = tpc[p]
      /\ tpc'[p] \in ThreadStates \ {"created", None} \/ tpc'[p] = tpc[p]
  BY <1>1 DEF ThreadNext, LoopTest, PopenStarts, PopenFails, AssignHandle, ReadFails, ChildWaitedFor, ClearHandle,
         Retry, ChildEnds, threadVars, ThreadTypes, ThreadStates, None
<1>5. CallTypes'
  BY <1>1, <1>2, <1>4 DEF CallTypes, mainVars, ThreadTypes, ThreadStates, None
<1>6. ThreadTypes'
  <2>1. CASE LoopTest(p) \/ PopenFails(p) \/ ReadFails(p) \/ ChildWaitedFor(p) \/ Retry(p)
    BY <1>1, <2>1 DEF LoopTest, PopenFails, ReadFails, ChildWaitedFor, Retry, ThreadTypes, ThreadStates
  <2>2. CASE PopenStarts(p)
    BY <1>1, <2>2 DEF PopenStarts, ThreadTypes, ThreadStates
  <2>3. CASE AssignHandle(p)
    BY <1>1, <2>3, ProgramsAssumption DEF AssignHandle, ThreadTypes, ThreadStates, SupervisorInv, AssignsChild, None
  <2>4. CASE ClearHandle(p)
    BY <1>1, <2>4 DEF ClearHandle, ThreadTypes, ThreadStates
  <2>5. CASE ChildEnds(p)
    BY <1>1, <2>5 DEF ChildEnds, threadVars, ThreadTypes
  <2> QED
    BY <2>1, <2>2, <2>3, <2>4, <2>5 DEF ThreadNext
<1> QED
  BY <1>3, <1>5, <1>6, TypePartsPrimed

\* What has to be shown of a step that moves the top frame.
LEMMA TypeKeptByMoves ==
  ASSUME SupervisorInv, NEW f, Moved(f),
         f.pc \in Holding => f.program \in Programs /\ tpc[f.program] # None,
         UNCHANGED <<unreadable, exited, asked, signals, tpc, popened, handle>>,
         locked' \in [Programs -> BOOLEAN], alive' \in [Programs -> SUBSET Pids]
  PROVE  SupervisorTypeOK'
<1>1. ThreadTypes /\ MainTypes /\ CallTypes
  BY TypeParts DEF SupervisorInv
<1>2. ThreadTypes' /\ MainTypes'
  BY <1>1 DEF ThreadTypes, MainTypes
<1>3. CallTypes'
  BY <1>1 DEF CallTypes, Moved
<1> QED
  BY <1>2, <1>3, TypePartsPrimed

LEMMA ReturnsHoldNothing ==
  ASSUME NEW p \in {"merger", "writer"}, Top.fn \in {"main", "quit"}
  PROVE  SignalReturns(p).pc \notin Holding /\ MainResumes(p).pc \notin Holding
  BY DEF SignalReturns, MainResumes, Frame, Holding

LEMMA TopOK ==
  ASSUME SupervisorInv, calls # <<>>
  PROVE  /\ Top \in FrameType /\ 1 \in DOMAIN calls /\ Len(calls) \in DOMAIN calls
         /\ Top.fn \in {"main", "quit"}
         /\ Top.pc \in Holding \cup {"signal"} => Top.program \in {"merger", "writer"}
         /\ Top.pc \in Holding => Top.program \in Programs /\ tpc[Top.program] # None
         /\ Top.fn = "main" => Len(calls) = 1 /\ Top = Bottom /\ BottomOK(Top, tpc)
<1>1. CallTypes /\ StackOK
  BY TypeParts DEF SupervisorInv
<1>2. 1 \in DOMAIN calls /\ Len(calls) \in DOMAIN calls
  BY <1>1 DEF CallTypes
<1>3. Top \in FrameType
  BY <1>1, <1>2 DEF CallTypes, Top
<1>4. Top.fn \in {"main", "quit"}
  BY <1>3 DEF FrameType
<1>5. Top.pc \in Holding => Top.program \in Programs /\ tpc[Top.program] # None
  BY <1>1, <1>2 DEF CallTypes, Top
<1>6. Top.pc \in Holding \cup {"signal"} => Top.program \in {"merger", "writer"}
  BY <1>1, <1>2, <1>5, ProgramsAssumption DEF StackOK, Top
<1>7. Top.fn = "main" => Len(calls) = 1 /\ Top = Bottom
  BY <1>1, <1>2 DEF StackOK, Top, Bottom
<1>8. Top.fn = "main" => BottomOK(Top, tpc)
  BY <1>7 DEF SupervisorInv, MainOK
<1> QED
  BY <1>2, <1>3, <1>4, <1>5, <1>6, <1>7, <1>8

LEMMA TypeKeptByMain ==
  ASSUME SupervisorInv, MainNext \/ Interrupt
  PROVE  SupervisorTypeOK'
<1>0. ThreadTypes /\ MainTypes /\ CallTypes
  BY TypeParts DEF SupervisorInv
<1>1. CASE Look \/ ReadList \/ NoChange \/ Changed
  <2>1. UNCHANGED <<unreadable, exited, asked, signals, tpc, popened, handle, locked, alive>>
    BY <1>1 DEF Look, ReadList, NoChange, Changed, threadVars
  <2>2. ASSUME NEW pc \in {"getmtime", "open", "pause", "create", "signal"}, NEW q
        PROVE  Frame("main", pc, q).pc \notin Holding
    BY DEF Frame, Holding
  <2>3. \E f : Moved(f) /\ f.pc \notin Holding
    <3>1. CASE Look
      BY <2>2, <3>1, MainMoves
    <3>2. CASE ReadList
      BY <2>2, <3>2, MainMoves
    <3>3. CASE NoChange
      BY <2>2, <3>3, MainMoves
    <3>4. CASE Changed
      BY <2>2, <3>4, MainMoves
    <3> QED
      BY <1>1, <3>1, <3>2, <3>3, <3>4
  <2> QED
    BY <1>0, <2>1, <2>3, TypeKeptByMoves DEF ThreadTypes, MainTypes
<1>2. CASE SkipSignal \/ JoinThread
  <2>1. UNCHANGED <<unreadable, exited, asked, signals, tpc, popened, handle, locked, alive>> /\ calls # <<>>
    BY <1>2 DEF SkipSignal, JoinThread, threadVars, At
  <2>2. SkipSignal => Top.program \in {"merger", "writer"}
    BY <2>1, TopOK DEF SkipSignal, At
  <2>3. \E f : Moved(f) /\ f.pc \notin Holding
    <3>1. CASE SkipSignal
      BY <2>1, <2>2, <3>1, MainMoves, TopOK, ReturnsHoldNothing
    <3>2. ASSUME NEW pc \in {"join", "exit"}, NEW q PROVE Frame("quit", pc, q).pc \notin Holding
      BY DEF Frame, Holding
    <3>3. CASE JoinThread
      BY <3>2, <3>3, MainMoves
    <3> QED
      BY <1>2, <3>1, <3>3
  <2> QED
    BY <1>0, <2>1, <2>3, TypeKeptByMoves DEF ThreadTypes, MainTypes
<1>3. CASE CreateThread \/ StartThread
  <2>1. calls # <<>> /\ Top.fn = "main" /\ Top.program \in Programs /\ tpc[Top.program] \in {None, "created"}
    BY <1>3, TopOK DEF CreateThread, StartThread, At, BottomOK
  <2>2. \E s \in {"created", "test", None} : tpc' = [tpc EXCEPT ![Top.program] = s]
    BY <1>3 DEF CreateThread, StartThread
  <2>3. UNCHANGED <<unreadable, exited, asked, signals, locked, popened, handle, alive>>
    BY <1>3 DEF CreateThread, StartThread
  <2>4. ThreadTypes' /\ MainTypes'
    BY <1>0, <2>1, <2>2, <2>3 DEF ThreadTypes, MainTypes, ThreadStates, None
  <2>5. Top.program \in {"merger", "writer"}
    BY <2>1, ProgramsAssumption
  <2>6. \E f : Moved(f) /\ f.pc \notin Holding
    <3>1. Frame("main", "start", Top.program).pc \notin Holding
      BY DEF Frame, Holding
    <3>2. CASE CreateThread
      BY <3>1, <3>2, MainMoves
    <3>3. CASE StartThread
      BY <2>1, <2>5, <3>3, MainMoves, ReturnsHoldNothing
    <3> QED
      BY <1>3, <3>2, <3>3
  <2>7. Len(calls) = 1
    BY <2>1, TopOK
  <2>8. CallTypes'
    BY <1>0, <2>6, <2>7 DEF CallTypes, Moved
  <2> QED
    BY <2>4, <2>8, TypePartsPrimed
<1>4. CASE AcquireMutex \/ TestHandle \/ SendSignal
  <2>1. calls # <<>> /\ Top.program \in {"merger", "writer"}
    BY <1>4, TopOK DEF AcquireMutex, TestHandle, SendSignal, At, Holding
  <2>2. Top.program \in Programs /\ tpc[Top.program] # None
    BY <1>4, <2>1, TopOK DEF AcquireMutex, TestHandle, SendSignal, At, NoThread, Holding
  <2>3. UNCHANGED <<unreadable, exited, asked, signals, tpc, popened, handle>>
    BY <1>4 DEF AcquireMutex, TestHandle, SendSignal, threadVars
  <2>4. locked' \in [Programs -> BOOLEAN]
    BY <1>0, <1>4, <2>2 DEF AcquireMutex, TestHandle, SendSignal, ReleaseMutex, MainTypes
  <2>5. alive' \in [Programs -> SUBSET Pids]
    <3>1. CASE AcquireMutex \/ TestHandle
      BY <1>0, <3>1 DEF AcquireMutex, TestHandle, ThreadTypes
    <3>2. CASE SendSignal
      BY <1>0, <2>2, <3>2 DEF SendSignal, ThreadTypes
    <3> QED
      BY <1>4, <3>1, <3>2
  <2>6. \E f : Moved(f) /\ (f.pc \in Holding => f.program \in Programs /\ tpc[f.program] # None)
    <3>1. CASE AcquireMutex
      <4> WITNESS Frame(Top.fn, "test handle", Top.program)
      <4> QED
        BY <2>2, <3>1, MainMoves DEF Frame
    <3>2. CASE TestHandle /\ handle[Top.program] # None
      <4> WITNESS Frame(Top.fn, "send", Top.program)
      <4> QED
        BY <2>2, <3>2, MainMoves DEF Frame
    <3>3. CASE SendSignal \/ (TestHandle /\ handle[Top.program] = None)
      <4> WITNESS SignalReturns(Top.program)
      <4> QED
        BY <2>1, <3>3, MainMoves, TopOK, ReturnsHoldNothing
    <3> QED
      BY <1>4, <3>1, <3>2, <3>3
  <2> QED
    BY <2>3, <2>4, <2>5, <2>6, TypeKeptByMoves
<1>5. CASE Interrupt
  <2>1. Frame("quit", "signal", "merger") \in FrameType /\ Frame("quit", "signal", "merger").pc \notin Holding
    BY DEF Frame, FrameType, Holding
  <2>2. CallTypes'
    <3>1. calls \in Seq(FrameType) /\ calls' = <<Frame("quit", "signal", "merger")>> \o calls
      BY <1>0, <1>5 DEF Interrupt, CallTypes
    <3> QED
      BY <1>0, <1>5, <2>1, <3>1, PushMoves DEF Interrupt, CallTypes, threadVars
  <2>3. ThreadTypes'
    BY <1>0, <1>5 DEF Interrupt, threadVars, ThreadTypes
  <2>4. MainTypes'
    BY <1>0, <1>5, ProgramsAssumption DEF Interrupt, MainTypes
  <2> QED
    BY <2>2, <2>3, <2>4, TypePartsPrimed
<1>6. CASE Exit \/ JoinRaises
  <2>1. Frame("main", "pause", None) \in FrameType /\ Frame("main", "create", "writer") \in FrameType
    BY DEF Frame, FrameType, None
  <2>2. calls' = <<>> \/ \E f \in FrameType : calls' = <<f>> /\ f.pc \notin Holding
    BY <1>6, <2>1 DEF Exit, JoinRaises, Frame, Holding
  <2>3. CallTypes'
    <3>1. CASE calls' = <<>>
      BY <3>1 DEF CallTypes
    <3>2. ASSUME NEW f \in FrameType, calls' = <<f>>, f.pc \notin Holding PROVE CallTypes'
      BY <3>2 DEF CallTypes
    <3> QED
      BY <2>2, <3>1, <3>2
  <2>4. MainTypes'
    BY <1>0, <1>6 DEF Exit, JoinRaises, MainTypes
  <2>5. ThreadTypes'
    BY <1>0, <1>6 DEF Exit, JoinRaises, threadVars, ThreadTypes, ThreadStates, None
  <2> QED
    BY <2>3, <2>4, <2>5, TypePartsPrimed
<1>7. CASE ProcessExits
  <2>1. ThreadTypes' /\ MainTypes' /\ CallTypes'
    BY <1>0, <1>7 DEF ProcessExits, threadVars, ThreadTypes, MainTypes, CallTypes
  <2> QED
    BY <2>1, TypePartsPrimed
<1>8. CASE ExitCutsWait
  <2>1. CallTypes'
    BY <1>8 DEF ExitCutsWait, CallTypes
  <2>2. MainTypes'
    BY <1>0, <1>8 DEF ExitCutsWait, MainTypes
  <2>3. tpc' \in [Programs -> ThreadStates] /\ \A p \in Programs : tpc'[p] # "read"
    BY <1>0, <1>8 DEF ExitCutsWait, Ended, ThreadTypes, ThreadStates, None
  <2>4. ThreadTypes'
    BY <1>0, <1>8, <2>3 DEF ExitCutsWait, ThreadTypes
  <2> QED
    BY <2>1, <2>2, <2>4, TypePartsPrimed
<1> QED
  BY <1>1, <1>2, <1>3, <1>4, <1>5, <1>6, <1>7, <1>8 DEF MainNext

-----------------------------------------------------------------------------
(***************************************************************************)
(* The stack and the mutexes.                                              *)
(***************************************************************************)

\* A move of the top frame that leaves the stack in order.
MoveOK(f) ==
    /\ Moved(f)
    /\ f.fn = Top.fn
    /\ f.pc = "signal" => f.program \in {"merger", "writer"}
    /\ f.fn = "quit" => f.pc \in {"signal", "test handle", "send", "join", "exit"}
    /\ f.fn = "quit" /\ f.pc = "join" => f.program \in {"merger", "writer"}
    /\ \A j \in DOMAIN calls : j # 1 /\ calls[j].pc \in Holding => Before(f, calls[j].program)

LEMMA StackKeptByMoves ==
  ASSUME SupervisorInv, NEW f, MoveOK(f)
  PROVE  StackOK' /\ MutexOrder'
<1>1. CallTypes /\ StackOK /\ MutexOrder
  BY TypeParts DEF SupervisorInv
<1>2. Len(calls) \in Nat /\ DOMAIN calls = 1 .. Len(calls)
  BY <1>1 DEF CallTypes
<1>3. StackOK'
  BY <1>1, <1>2 DEF StackOK, MoveOK, Moved, Top
<1>4. MutexOrder'
  <2>1. SUFFICES ASSUME NEW i \in DOMAIN calls, NEW j \in DOMAIN calls, i < j, calls'[j].pc \in Holding
                 PROVE  Before(calls'[i], calls'[j].program)
    BY DEF MutexOrder, MoveOK, Moved, Before
  <2>2. j # 1
    BY <1>2, <2>1
  <2>3. calls'[j] = calls[j] /\ calls[j].pc \in Holding
    BY <2>1, <2>2 DEF MoveOK, Moved
  <2>4. CASE i = 1
    BY <2>1, <2>2, <2>3, <2>4 DEF MoveOK, Moved
  <2>5. CASE i # 1
    BY <1>1, <2>1, <2>3, <2>5 DEF MoveOK, Moved, MutexOrder
  <2> QED
    BY <2>4, <2>5
<1> QED
  BY <1>3, <1>4

\* The frames below the top that hold a mutex.
LEMMA BelowTop ==
  ASSUME SupervisorInv, calls # <<>>, NEW j \in DOMAIN calls, j # 1, calls[j].pc \in Holding
  PROVE  /\ Top.fn = "quit"
         /\ Before(Top, calls[j].program)
         /\ calls[j].program \in Programs /\ tpc[calls[j].program] # None
         /\ calls[j].program \in {"merger", "writer"}
         /\ locked[calls[j].program]
<1>1. CallTypes /\ StackOK /\ MutexOrder /\ LockedByFrame
  BY TypeParts DEF SupervisorInv
<1>2. 1 \in DOMAIN calls /\ 1 < j /\ Len(calls) # 1
  BY <1>1 DEF CallTypes
<1>3. Top.fn = "quit"
  BY <1>2, TopOK
<1>4. Before(Top, calls[j].program)
  BY <1>1, <1>2 DEF MutexOrder, Top
<1>5. calls[j].program \in Programs /\ tpc[calls[j].program] # None
  BY <1>1 DEF CallTypes
<1>6. locked[calls[j].program]
  BY <1>1, <1>5 DEF LockedByFrame, Holds
<1> QED
  BY <1>3, <1>4, <1>5, <1>6, ProgramsAssumption

\* What a returning call of signalProcess() leaves behind, and a call of
\* start(): nothing above a frame that holds the mutex the caller had.
LEMMA ReturnIsOK ==
  ASSUME SupervisorInv, calls # <<>>, Moved(SignalReturns(Top.program)),
         Top.pc \in Holding \/ (Top.pc = "signal" /\ NoThread(Top.program))
  PROVE  MoveOK(SignalReturns(Top.program))
<1> DEFINE p == Top.program
           f == SignalReturns(p)
<1>1. p \in {"merger", "writer"} /\ Top.fn \in {"main", "quit"}
  BY TopOK DEF Holding
<1>2. ASSUME NEW j \in DOMAIN calls, j # 1, calls[j].pc \in Holding
      PROVE  Top.fn = "quit" /\ p = "merger" /\ calls[j].program = "writer"
  <2>1. Top.fn = "quit" /\ Before(Top, calls[j].program)
    BY <1>2, BelowTop
  <2>2. calls[j].program \in {"merger", "writer"} /\ ~NoThread(calls[j].program)
    BY <1>2, BelowTop DEF NoThread
  <2>3. CASE Top.pc \in Holding
    BY <2>1, <2>3 DEF Before, Holding
  <2>4. CASE Top.pc = "signal" /\ NoThread(p)
    BY <2>1, <2>2, <2>4 DEF Before, Holding
  <2> QED
    BY <2>1, <2>3, <2>4
<1>3. CASE Top.fn = "main"
  <2>1. f = MainResumes(p) /\ f.fn = "main" /\ f.pc \in {"create", "pause"}
    BY <1>3 DEF SignalReturns, MainResumes, Frame
  <2> QED
    BY <1>2, <1>3, <2>1 DEF MoveOK
<1>4. CASE Top.fn = "quit" /\ p = "merger"
  <2>1. f.fn = "quit" /\ f.pc = "signal" /\ f.program = "writer"
    BY <1>4 DEF SignalReturns, Frame
  <2>2. Before(f, "writer")
    BY <2>1 DEF Before
  <2> QED
    BY <1>2, <1>4, <2>1, <2>2 DEF MoveOK
<1>5. CASE Top.fn = "quit" /\ p = "writer"
  <2>1. f.fn = "quit" /\ f.pc = "join" /\ f.program = "merger"
    BY <1>5 DEF SignalReturns, Frame
  <2> QED
    BY <1>2, <1>5, <2>1 DEF MoveOK
<1> QED
  BY <1>1, <1>3, <1>4, <1>5

\* The mutexes after a move of the top frame that takes or frees none.
LEMMA LockKeptByMoves ==
  ASSUME SupervisorInv, NEW f, Moved(f), locked' = locked,
         \A p \in Programs : Holds(f, p) <=> Holds(Top, p)
  PROVE  LockedByFrame'
<1>1. LockedByFrame /\ CallTypes
  BY TypeParts DEF SupervisorInv
<1>2. 1 \in DOMAIN calls
  BY <1>1 DEF CallTypes, Moved
<1>3. ASSUME NEW p \in Programs, NEW i \in DOMAIN calls PROVE Holds(calls'[i], p) <=> Holds(calls[i], p)
  BY <1>2 DEF Moved, Top
<1> QED
  BY <1>1, <1>3 DEF LockedByFrame, Moved

\* ... that takes one ...
LEMMA LockTaken ==
  ASSUME SupervisorInv, NEW f, Moved(f), NEW p \in Programs, Holds(f, p), Top.pc \notin Holding,
         locked' = [locked EXCEPT ![p] = TRUE]
  PROVE  LockedByFrame'
<1>1. LockedByFrame /\ CallTypes /\ MainTypes
  BY TypeParts DEF SupervisorInv
<1>2. 1 \in DOMAIN calls
  BY <1>1 DEF CallTypes, Moved
<1>3. locked' [p] /\ Holds(calls'[1], p)
  BY <1>1 DEF MainTypes, Moved
<1>4. ASSUME NEW q \in Programs, q # p, NEW i \in DOMAIN calls PROVE Holds(calls'[i], q) <=> Holds(calls[i], q)
  BY <1>2, <1>4 DEF Moved, Top, Holds
<1>5. \A q \in Programs : q # p => locked'[q] = locked[q]
  BY <1>1 DEF MainTypes
<1> QED
  BY <1>1, <1>2, <1>3, <1>4, <1>5 DEF LockedByFrame, Moved

\* ... and that frees the one it has.
LEMMA LockFreed ==
  ASSUME SupervisorInv, NEW f, Moved(f), f.pc \notin Holding, Top.pc \in Holding,
         locked' = [locked EXCEPT ![Top.program] = FALSE]
  PROVE  LockedByFrame'
<1>1. LockedByFrame /\ CallTypes /\ MainTypes
  BY TypeParts DEF SupervisorInv
<1>2. 1 \in DOMAIN calls /\ calls # <<>>
  BY <1>1 DEF CallTypes, Moved
<1>3. ASSUME NEW i \in DOMAIN calls PROVE ~Holds(calls'[i], Top.program)
  <2>1. CASE i = 1
    BY <2>1 DEF Moved, Holds
  <2>2. CASE i # 1
    <3>1. calls[i].pc \in Holding => Before(Top, calls[i].program)
      BY <1>2, <2>2, BelowTop
    <3> QED
      BY <2>2, <3>1 DEF Moved, Holds, Before, Holding
  <2> QED
    BY <2>1, <2>2
<1>4. ASSUME NEW q \in Programs, q # Top.program, NEW i \in DOMAIN calls
      PROVE  Holds(calls'[i], q) <=> Holds(calls[i], q)
  BY <1>2, <1>4 DEF Moved, Top, Holds
<1>5. \A q \in Programs : IF q = Top.program THEN ~locked'[q] ELSE locked'[q] = locked[q]
  BY <1>1 DEF MainTypes
<1> QED
  BY <1>1, <1>3, <1>4, <1>5 DEF LockedByFrame, Moved

Moves ==
    \/ Look \/ ReadList \/ NoChange \/ Changed \/ CreateThread \/ StartThread
    \/ SkipSignal \/ AcquireMutex \/ TestHandle \/ SendSignal \/ JoinThread

\* A move of the main loop itself, at the bottom of the stack.
LEMMA LoopMoveIsOK ==
  ASSUME SupervisorInv, calls # <<>>, Top.fn = "main", NEW f, Moved(f), f.fn = "main",
         f.pc = "signal" => f.program \in {"merger", "writer"}
  PROVE  MoveOK(f)
<1>1. \A j \in DOMAIN calls : ~(j # 1 /\ calls[j].pc \in Holding)
  BY BelowTop
<1> QED
  BY <1>1 DEF MoveOK

LEMMA StackKeptByMain ==
  ASSUME SupervisorInv, Moves
  PROVE  StackOK' /\ MutexOrder' /\ LockedByFrame'
<1> DEFINE Kept == StackOK' /\ MutexOrder' /\ LockedByFrame'
<1>0. calls # <<>>
  BY DEF Moves, Look, ReadList, NoChange, Changed, CreateThread, StartThread, SkipSignal, AcquireMutex,
         TestHandle, SendSignal, JoinThread, At
<1>1. ASSUME NEW f, MoveOK(f), f.pc \notin Holding, Top.pc \notin Holding, locked' = locked PROVE Kept
  <2>1. \A p \in Programs : Holds(f, p) <=> Holds(Top, p)
    BY <1>1 DEF Holds
  <2> QED
    BY <1>1, <2>1, StackKeptByMoves, LockKeptByMoves DEF MoveOK
<1>2. CASE Look \/ ReadList \/ NoChange \/ Changed \/ CreateThread
  <2>1. ASSUME NEW pc \in {"getmtime", "open", "pause", "create", "start", "signal"}, NEW q,
               pc = "signal" => q = "merger", Moved(Frame("main", pc, q))
        PROVE  Kept
    <3>1. Top.fn = "main" /\ locked' = locked /\ Top.pc \notin Holding
      BY <1>2 DEF Look, ReadList, NoChange, Changed, CreateThread, At, Holding
    <3>2. /\ Frame("main", pc, q).fn = "main" /\ Frame("main", pc, q).pc \notin Holding
          /\ Frame("main", pc, q).pc = "signal" => Frame("main", pc, q).program \in {"merger", "writer"}
      BY <2>1 DEF Frame, Holding
    <3> QED
      BY <1>0, <1>1, <2>1, <3>1, <3>2, LoopMoveIsOK
  <2>2. CASE Look
    BY <2>1, <2>2, MainMoves
  <2>3. CASE ReadList
    BY <2>1, <2>3, MainMoves
  <2>4. CASE NoChange
    BY <2>1, <2>4, MainMoves
  <2>5. CASE Changed
    BY <2>1, <2>5, MainMoves
  <2>6. CASE CreateThread
    BY <2>1, <2>6, MainMoves
  <2> QED
    BY <1>2, <2>2, <2>3, <2>4, <2>5, <2>6
<1>3. CASE StartThread
  <2>1. Top.fn = "main" /\ Top.pc = "start" /\ locked' = locked
    BY <1>3 DEF StartThread, At
  <2>2. MainResumes(Top.program).fn = "main" /\ MainResumes(Top.program).pc \in {"create", "pause"}
    BY DEF MainResumes, Frame
  <2> QED
    BY <1>0, <1>1, <1>3, <2>1, <2>2, LoopMoveIsOK, MainMoves DEF Holding
<1>4. CASE SkipSignal
  <2>1. Top.pc = "signal" /\ NoThread(Top.program) /\ locked' = locked
    BY <1>4 DEF SkipSignal, At
  <2>2. SignalReturns(Top.program).pc \notin Holding
    BY <1>0, <2>1, TopOK, ReturnsHoldNothing
  <2> QED
    BY <1>0, <1>1, <1>4, <2>1, <2>2, MainMoves, ReturnIsOK DEF Holding
<1>5. CASE AcquireMutex
  <2> DEFINE p == Top.program
             f == Frame(Top.fn, "test handle", p)
  <2>1. /\ Top.pc = "signal" /\ ~NoThread(p) /\ ~locked[p]
        /\ locked' = [locked EXCEPT ![p] = TRUE]
    BY <1>5 DEF AcquireMutex, At
  <2>2. p \in Programs /\ p \in {"merger", "writer"}
    BY <1>0, <2>1, TopOK DEF NoThread
  <2>3. ASSUME NEW j \in DOMAIN calls, j # 1, calls[j].pc \in Holding PROVE Before(f, calls[j].program)
    <3>1. Before(Top, calls[j].program) /\ calls[j].program \in {"merger", "writer"} /\ calls[j].program # p
      BY <1>0, <2>1, <2>3, BelowTop
    <3> QED
      BY <2>1, <2>2, <3>1 DEF Before, Frame, Holding
  <2>4. f.fn = Top.fn /\ f.pc = "test handle" /\ f.program = p
    BY DEF Frame
  <2>5. Moved(f)
    BY <1>5, MainMoves
  <2>6. MoveOK(f)
    BY <2>3, <2>4, <2>5 DEF MoveOK
  <2>7. LockedByFrame'
    BY <2>1, <2>2, <2>4, <2>5, LockTaken DEF Holds, Holding
  <2> QED
    BY <2>6, <2>7, StackKeptByMoves
<1>6. CASE TestHandle /\ handle[Top.program] # None
  <2> DEFINE p == Top.program
             f == Frame(Top.fn, "send", p)
  <2>1. Top.pc = "test handle" /\ locked' = locked
    BY <1>6 DEF TestHandle, At
  <2>2. f.fn = Top.fn /\ f.pc = "send" /\ f.program = p
    BY DEF Frame
  <2>3. Moved(f)
    BY <1>6, MainMoves
  <2>4. ASSUME NEW j \in DOMAIN calls, j # 1, calls[j].pc \in Holding PROVE Before(f, calls[j].program)
    <3>1. Before(Top, calls[j].program)
      BY <1>0, <2>4, BelowTop
    <3> QED
      BY <2>1, <2>2, <3>1 DEF Before, Holding
  <2>5. MoveOK(f)
    BY <2>2, <2>3, <2>4 DEF MoveOK
  <2>6. LockedByFrame'
    BY <2>1, <2>2, <2>3, LockKeptByMoves DEF Holds, Holding
  <2> QED
    BY <2>5, <2>6, StackKeptByMoves
<1>7. CASE SendSignal \/ (TestHandle /\ handle[Top.program] = None)
  <2>1. Top.pc \in Holding /\ locked' = [locked EXCEPT ![Top.program] = FALSE]
    BY <1>7 DEF SendSignal, TestHandle, ReleaseMutex, At, Holding
  <2>2. Moved(SignalReturns(Top.program))
    BY <1>7, MainMoves
  <2>3. SignalReturns(Top.program).pc \notin Holding
    BY <1>0, <2>1, TopOK, ReturnsHoldNothing
  <2>4. MoveOK(SignalReturns(Top.program))
    BY <1>0, <2>1, <2>2, ReturnIsOK
  <2>5. LockedByFrame'
    BY <2>1, <2>2, <2>3, LockFreed
  <2> QED
    BY <2>4, <2>5, StackKeptByMoves
<1>8. CASE JoinThread
  <2>1. Top.fn = "quit" /\ Top.pc = "join" /\ locked' = locked
    BY <1>8 DEF JoinThread, At
  <2>2. \A j \in DOMAIN calls : ~(j # 1 /\ calls[j].pc \in Holding)
    BY <1>0, <2>1, BelowTop DEF Before, Holding
  <2>3. ASSUME NEW pc \in {"join", "exit"}, NEW q, pc = "join" => q = "writer", Moved(Frame("quit", pc, q))
        PROVE  Kept
    <3>1. /\ Frame("quit", pc, q).fn = "quit" /\ Frame("quit", pc, q).pc = pc
          /\ Frame("quit", pc, q).program = q
      BY DEF Frame
    <3>2. MoveOK(Frame("quit", pc, q))
      BY <2>1, <2>2, <2>3, <3>1 DEF MoveOK
    <3> QED
      BY <1>1, <2>1, <3>1, <3>2 DEF Holding
  <2> QED
    BY <1>8, <2>3, MainMoves
<1> QED
  BY <1>2, <1>3, <1>4, <1>5, <1>6, <1>7, <1>8 DEF Moves

-----------------------------------------------------------------------------
(***************************************************************************)
(* What main has found, the handles, and the children.                     *)
(***************************************************************************)

\* The rest of the invariant, which relates main to the threads.
Found == MainOK /\ HandleIsSafe /\ ChildIsKnown /\ AssignsChild /\ ExitedMeansEnded

\* A step that leaves the threads alone and moves the top frame.
LEMMA FoundKeptByMoves ==
  ASSUME SupervisorInv, NEW f, Moved(f), Len(calls) = 1 /\ f.fn = "main" => BottomOK(f, tpc),
         f.pc = "send" => handle[f.program] # None,
         UNCHANGED <<unreadable, exited, tpc, popened, handle>>,
         \A p \in Programs : alive'[p] \subseteq alive[p]
  PROVE  Found'
<1>1. CallTypes /\ Found
  BY TypeParts DEF SupervisorInv, Found
<1>2. Len(calls) \in DOMAIN calls /\ Len(calls') = Len(calls)
  BY <1>1 DEF CallTypes, Moved
<1>3. MainOK'
  <2>1. CASE Len(calls) = 1
    BY <1>2, <2>1 DEF Moved, MainOK, Bottom
  <2>2. CASE Len(calls) # 1
    <3>1. Bottom' = Bottom
      BY <1>2, <2>2 DEF Moved, Bottom
    <3> QED
      BY <1>1, <3>1 DEF Found, MainOK, Moved
  <2> QED
    BY <2>1, <2>2
<1>4. HandleIsSafe'
  BY <1>1 DEF Found, HandleIsSafe, Moved
<1>5. ChildIsKnown' /\ AssignsChild'
  BY <1>1 DEF Found, ChildIsKnown, AssignsChild
<1>6. ExitedMeansEnded'
  BY <1>1 DEF Found, ExitedMeansEnded, Moved, Ended
<1> QED
  BY <1>3, <1>4, <1>5, <1>6 DEF Found

\* Where a signal or a start returns to, at the bottom of the stack.
LEMMA ResumesOK ==
  ASSUME NEW p, NEW t, t["writer"] = tpc["writer"], \A q \in Programs : t[q] # "created"
  PROVE  BottomOK(MainResumes(p), t) /\ MainResumes(p).pc # "send"
<1>1. CASE p = "merger" /\ "writer" \in Programs /\ tpc["writer"] = None
  BY <1>1 DEF MainResumes, Frame, BottomOK
<1>2. CASE ~(p = "merger" /\ "writer" \in Programs /\ tpc["writer"] = None)
  BY <1>2 DEF MainResumes, Frame, BottomOK
<1> QED
  BY <1>1, <1>2

LEMMA FoundKeptByMain ==
  ASSUME SupervisorInv, Moves
  PROVE  Found'
<1>0. calls # <<>> /\ (Top.fn = "main" => Top = Bottom /\ Len(calls) = 1 /\ BottomOK(Bottom, tpc))
  <2>1. calls # <<>>
    BY DEF Moves, Look, ReadList, NoChange, Changed, CreateThread, StartThread, SkipSignal, AcquireMutex,
           TestHandle, SendSignal, JoinThread, At
  <2> QED
    BY <2>1, TopOK
<1>1. CallTypes /\ ThreadTypes /\ Found
  BY TypeParts DEF SupervisorInv, Found
<1>2. CASE Look \/ ReadList \/ NoChange \/ Changed
  <2>1. /\ Top = Bottom /\ BottomOK(Bottom, tpc)
        /\ UNCHANGED <<unreadable, exited, tpc, popened, handle, alive>>
    BY <1>0, <1>2 DEF Look, ReadList, NoChange, Changed, At, threadVars
  <2>2. "merger" \in Programs \/ NoChange
    BY <1>0, <1>2, <2>1 DEF Look, ReadList, Changed, At, BottomOK
  <2>3. \A p \in Programs : tpc[p] # "created"
    BY <1>0, <1>2, <2>1 DEF Look, ReadList, NoChange, Changed, At, BottomOK
  <2>4. ASSUME NEW pc \in {"getmtime", "open", "pause", "create", "signal"}, NEW q, Moved(Frame("main", pc, q)),
               pc # "pause" => "merger" \in Programs,
               pc \in {"create", "signal"} => q = "merger" /\ pc = IF tpc["merger"] = None THEN "create" ELSE "signal"
        PROVE  Found'
    <3>1. BottomOK(Frame("main", pc, q), tpc) /\ Frame("main", pc, q).pc # "send"
      BY <2>3, <2>4 DEF BottomOK, Frame
    <3> QED
      BY <2>1, <2>4, <3>1, FoundKeptByMoves
  <2>5. CASE Look
    BY <2>2, <2>4, <2>5, MainMoves DEF Look
  <2>6. CASE ReadList
    BY <2>1, <1>0, <2>4, <2>6, MainMoves DEF ReadList, At, BottomOK
  <2>7. CASE NoChange
    BY <2>4, <2>7, MainMoves
  <2>8. CASE Changed
    BY <2>1, <1>0, <2>4, <2>8, MainMoves DEF Changed, At, BottomOK
  <2> QED
    BY <1>2, <2>5, <2>6, <2>7, <2>8
<1>3. CASE CreateThread \/ StartThread
  <2> DEFINE p == Top.program
  <2>1. /\ Top = Bottom /\ Len(calls) = 1 /\ BottomOK(Bottom, tpc)
        /\ UNCHANGED <<unreadable, exited, popened, handle, alive>>
    BY <1>0, <1>3 DEF CreateThread, StartThread, At
  <2>2. p \in Programs /\ tpc[p] \in {None, "created"} /\ ~exited
    BY <1>0, <1>1, <1>3, <2>1 DEF CreateThread, StartThread, At, BottomOK, Found, ExitedMeansEnded
  <2>3. \E s \in {"created", "test", None} : tpc' = [tpc EXCEPT ![p] = s]
    BY <1>3 DEF CreateThread, StartThread
  <2>4. ChildIsKnown' /\ AssignsChild' /\ ExitedMeansEnded'
    BY <1>1, <2>1, <2>2, <2>3 DEF Found, ChildIsKnown, AssignsChild, ExitedMeansEnded, ThreadTypes, None
  <2>5. \E f : Moved(f) /\ BottomOK(f, tpc') /\ f.pc # "send"
    <3>1. CASE CreateThread
      <4> DEFINE f == Frame("main", "start", p)
      <4>1. \A q \in Programs : tpc[q] # "created"
        BY <1>0, <2>1, <3>1 DEF CreateThread, At, BottomOK
      <4>2. \A q \in Programs : tpc'[q] = IF q = p THEN "created" ELSE tpc[q]
        BY <1>1, <3>1 DEF CreateThread, ThreadTypes
      <4>3. BottomOK(f, tpc') /\ f.pc # "send"
        BY <2>2, <4>1, <4>2 DEF BottomOK, Frame
      <4> QED
        BY <3>1, <4>3, MainMoves
    <3>2. CASE StartThread
      <4>1. \A q \in Programs : tpc[q] = "created" => q = p
        BY <1>0, <2>1, <3>2 DEF StartThread, At, BottomOK
      <4>2. /\ \A q \in Programs : tpc'[q] = tpc[q] \/ (q = p /\ tpc'[q] \in {"test", None})
            /\ p # "writer" => tpc'["writer"] = tpc["writer"]
        BY <1>1, <3>2 DEF StartThread, ThreadTypes
      <4>3. \A q \in Programs : tpc'[q] # "created"
        BY <1>1, <2>2, <3>2, <4>1 DEF StartThread, ThreadTypes, None
      <4>4. BottomOK(MainResumes(p), tpc') /\ MainResumes(p).pc # "send"
        <5>1. CASE p = "writer"
          BY <4>3, <5>1 DEF BottomOK, MainResumes, Frame
        <5>2. CASE p # "writer"
          BY <4>2, <4>3, <5>2, ResumesOK
        <5> QED
          BY <5>1, <5>2
      <4> QED
        BY <3>2, <4>4, MainMoves
    <3> QED
      BY <1>3, <3>1, <3>2
  <2>6. MainOK' /\ HandleIsSafe'
    BY <1>1, <2>1, <2>5 DEF Moved, MainOK, Bottom, HandleIsSafe
  <2> QED
    BY <2>4, <2>6 DEF Found
<1>4. CASE SkipSignal \/ AcquireMutex \/ TestHandle \/ SendSignal
  <2> DEFINE p == Top.program
  <2>1. /\ Top.pc \in Holding \cup {"signal"}
        /\ UNCHANGED <<unreadable, exited, tpc, popened, handle>>
        /\ p \in {"merger", "writer"}
    BY <1>0, <1>4, TopOK DEF SkipSignal, AcquireMutex, TestHandle, SendSignal, At, threadVars, Holding
  <2>2. \A q \in Programs : alive'[q] \subseteq alive[q]
    <3>1. CASE SkipSignal \/ AcquireMutex \/ TestHandle
      BY <3>1 DEF SkipSignal, AcquireMutex, TestHandle
    <3>2. CASE SendSignal
      BY <1>1, <3>2 DEF SendSignal, ThreadTypes
    <3> QED
      BY <1>4, <3>1, <3>2
  <2>3. Top.fn = "main" => \A q \in Programs : tpc[q] # "created"
    BY <1>0, <2>1 DEF BottomOK, Holding
  <2>4. ASSUME Moved(SignalReturns(p)) PROVE Found'
    <3>1. SignalReturns(p).pc # "send"
      BY <1>0, <2>1, TopOK, ReturnsHoldNothing DEF Holding
    <3>2. SignalReturns(p).fn = "main" => BottomOK(SignalReturns(p), tpc)
      <4>1. CASE Top.fn = "main"
        BY <2>3, <4>1, ResumesOK DEF SignalReturns
      <4>2. CASE Top.fn = "quit"
        BY <2>1, <4>2 DEF SignalReturns, Frame
      <4> QED
        BY <1>0, <4>1, <4>2, TopOK
    <3> QED
      BY <2>1, <2>2, <2>4, <3>1, <3>2, FoundKeptByMoves
  <2>5. ASSUME NEW pc \in Holding, pc = "send" => handle[p] # None, Moved(Frame(Top.fn, pc, p)) PROVE Found'
    <3>1. /\ Frame(Top.fn, pc, p).pc = "send" => handle[Frame(Top.fn, pc, p).program] # None
          /\ Frame(Top.fn, pc, p).fn = "main" => BottomOK(Frame(Top.fn, pc, p), tpc)
      BY <2>3, <2>5 DEF Frame, BottomOK, Holding
    <3> QED
      BY <2>1, <2>2, <2>5, <3>1, FoundKeptByMoves
  <2>6. CASE SkipSignal \/ SendSignal \/ (TestHandle /\ handle[p] = None)
    BY <2>4, <2>6, MainMoves
  <2>7. CASE AcquireMutex
    BY <2>5, <2>7, MainMoves DEF Holding
  <2>8. CASE TestHandle /\ handle[p] # None
    BY <2>5, <2>8, MainMoves DEF Holding
  <2> QED
    BY <1>4, <2>6, <2>7, <2>8
<1>5. CASE JoinThread
  <2>1. UNCHANGED <<unreadable, exited, tpc, popened, handle, alive>>
    BY <1>5 DEF JoinThread, threadVars
  <2>2. ASSUME NEW pc \in {"join", "exit"}, NEW q PROVE Frame("quit", pc, q).pc # "send" /\ Frame("quit", pc, q).fn = "quit"
    BY DEF Frame
  <2> QED
    BY <1>5, <2>1, <2>2, MainMoves, FoundKeptByMoves
<1> QED
  BY <1>2, <1>3, <1>4, <1>5 DEF Moves

-----------------------------------------------------------------------------
(***************************************************************************)
(* A handler comes, or ends main.                                          *)
(***************************************************************************)

LEMMA KeptByInterrupt ==
  ASSUME SupervisorInv, Interrupt
  PROVE  SupervisorInv'
<1> DEFINE f == Frame("quit", "signal", "merger")
<1>1. CallTypes /\ StackOK /\ MutexOrder /\ LockedByFrame /\ Found
  BY TypeParts DEF SupervisorInv, Found
<1>2. f \in FrameType /\ f.fn = "quit" /\ f.pc = "signal" /\ f.program = "merger"
  BY DEF Frame, FrameType
<1>3. /\ ~exited /\ calls \in Seq(FrameType) /\ calls' = <<f>> \o calls
      /\ UNCHANGED <<unreadable, exited, locked, tpc, popened, handle, alive>>
  BY <1>1 DEF Interrupt, CallTypes, threadVars
<1>4. /\ Len(calls') = Len(calls) + 1 /\ calls' # <<>>
      /\ DOMAIN calls' = 1 .. Len(calls) + 1 /\ DOMAIN calls = 1 .. Len(calls)
      /\ Len(calls) \in Nat
      /\ calls'[1] = f
      /\ \A i \in DOMAIN calls' : i # 1 => i - 1 \in DOMAIN calls /\ calls'[i] = calls[i - 1]
      /\ \A i \in DOMAIN calls : i + 1 \in DOMAIN calls' /\ calls'[i + 1] = calls[i]
  BY <1>2, <1>3, PushMoves
<1>5. SupervisorTypeOK'
  BY TypeKeptByMain
<1>6. StackOK'
  <2>1. SUFFICES ASSUME NEW i \in DOMAIN calls'
                 PROVE  /\ calls'[i].fn = "main" => i = Len(calls')
                        /\ calls'[i].pc = "signal" => calls'[i].program \in {"merger", "writer"}
                        /\ calls'[i].fn = "quit" => calls'[i].pc \in {"signal", "test handle", "send", "join", "exit"}
                        /\ calls'[i].fn = "quit" /\ calls'[i].pc = "join" => calls'[i].program \in {"merger", "writer"}
    BY DEF StackOK
  <2>2. CASE i = 1
    <3>1. calls'[i] = f
      BY <1>4, <2>2
    <3> QED
      BY <1>2, <3>1
  <2>3. CASE i # 1
    <3>1. i - 1 \in DOMAIN calls /\ calls'[i] = calls[i - 1] /\ (i = Len(calls') <=> i - 1 = Len(calls))
      BY <1>4, <2>1, <2>3
    <3> QED
      BY <1>1, <3>1 DEF StackOK
  <2> QED
    BY <2>2, <2>3
<1>7. MutexOrder'
  <2>1. SUFFICES ASSUME NEW i \in DOMAIN calls', NEW j \in DOMAIN calls', i < j, calls'[j].pc \in Holding
                 PROVE  Before(calls'[i], calls'[j].program)
    BY DEF MutexOrder, Before
  <2>2. CASE i = 1
    BY <1>2, <1>4, <2>2 DEF Before
  <2>3. CASE i # 1
    <3>1. /\ i - 1 \in DOMAIN calls /\ calls'[i] = calls[i - 1]
          /\ j - 1 \in DOMAIN calls /\ calls'[j] = calls[j - 1]
          /\ i - 1 < j - 1
      BY <1>4, <2>1, <2>3
    <3> QED
      BY <1>1, <2>1, <3>1 DEF MutexOrder
  <2> QED
    BY <2>2, <2>3
<1>8. LockedByFrame'
  <2>1. SUFFICES ASSUME NEW p \in Programs
                 PROVE  (\E i \in DOMAIN calls' : Holds(calls'[i], p)) <=> (\E i \in DOMAIN calls : Holds(calls[i], p))
    BY <1>1, <1>3 DEF LockedByFrame
  <2>2. ASSUME NEW i \in DOMAIN calls', Holds(calls'[i], p) PROVE \E k \in DOMAIN calls : Holds(calls[k], p)
    <3>1. i # 1
      BY <1>2, <1>4, <2>2 DEF Holds, Holding
    <3> QED
      BY <1>4, <2>2, <3>1
  <2>3. ASSUME NEW i \in DOMAIN calls, Holds(calls[i], p) PROVE \E k \in DOMAIN calls' : Holds(calls'[k], p)
    BY <1>4, <2>3
  <2> QED
    BY <2>2, <2>3
<1>9. MainOK'
  <2>1. CASE calls = <<>>
    <3>1. Bottom' = f
      BY <1>4, <2>1 DEF Bottom
    <3> QED
      BY <1>2, <3>1 DEF MainOK
  <2>2. CASE calls # <<>>
    <3>1. Len(calls) \in DOMAIN calls
      BY <1>3, <2>2
    <3>2. Bottom' = Bottom
      BY <1>4, <3>1 DEF Bottom
    <3> QED
      BY <1>1, <1>3, <2>2, <3>2 DEF Found, MainOK
  <2> QED
    BY <2>1, <2>2
<1>10. HandleIsSafe'
  <2>1. SUFFICES ASSUME NEW i \in DOMAIN calls', calls'[i].pc = "send" PROVE handle[calls'[i].program] # None
    BY <1>3 DEF HandleIsSafe
  <2>2. i # 1
    BY <1>2, <1>4, <2>1
  <2> QED
    BY <1>1, <1>4, <2>1, <2>2 DEF Found, HandleIsSafe
<1>11. ChildIsKnown' /\ AssignsChild' /\ ExitedMeansEnded'
  BY <1>1, <1>3 DEF Found, ChildIsKnown, AssignsChild, ExitedMeansEnded
<1> QED
  BY <1>5, <1>6, <1>7, <1>8, <1>9, <1>10, <1>11 DEF SupervisorInv

\* An exception of the handler comes where it waits or exits, and then no frame
\* holds a mutex.
LEMMA NoneHeldAtEnd ==
  ASSUME SupervisorInv, calls # <<>>, Top.fn = "quit", Top.pc \in {"join", "exit"}
  PROVE  \A p \in Programs : ~locked[p]
<1>1. ASSUME NEW j \in DOMAIN calls PROVE calls[j].pc \notin Holding
  <2>1. CASE j = 1
    BY <2>1 DEF Top, Holding
  <2>2. CASE j # 1
    BY <2>2, BelowTop DEF Before, Holding
  <2> QED
    BY <2>1, <2>2
<1> QED
  BY <1>1 DEF SupervisorInv, LockedByFrame, Holds

\* It leaves one frame of main at most.
LEMMA KeptByExceptions ==
  ASSUME SupervisorInv, Exit \/ JoinRaises
  PROVE  SupervisorInv'
<1>1. CallTypes /\ ThreadTypes /\ MainTypes /\ StackOK /\ MutexOrder /\ LockedByFrame /\ Found
  BY TypeParts DEF SupervisorInv, Found
<1>2. calls # <<>> /\ Top.fn = "quit" /\ Top.pc \in {"join", "exit"} /\ UNCHANGED <<exited, locked, handle, popened, unreadable, alive>>
  BY DEF Exit, JoinRaises, At, threadVars
<1>3. BottomOK(Bottom, tpc) /\ ~exited
  <2>1. Len(calls) \in DOMAIN calls /\ Bottom \in FrameType
    BY <1>1, <1>2, TopOK DEF Bottom, CallTypes
  <2>2. Bottom.fn = "quit" => Bottom.pc # "start"
    BY <1>1, <2>1 DEF StackOK, Bottom
  <2>3. Bottom.fn = "main"
    BY <2>1, <2>2 DEF Exit, JoinRaises, FrameType
  <2> QED
    BY <1>1, <1>2, <2>3 DEF Found, MainOK, ExitedMeansEnded
<1>4. \A p \in Programs : ~locked'[p]
  BY <1>2, NoneHeldAtEnd
<1>5. /\ tpc' \in [Programs -> ThreadStates]
      /\ \A p \in Programs : tpc'[p] # tpc[p] => tpc[p] = "created" /\ tpc'[p] = None
      /\ JoinRaises => \A p \in Programs : tpc'[p] # "created"
  <2>1. CASE Exit
    BY <1>1, <2>1 DEF Exit, threadVars, ThreadTypes, JoinRaises, At
  <2>2. CASE JoinRaises
    <3>1. Top.program \in Programs /\ tpc[Top.program] = "created"
      BY <1>1, <1>2, <2>2, TopOK DEF JoinRaises, NoThread
    <3>2. Bottom.program = Top.program /\ tpc' = [tpc EXCEPT ![Bottom.program] = None]
      BY <1>3, <2>2, <3>1 DEF BottomOK, JoinRaises
    <3> QED
      BY <1>1, <1>3, <3>1, <3>2 DEF ThreadTypes, ThreadStates, BottomOK, None
  <2> QED
    BY <2>1, <2>2
<1>6. \/ calls' = <<>>
      \/ \E f \in FrameType : /\ calls' = <<f>> /\ f.fn = "main" /\ f.pc \in {"pause", "create"}
                              /\ BottomOK(f, tpc')
  <2>1. CASE Exit
    <3>1. CASE Bottom.pc \in {"getmtime", "open"}
      <4>1. BottomOK(Frame("main", "pause", None), tpc')
        BY <1>3, <2>1, <3>1 DEF Exit, threadVars, BottomOK, Frame
      <4> QED
        BY <2>1, <3>1, <4>1 DEF Exit, Frame, FrameType, None
    <3>2. CASE Bottom.pc \notin {"getmtime", "open"}
      BY <2>1, <3>2 DEF Exit
    <3> QED
      BY <3>1, <3>2
  <2>2. CASE JoinRaises
    <3>1. ASSUME Bottom.program = "merger" /\ "writer" \in Programs /\ tpc["writer"] = None
          PROVE  BottomOK(Frame("main", "create", "writer"), tpc')
      BY <1>5, <2>2, <3>1 DEF BottomOK, Frame, None
    <3>2. BottomOK(Frame("main", "pause", None), tpc')
      BY <1>5, <2>2 DEF BottomOK, Frame
    <3>3. calls' = <<MainResumes(Bottom.program)>>
      BY <2>2 DEF JoinRaises, MainResumes
    <3>4. BottomOK(MainResumes(Bottom.program), tpc')
      BY <3>1, <3>2 DEF MainResumes
    <3>5. MainResumes(Bottom.program) \in FrameType /\ MainResumes(Bottom.program).fn = "main"
          /\ MainResumes(Bottom.program).pc \in {"pause", "create"}
      BY DEF MainResumes, Frame, FrameType, None
    <3> QED
      BY <3>3, <3>4, <3>5
  <2> QED
    BY <2>1, <2>2
<1>7. SupervisorTypeOK'
  BY TypeKeptByMain DEF MainNext
<1>8. ChildIsKnown' /\ AssignsChild' /\ ExitedMeansEnded'
  BY <1>1, <1>2, <1>3, <1>5 DEF Found, ChildIsKnown, AssignsChild, ExitedMeansEnded, None
<1>9. CASE calls' = <<>>
  <2>1. StackOK' /\ MutexOrder' /\ LockedByFrame' /\ MainOK' /\ HandleIsSafe'
    BY <1>4, <1>9 DEF StackOK, MutexOrder, LockedByFrame, MainOK, HandleIsSafe
  <2> QED
    BY <1>7, <1>8, <2>1 DEF SupervisorInv
<1>10. ASSUME NEW f \in FrameType, calls' = <<f>>, f.fn = "main", f.pc \in {"pause", "create"}, BottomOK(f, tpc')
       PROVE  SupervisorInv'
  <2>0. Len(calls') = 1 /\ DOMAIN calls' = {1} /\ calls'[1] = f
    BY <1>10
  <2>1. StackOK' /\ MutexOrder'
    BY <1>10, <2>0 DEF StackOK, MutexOrder, Holding
  <2>2. LockedByFrame' /\ HandleIsSafe'
    BY <1>4, <1>10, <2>0 DEF LockedByFrame, Holds, Holding, HandleIsSafe
  <2>3. MainOK'
    BY <1>10 DEF MainOK, Bottom
  <2> QED
    BY <1>7, <1>8, <2>1, <2>2, <2>3 DEF SupervisorInv
<1> QED
  BY <1>6, <1>9, <1>10

-----------------------------------------------------------------------------
(***************************************************************************)
(* The process exits, a thread runs, a child ends.                         *)
(***************************************************************************)

\* A handler ends the wait for the threads.
LEMMA KeptByCut ==
  ASSUME SupervisorInv, ExitCutsWait
  PROVE  SupervisorInv'
<1>1. /\ calls # <<>> /\ Top.fn = "quit" /\ Top.pc = "exit" /\ calls' = <<>>
      /\ UNCHANGED <<unreadable, locked, popened, handle, alive>>
      /\ tpc' = [p \in Programs |-> IF Ended(p) THEN tpc[p] ELSE "killed"]
  BY DEF ExitCutsWait, At
<1>2. SupervisorTypeOK'
  BY TypeKeptByMain DEF MainNext
<1>3. \A p \in Programs : ~locked'[p]
  BY <1>1, NoneHeldAtEnd
<1>4. StackOK' /\ MutexOrder' /\ LockedByFrame' /\ MainOK' /\ HandleIsSafe'
  BY <1>1, <1>3 DEF StackOK, MutexOrder, LockedByFrame, MainOK, HandleIsSafe
<1>5. AssignsChild' /\ ExitedMeansEnded'
  BY <1>1 DEF AssignsChild, ExitedMeansEnded, Ended, None
<1>6. ChildIsKnown'
  <2>1. SUFFICES ASSUME NEW p \in Programs, p \notin unreadable
                 PROVE  IF tpc'[p] = "killed" THEN \A c, d \in alive[p] : c = d
                        ELSE tpc'[p] \in {None, "created", "ended"} /\ alive[p] = {}
    BY <1>1 DEF ChildIsKnown, None
  <2>2. CASE Ended(p)
    BY <1>1, <2>1, <2>2 DEF SupervisorInv, ChildIsKnown, Ended, None
  <2>3. CASE ~Ended(p)
    BY <1>1, <2>1, <2>3 DEF SupervisorInv, ChildIsKnown
  <2> QED
    BY <2>2, <2>3
<1> QED
  BY <1>2, <1>4, <1>5, <1>6 DEF SupervisorInv

LEMMA KeptByExit ==
  ASSUME SupervisorInv, ProcessExits
  PROVE  SupervisorInv'
<1>1. SupervisorTypeOK'
  BY TypeKeptByMain DEF MainNext
<1>2. UNCHANGED <<unreadable, calls, locked, tpc, popened, handle, alive>>
  BY DEF ProcessExits, threadVars
<1>3. StackOK' /\ MutexOrder' /\ LockedByFrame' /\ MainOK' /\ HandleIsSafe' /\ ChildIsKnown' /\ AssignsChild'
  BY <1>2 DEF SupervisorInv, StackOK, MutexOrder, LockedByFrame, MainOK, Bottom, HandleIsSafe, ChildIsKnown,
         AssignsChild
<1>4. ExitedMeansEnded'
  BY DEF ProcessExits, ExitedMeansEnded, Ended, threadVars
<1> QED
  BY <1>1, <1>3, <1>4 DEF SupervisorInv

LEMMA KeptByThreads ==
  ASSUME SupervisorInv, NEW p \in Programs, ThreadNext(p) \/ ChildEnds(p)
  PROVE  SupervisorInv'
<1>1. CallTypes /\ ThreadTypes /\ MainTypes /\ LockedByFrame /\ Found
  BY TypeParts DEF SupervisorInv, Found
<1>2. SupervisorTypeOK'
  BY TypeKeptByThreads
<1>3. UNCHANGED <<unreadable, calls, exited, locked>>
  BY DEF ThreadNext, LoopTest, PopenStarts, PopenFails, AssignHandle, ReadFails, ChildWaitedFor, ClearHandle,
         Retry, ChildEnds, mainVars
<1>4. StackOK' /\ MutexOrder' /\ LockedByFrame'
  BY <1>3 DEF SupervisorInv, StackOK, MutexOrder, LockedByFrame
<1>5. /\ tpc' = [tpc EXCEPT ![p] = tpc'[p]]
      /\ tpc[p] \in {"created", None, "ended", "killed"} => tpc'[p] = tpc[p]
      /\ tpc'[p] \in ThreadStates \ {"created", None} \/ tpc'[p] = tpc[p]
  BY <1>1 DEF ThreadNext, LoopTest, PopenStarts, PopenFails, AssignHandle, ReadFails, ChildWaitedFor, ClearHandle,
         Retry, ChildEnds, threadVars, ThreadTypes, ThreadStates, None
<1>6. MainOK'
  <2>1. ASSUME NEW q \in Programs
        PROVE  (tpc'[q] = None <=> tpc[q] = None) /\ (tpc'[q] = "created" <=> tpc[q] = "created")
    BY <1>1, <1>5 DEF ThreadTypes, ThreadStates, None
  <2>2. calls # <<>> /\ Bottom.fn = "main" => BottomOK(Bottom, tpc)
    BY <1>1 DEF Found, MainOK
  <2>3. calls # <<>> /\ Bottom.fn = "main" => BottomOK(Bottom, tpc')
    BY <2>1, <2>2 DEF BottomOK
  <2>4. Bottom' = Bottom
    BY <1>3 DEF Bottom
  <2> QED
    BY <1>3, <2>3, <2>4 DEF MainOK
<1>7. ExitedMeansEnded'
  <2>1. \A q \in Programs : Ended(q) \/ tpc[q] = "killed" => Ended(q)' \/ tpc'[q] = "killed"
    BY <1>1, <1>5 DEF Ended, ThreadTypes
  <2> QED
    BY <1>1, <1>3, <2>1 DEF Found, ExitedMeansEnded
<1>8. HandleIsSafe'
  <2>1. SUFFICES ASSUME NEW i \in DOMAIN calls, calls[i].pc = "send" PROVE handle'[calls[i].program] # None
    BY <1>3 DEF HandleIsSafe
  <2>2. handle[calls[i].program] # None /\ calls[i].program \in Programs
    BY <1>1, <2>1 DEF Found, HandleIsSafe, CallTypes, Holding
  <2>3. CASE ClearHandle(p)
    <3>1. calls[i].program # p
      BY <1>1, <2>1, <2>3 DEF ClearHandle, LockedByFrame, Holds, Holding
    <3> QED
      BY <1>1, <2>2, <2>3, <3>1 DEF ClearHandle, ThreadTypes
  <2>4. CASE AssignHandle(p)
    BY <1>1, <2>2, <2>4, ProgramsAssumption DEF AssignHandle, ThreadTypes, Found, AssignsChild, None
  <2>5. CASE ~ClearHandle(p) /\ ~AssignHandle(p)
    <3>1. handle' = handle
      BY <2>5 DEF ThreadNext, LoopTest, PopenStarts, PopenFails, ReadFails, ChildWaitedFor, Retry, ChildEnds, threadVars
    <3> QED
      BY <2>2, <3>1
  <2> QED
    BY <2>3, <2>4, <2>5
<1>9. AssignsChild'
  <2>1. CASE PopenStarts(p)
    BY <1>1, <2>1 DEF PopenStarts, ThreadTypes, Found, AssignsChild
  <2>2. CASE ~PopenStarts(p)
    <3>1. /\ \A q \in Programs : tpc'[q] = "assign" => tpc[q] = "assign" /\ popened'[q] = popened[q]
      BY <1>1, <2>2 DEF ThreadNext, LoopTest, PopenFails, AssignHandle, ReadFails, ChildWaitedFor, ClearHandle,
             Retry, ChildEnds, threadVars, ThreadTypes, None
    <3> QED
      BY <1>1, <3>1 DEF Found, AssignsChild
  <2> QED
    BY <2>1, <2>2
<1>10. ChildIsKnown'
  <2> DEFINE Known(q) == IF tpc[q] = "killed" THEN \A c, d \in alive[q] : c = d
                         ELSE alive[q] \subseteq CASE tpc[q] = "assign" -> {popened[q]}
                                                   [] tpc[q] = "read"   -> {handle[q]}
                                                   [] OTHER             -> {}
  <2>1. SUFFICES ASSUME NEW q \in Programs, q \notin unreadable PROVE Known(q)'
    BY <1>3 DEF ChildIsKnown
  <2>2. Known(q)
    BY <1>1, <2>1 DEF Found, ChildIsKnown
  <2>3. CASE q # p
    <3>1. UNCHANGED <<tpc[q], popened[q], handle[q], alive[q]>>
      BY <1>1, <2>3 DEF ThreadNext, LoopTest, PopenStarts, PopenFails, AssignHandle, ReadFails, ChildWaitedFor,
             ClearHandle, Retry, ChildEnds, threadVars, ThreadTypes
    <3> QED
      BY <2>2, <3>1
  <2>4. CASE q = p
    <3>1. CASE LoopTest(p) \/ PopenFails(p) \/ Retry(p) \/ ClearHandle(p)
      BY <2>2, <2>4, <3>1 DEF LoopTest, PopenFails, Retry, ClearHandle, None
    <3>2. CASE PopenStarts(p)
      BY <1>1, <2>2, <2>4, <3>2 DEF PopenStarts, ThreadTypes
    <3>3. CASE AssignHandle(p)
      BY <1>1, <2>2, <2>4, <3>3 DEF AssignHandle, ThreadTypes
    <3>4. CASE ReadFails(p)
      BY <2>1, <2>4, <3>4 DEF ReadFails
    <3>5. CASE ChildWaitedFor(p)
      BY <2>2, <2>4, <3>5 DEF ChildWaitedFor
    <3>6. CASE ChildEnds(p)
      BY <1>1, <2>2, <2>4, <3>6 DEF ChildEnds, threadVars, ThreadTypes
    <3> QED
      BY <3>1, <3>2, <3>3, <3>4, <3>5, <3>6 DEF ThreadNext
  <2> QED
    BY <2>3, <2>4
<1> QED
  BY <1>2, <1>4, <1>6, <1>7, <1>8, <1>9, <1>10 DEF SupervisorInv

-----------------------------------------------------------------------------
(***************************************************************************)
(* The invariant, and what follows from it.                                *)
(***************************************************************************)

LEMMA Initially == Init => SupervisorInv
<1> SUFFICES ASSUME Init PROVE SupervisorInv
  OBVIOUS
<1>1. SupervisorTypeOK
  BY TypeInitially
<1>2. \E f \in FrameType : /\ calls = <<f>> /\ f.fn = "main" /\ f.pc \in {"pause", "create"}
                           /\ f.pc = "create" => f.program \in Programs
  <2>1. CASE "merger" \in Programs
    <3> DEFINE f == Frame("main", "pause", None)
    <3>1. f \in FrameType /\ f.fn = "main" /\ f.pc = "pause"
      BY DEF Frame, FrameType, None
    <3> QED
      BY <2>1, <3>1 DEF Init
  <2>2. CASE "merger" \notin Programs
    <3> DEFINE f == Frame("main", "create", "writer")
    <3>1. "writer" \in Programs
      BY <2>2, ProgramsAssumption
    <3>2. f \in FrameType /\ f.fn = "main" /\ f.pc = "create" /\ f.program = "writer"
      BY DEF Frame, FrameType
    <3> QED
      BY <2>2, <3>1, <3>2 DEF Init
  <2> QED
    BY <2>1, <2>2
<1>3. /\ tpc = [p \in Programs |-> None] /\ locked = [p \in Programs |-> FALSE]
      /\ alive = [p \in Programs |-> {}] /\ exited = FALSE
  BY DEF Init
<1>4. ASSUME NEW f \in FrameType, calls = <<f>>, f.fn = "main", f.pc \in {"pause", "create"},
             f.pc = "create" => f.program \in Programs
      PROVE  SupervisorInv
  <2>1. Len(calls) = 1 /\ DOMAIN calls = {1} /\ calls[1] = f
    BY <1>4
  <2>2. StackOK /\ MutexOrder
    BY <1>4, <2>1 DEF StackOK, MutexOrder, Holding
  <2>3. LockedByFrame /\ HandleIsSafe
    BY <1>3, <1>4, <2>1 DEF LockedByFrame, Holds, Holding, HandleIsSafe
  <2>4. MainOK
    BY <1>3, <1>4, <2>1 DEF MainOK, Bottom, BottomOK, None
  <2>5. ChildIsKnown /\ AssignsChild /\ ExitedMeansEnded
    BY <1>3 DEF ChildIsKnown, AssignsChild, ExitedMeansEnded, None
  <2> QED
    BY <1>1, <2>2, <2>3, <2>4, <2>5 DEF SupervisorInv
<1> QED
  BY <1>2, <1>4

LEMMA InvariantIsInductive == SupervisorInv /\ [Next]_vars => SupervisorInv'
<1> SUFFICES ASSUME SupervisorInv, [Next]_vars PROVE SupervisorInv'
  OBVIOUS
<1>1. CASE Moves
  BY <1>1, TypeKeptByMain, StackKeptByMain, FoundKeptByMain DEF Moves, MainNext, Found, SupervisorInv
<1>2. CASE Exit \/ JoinRaises
  BY <1>2, KeptByExceptions
<1>3. CASE ProcessExits \/ ExitCutsWait
  BY <1>3, KeptByExit, KeptByCut
<1>4. CASE Interrupt
  BY <1>4, KeptByInterrupt
<1>5. CASE \E p \in Programs : ThreadNext(p) \/ ChildEnds(p)
  BY <1>5, KeptByThreads
<1>6. CASE UNCHANGED vars
  <2>1. UNCHANGED <<unreadable, calls, exited, asked, signals, tpc, popened, handle, locked, alive>>
    BY <1>6 DEF vars, mainVars, threadVars
  <2>2. SupervisorTypeOK'
    BY <2>1 DEF SupervisorInv, SupervisorTypeOK
  <2>3. StackOK' /\ MutexOrder' /\ LockedByFrame' /\ MainOK' /\ HandleIsSafe'
    BY <2>1 DEF SupervisorInv, StackOK, MutexOrder, LockedByFrame, MainOK, Bottom, HandleIsSafe
  <2>4. ChildIsKnown' /\ AssignsChild' /\ ExitedMeansEnded'
    BY <2>1 DEF SupervisorInv, ChildIsKnown, AssignsChild, ExitedMeansEnded, Ended
  <2> QED
    BY <2>2, <2>3, <2>4 DEF SupervisorInv
<1> QED
  BY <1>1, <1>2, <1>3, <1>4, <1>5, <1>6 DEF Next, MainNext, Moves

THEOREM SupervisorInvariant == Spec => []SupervisorInv
  BY Initially, InvariantIsInductive, PTL DEF Spec

\* All that is promised follows from the invariant.
LEMMA InvariantSuffices ==
  ASSUME SupervisorInv
  PROVE  SupervisorTypeOK /\ HandleIsSafe /\ NoMutexIsLeft /\ OneChildAtATime /\ ExitLeavesNoChild
<1>1. SupervisorTypeOK /\ HandleIsSafe
  BY DEF SupervisorInv
<1>2. NoMutexIsLeft
  <2> SUFFICES ASSUME NEW p \in Programs
               PROVE  (locked[p] <=> Holders(p) # {}) /\ \A i, j \in Holders(p) : i = j
    BY DEF NoMutexIsLeft
  <2>1. CallTypes /\ LockedByFrame /\ MutexOrder
    BY TypeParts DEF SupervisorInv
  <2>2. locked[p] <=> Holders(p) # {}
    BY <2>1 DEF LockedByFrame, Holds, Holders, Holding
  <2>3. ASSUME NEW i \in Holders(p), NEW j \in Holders(p) PROVE ~(i < j)
    BY <2>1 DEF Holders, MutexOrder, Before, Holding
  <2>4. \A i \in Holders(p) : i \in Nat
    <3>1. DOMAIN calls \subseteq Nat
      BY <2>1 DEF CallTypes
    <3> QED
      BY <3>1 DEF Holders
  <2> QED
    BY <2>2, <2>3, <2>4
<1>3. OneChildAtATime
  BY DEF SupervisorInv, OneChildAtATime, ChildIsKnown
<1>4. ExitLeavesNoChild
  BY DEF SupervisorInv, ExitLeavesNoChild, ExitedMeansEnded, Ended, ChildIsKnown, None
<1> QED
  BY <1>1, <1>2, <1>3, <1>4

\* run() and signalProcess() find objects where they use them, however often
\* the handler interrupts main (bsasManager.py:753-866, 489-552).
THEOREM SupervisorTypesAlways == Spec => []SupervisorTypeOK
  BY SupervisorInvariant, InvariantSuffices, PTL

\* _processHandle is not reset between its test and its use in
\* signalProcess() (bsasManager.py:846-866).
THEOREM HandleIsSafeAlways == Spec => []HandleIsSafe
  BY SupervisorInvariant, InvariantSuffices, PTL

\* A mutex is locked if and only if a frame of main, and only one, is between
\* its acquire() and its release(), whichever exceptions end the frames; it is
\* not said that the frame comes to release it (bsasManager.py:846-866).
THEOREM NoMutexIsLeftAlways == Spec => []NoMutexIsLeft
  BY SupervisorInvariant, InvariantSuffices, PTL

\* A program of which the output can be read runs once at a time
\* (bsasManager.py:753-844).
THEOREM OneChildAtATimeAlways == Spec => []OneChildAtATime
  BY SupervisorInvariant, InvariantSuffices, PTL

\* Nothing the manager started, and can read from, outlives it, but for the
\* child of a thread that was still running when a signal ended the wait for
\* it (bsasManager.py:489-552, 753-844).
THEOREM ExitLeavesNoChildAlways == Spec => []ExitLeavesNoChild
  BY SupervisorInvariant, InvariantSuffices, PTL
=============================================================================
