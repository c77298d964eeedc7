------------------------------- MODULE Merger -------------------------------
(***************************************************************************)
(* The merger process: main() of mergerApp/src/mergerMain.cpp, the two     *)
(* threads it starts, the client library that feeds one of them, and the   *)
(* way it ends: when one thread dies, main closes the output PV, asks the  *)
(* other thread to stop, and returns, which destroys both objects.  It     *)
(* begins with the command line, which the constants Period, Timeout and   *)
(* PVList stand for from then on.                                          *)
(***************************************************************************)
EXTENDS Reactor, Listener, ClippInterface

CONSTANTS
    CommandLines,   \* what the program may be started with, see Clipp
    Numerals        \* the value of the pieces that are digits, in ticks

VARIABLES
    argv,   \* the command line
    mpc,    \* where main() is
    first,  \* the thread whose death it waited for
    gone    \* the objects whose members are destroyed

mainVars == <<mpc, first, gone>>

mergerVars == <<argv, mainVars, listenerVars, reactorVars, runnableVars, tableVars>>

NoThread == "none"

Init ==
    /\ TableInit
    /\ RunnableInit
    /\ ReactorInit
    /\ ListenerInit
    /\ argv \in CommandLines
    /\ mpc = "start"
    /\ first = NoThread
    /\ gone = {}

-----------------------------------------------------------------------------
(***************************************************************************)
(* The command line.                                                       *)
(***************************************************************************)

MergerInterface ==
    (Required("--pvlist")       & Value("pvlist")) ++
    (Required("--period-sec")   & Value("period_sec")) ++
    (Option("--timeout-sec")    & Value("timeout_sec")) ++
    (Required("--pvname")       & Value("pvname")) ++
    (Option("--label-sep")      & Value("label_sep")) ++
    (Option("--column-sep")     & Value("col_sep"))

Cli == INSTANCE Clipp WITH Interface <- MergerInterface

PeriodOf(parser) == Cli!Number(Cli!Setting(parser, "period_sec", <<>>))
TimeoutOf(parser) == Cli!Number(Cli!Setting(parser, "timeout_sec", <<>>))

\* The parse fails, or one of the VALIDATE_ARGs.
IsRefused(parser) ==
    \/ Cli!AnyError(parser)
    \/ PeriodOf(parser) <= 0
    \/ TimeoutOf(parser) < 0
    \/ TimeoutOf(parser) > 0 /\ TimeoutOf(parser) < PeriodOf(parser)

\* The assertion in the constructor of Reactor: epicsAssert suspends main.
AssertionFails(parser) == TimeoutOf(parser) # 0 /\ TimeoutOf(parser) <= PeriodOf(parser)

\* A merger with other limits is another instance of this module.
StartsWith(parser) ==
    CASE IsRefused(parser) -> "usage"
      [] ~IsRefused(parser) /\ AssertionFails(parser) -> "asserted"
      [] PeriodOf(parser) = Period /\ TimeoutOf(parser) = Timeout -> "wait"
      [] OTHER -> "other"

\* main up to the start of the threads, or its early end.
ReadCommandLine ==
    /\ mpc = "start"
    /\ mpc' = StartsWith(Cli!Parsed(argv))
    /\ argv' = <<>>
    /\ UNCHANGED <<first, gone, listenerVars, reactorVars, runnableVars, tableVars>>

-----------------------------------------------------------------------------
\* dead_queue->pop() waits for the first thread to die.
WaitForDeath ==
    /\ mpc = "wait"
    /\ dead # <<>>
    /\ first' = Head(dead)
    /\ dead' = Tail(dead)
    /\ mpc' = "close"
    /\ UNCHANGED <<gone, running, listenerVars, reactorVars, tableVars>>

\* pv.close(); server.stop().
ClosePV ==
    /\ mpc = "close"
    /\ pv_' = [open |-> FALSE, table |-> pv_.table]
    /\ mpc' = "stop listener"
    /\ UNCHANGED <<first, gone, rpc, bounds, value, listenerVars, runnableVars, tableVars>>

\* Listener::stop() clears running_ ...
StopListener ==
    /\ mpc = "stop listener"
    /\ IF first = "listener"
       THEN mpc' = "stop reactor" /\ UNCHANGED running
       ELSE mpc' = "pump" /\ running' = [running EXCEPT !["listener"] = FALSE]
    /\ UNCHANGED <<first, gone, dead, listenerVars, reactorVars, tableVars>>

\* Mutant: the stop token is forgotten.
NoStopToken ==
    /\ mpc = "pump"
    /\ mpc' = "stop reactor"
    /\ UNCHANGED <<first, gone, listenerVars, reactorVars, runnableVars, tableVars>>

\* ... and puts the stop token into the queue.  Runnable::stop() then finds
\* running_ cleared already, and does not wait for the thread.
PumpQueue ==
    /\ mpc = "pump"
    /\ Len(queue) < QueueSize
    /\ queue' = Append(queue, StopToken)
    /\ mpc' = "stop reactor"
    /\ UNCHANGED <<first, gone, subs, notifying, lpc, item, reactorVars, runnableVars, tableVars>>

\* Runnable::stop() of the reactor: clear running_, if it is not dead yet.
StopReactor ==
    /\ mpc = "stop reactor"
    /\ IF first # "reactor" /\ running["reactor"]
       THEN mpc' = "wait for reactor" /\ running' = [running EXCEPT !["reactor"] = FALSE]
       ELSE mpc' = "destroy reactor" /\ UNCHANGED running
    /\ UNCHANGED <<first, gone, dead, listenerVars, reactorVars, tableVars>>

\* thread_.exitWait(1.0): the thread ended, or the second has passed.
WaitForReactor ==
    /\ mpc = "wait for reactor"
    /\ dead' = Append(dead, "reactor")
    /\ mpc' = "destroy reactor"
    /\ UNCHANGED <<first, gone, running, listenerVars, reactorVars, tableVars>>

\* main returns: the members of an object are destroyed, then the destructor
\* of its epicsThread waits until the thread has ended.
Destroy(t, at, next) ==
    /\ mpc = at
    /\ gone' = gone \cup {t}
    /\ mpc' = next
    /\ UNCHANGED <<first, listenerVars, reactorVars, runnableVars, tableVars>>

Join(ended, at, next) ==
    /\ mpc = at
    /\ ended
    /\ mpc' = next
    /\ UNCHANGED <<first, gone, listenerVars, reactorVars, runnableVars, tableVars>>

MainNext ==
    \/ WaitForDeath \/ ClosePV \/ StopListener \/ PumpQueue \/ StopReactor \/ WaitForReactor
    \/ Destroy("reactor", "destroy reactor", "join reactor")
    \/ Join(rpc = "ended", "join reactor", "destroy listener")
    \/ Destroy("listener", "destroy listener", "join listener")
    \/ Join(lpc = "ended", "join listener", "exited")

\* The threads are started, and no exception has left one of them, which ends
\* the process.
Running == mpc \notin {"start", "usage", "asserted", "other"} /\ rpc # "aborted"

Next ==
    \/ ReadCommandLine
    \/ /\ Running
       /\ \/ MainNext
          \/ "listener" \notin gone /\ ClientNext /\ UNCHANGED <<reactorVars, mainVars>>
          \/ ListenerNext /\ UNCHANGED <<reactorVars, mainVars>>
          \/ ReactorNext /\ UNCHANGED <<listenerVars, mainVars>>
       /\ UNCHANGED argv

Spec == Init /\ [][Next]_mergerVars

\* Each thread keeps running, and so does the client library's.  That a PV
\* sends something (Arrive) is up to the PV, and nothing may rest on a timeout
\* of the reactor, which would end the process sooner or later.
FairSpec ==
    /\ Spec
    /\ WF_mergerVars(Running /\ MainNext /\ UNCHANGED argv)
    /\ WF_mergerVars(Running /\ ListenerNext /\ UNCHANGED <<argv, reactorVars, mainVars>>)
    /\ WF_mergerVars(Running /\ ReactorUntimed /\ UNCHANGED <<argv, listenerVars, mainVars>>)
    /\ WF_mergerVars(/\ Running /\ "listener" \notin gone
                     /\ \E i \in Subs : Notify(i)
                     /\ UNCHANGED <<argv, reactorVars, mainVars>>)

-----------------------------------------------------------------------------
(***************************************************************************)
(* Properties.                                                             *)
(***************************************************************************)

\* Every variable of the listener and of main has values of its type, and a
\* thread in the queue of the dead no longer has running_ set.
MergerTypeOK ==
    /\ \A i \in Subs : /\ subs[i].arrived \in 0 .. Len(Inputs[PVList[i]])
                       /\ subs[i].needNotify \in BOOLEAN
                       /\ subs[i].cancelled \in BOOLEAN
    /\ notifying \subseteq Subs
    /\ queue \in Seq(Subs \cup {StopToken}) /\ Len(queue) <= QueueSize
    /\ lpc \in {"loop", "pop", "taken", "push", "putback", "ended"}
    /\ item.sub \in Subs \cup {StopToken}
    /\ dead \in Seq(Threads) /\ \A k \in DOMAIN dead : ~running[dead[k]]
    /\ first \in Threads \cup {NoThread}
    /\ gone \subseteq Threads
    /\ argv \in CommandLines \cup {<<>>}

\* The thread has taken the token of a subscription and not put it back.
Holds(i) == lpc \in {"taken", "push", "putback"} /\ item.sub = i

Tokens(i) ==
    Cardinality({k \in DOMAIN queue : queue[k] = i})
      + (IF Holds(i) THEN 1 ELSE 0) + Cardinality(notifying \cap {i})

\* A subscription never has two tokens, and one with events has one for as
\* long as the thread lives: no wakeup is lost between the pop() that finds
\* nothing and the event that arrives just after (mergerMain.cpp:96-98,
\* 109-143).
OneTokenWhileEvents ==
    \A i \in Subs :
      /\ Tokens(i) <= 1
      /\ subs[i].events # <<>> /\ lpc # "ended" => Tokens(i) = 1

\* With fewer PVs than the queue has places, the thread that empties the
\* queue never waits for room in it, not even with the stop token inside.
QueueHasRoom ==
    Len(PVList) < QueueSize /\ lpc = "putback" => Len(queue) < QueueSize

\* main goes on with a command line if it is a list of pairs of a flag and a
\* value, with every required option and none twice, in any order and with the
\* value in the same or in the next argument (mergerMain.cpp:303, :331).
ParsedAsMeant == mpc = "start" => Cli!IsParsedAsMeant(argv)

\* Every event is handled, in spite of the other subscriptions' events,
\* unless the thread ends first.
EventsAreHandled ==
    \A i \in Subs : subs[i].events # <<>> ~> subs[i].events = <<>> \/ lpc = "ended" \/ ~Running

\* Whichever thread dies first, the process comes to its end: main gets past
\* every wait and both threads are joined.
DeathEndsProcess ==
    dead # <<>> ~> mpc = "exited" \/ ~Running

-----------------------------------------------------------------------------
(***************************************************************************)
(* What comments say and the code does not do.                             *)
(***************************************************************************)

\* "Ask other threads to stop, if they are not dead yet" with a delay of one
\* second (mergerMain.cpp:386): when main destroys the members of the
\* listener, its thread has ended.
ListenerOutlived == "listener" \in gone => lpc = "ended"

\* "Close the PV, stop the server" (mergerMain.cpp:382): that must not make
\* the thread that is still running die of an exception.
ClosingIsOrderly == rpc # "aborted"

\* Both: the comments of mergerMain.cpp:378-388 describe an orderly end.
EndIsOrderly == ListenerOutlived /\ ClosingIsOrderly
=============================================================================
