----------------------------- MODULE WriterMain -----------------------------
(***************************************************************************)
(* The writer program (writerApp/src/writerMain.cpp, writer.cpp): it reads *)
(* its command line, waits for updates of the merged PV, appends their     *)
(* rows to an HDF5 file, and starts a new file when one has grown too long *)
(* or too large.                                                           *)
(*                                                                         *)
(* Time is counted in seconds, which file names are made of.  It passes    *)
(* while the program waits, until its wait is over, and while it writes.   *)
(* What a file holds is abstracted to the updates written to it; how they  *)
(* are laid out in it is in module Writer.                                 *)
(***************************************************************************)
EXTENDS ClippInterface, AlignedColumns

CONSTANTS
    Tables,         \* the updates there may be: a function to their tables
    Disconnect,     \* the exception that the PV has disconnected
    Feeds,          \* what the subscription may deliver: sequences of these
    Inputs,         \* the inputs of mergers the updates may come from: the
                    \* PVs with the columns of their tables
    CommandLines,   \* what the program may be started with, see Clipp
    Numerals,       \* the value of the pieces of arguments that are digits
    Directories,    \* the arguments that name a directory
    FullAfter,      \* the least age at which a file may have the maximum size
    WritesTakeTime, \* TRUE: time passes while updates are written
    MaxTime         \* bounds the clock

ASSUME WriterAssumption ==
    /\ \A u \in DOMAIN Tables : Tables[u] \in Table
    /\ Disconnect \notin DOMAIN Tables
    /\ Feeds \subseteq Seq(DOMAIN Tables \cup {Disconnect})
    /\ Inputs \subseteq Seq(Input)
    /\ Numerals \in [DOMAIN Numerals -> Nat]
    /\ WritesTakeTime \in BOOLEAN
    /\ {FullAfter, MaxTime} \subseteq Nat

ASSUME NumbersAssumption == \A buffers \in Inputs : AreNumbered(buffers)

VARIABLES
    argv,           \* the command line
    config,         \* what main read from it
    now,            \* the clock
    wpc,            \* where main() is
    start,          \* the start of the file, or of the wait for its first update
    elapsed,        \* elapsed_sec, read before the wait
    until,          \* when the wait ends
    file,           \* writer: the name of the open file
    type_,          \* its type: the update its columns were taken from
    files,          \* the names of all files in the directory
    stored,         \* the updates written, in order, with their file
    reason,         \* stop_reason
    event,          \* the binary event main waits on
    interrupted,    \* "no", "yes", or "flag": the flag is set, the event is not yet
    updates,        \* what the subscription delivers, once there is one
    queue,          \* the updates in the subscription
    arrived,        \* how many have arrived
    needNotify,     \* the event function is due when the next one arrives
    notifying,      \* it is about to be called
    heard           \* when the last update was read

loopVars == <<wpc, start, elapsed, until, file, type_, files, stored, reason, heard>>
clientVars == <<updates, arrived, needNotify, notifying>>
vars == <<argv, config, now, loopVars, event, interrupted, queue, clientVars>>

None == -1
Never == MaxTime + 1

NotConfigured == [timeout |-> 0, duration |-> 0, size |-> 0, unbuildable |-> {}]

Init ==
    /\ argv \in CommandLines
    /\ config = NotConfigured
    /\ now = 0
    /\ wpc = "start"
    /\ start = 0
    /\ elapsed = 0
    /\ until = 0
    /\ file = None
    /\ type_ = None
    /\ files = {}
    /\ stored = <<>>
    /\ reason = "none"
    /\ event = FALSE
    /\ interrupted = "no"
    /\ updates = <<>>
    /\ queue = <<>>
    /\ arrived = 0
    /\ needNotify = TRUE
    /\ notifying = FALSE
    /\ heard = None

-----------------------------------------------------------------------------
(***************************************************************************)
(* The command line.                                                       *)
(***************************************************************************)

WriterInterface ==
    (Required("--input-pv")         & Value("input_pv")) ++
    (Required("--base-directory")   & Value("base_directory")) ++
    (Required("--file-prefix")      & Value("file_prefix")) ++
    (Required("--root-group")       & Value("root_group")) ++
    (Required("--timeout-sec")      & Value("timeout_sec")) ++
    (Option("--max-duration-sec")   & Value("max_duration_sec")) ++
    (Option("--max-size-mb")        & Value("max_size_mb")) ++
    (Option("--label-sep")          & Value("label_sep")) ++
    (Option("--column-sep")         & Value("col_sep"))

Cli == INSTANCE Clipp WITH Interface <- WriterInterface

\* What main's variables are set to by the parse, or their defaults.
LabelSep(parser) == Cli!Setting(parser, "label_sep", <<".">>)

ColSep(parser) == Cli!Setting(parser, "col_sep", <<"_">>)

BaseDirectory(parser) == Cli!Setting(parser, "base_directory", <<>>)

\* The separators only decide which updates a file cannot be built for.
ConfigOf(parser) ==
    [timeout     |-> Cli!Number(Cli!Setting(parser, "timeout_sec", <<>>)),
     duration    |-> Cli!Number(Cli!Setting(parser, "max_duration_sec", <<>>)),
     size        |-> Cli!Unsigned(Cli!Setting(parser, "max_size_mb", <<>>)),
     unbuildable |-> {u \in DOMAIN Tables :
                        /\ IsTable(Tables[u])
                        /\ ~CanBeBuilt(FromValue(Tables[u]), LabelSep(parser), ColSep(parser))}]

\* CHECK_ARG.  The strings cannot be empty.
IsRefused(parser) ==
    \/ Cli!AnyError(parser)
    \/ Cli!Number(Cli!Setting(parser, "timeout_sec", <<>>)) < 0
    \/ Cli!Number(Cli!Setting(parser, "max_duration_sec", <<>>)) < 0
    \/ BaseDirectory(parser) \notin Directories

\* The usage is printed, or the PV is subscribed to.
StartsWith(parser) ==
    IF IsRefused(parser)
    THEN wpc' = "ended" /\ reason' = "USAGE" /\ UNCHANGED <<config, updates>>
    ELSE wpc' = "loop" /\ config' = ConfigOf(parser) /\ updates' \in Feeds /\ UNCHANGED reason

\* main up to its loop.
ReadCommandLine ==
    /\ wpc = "start"
    /\ StartsWith(Cli!Parsed(argv))
    /\ argv' = <<>>
    /\ UNCHANGED <<now, start, elapsed, until, file, type_, files, stored, heard,
                   event, interrupted, queue, arrived, needNotify, notifying>>

\* A limit of 0 is replaced by the largest double, or size_t.
Limit(n) == IF n = 0 THEN Never ELSE n

-----------------------------------------------------------------------------
(***************************************************************************)
(* Around main: the clock, the client library, the signal.                 *)
(***************************************************************************)

\* The wait of main is over.
WaitIsOver == wpc = "wait" /\ (event \/ now >= until)

Tick ==
    /\ now < MaxTime
    /\ (wpc = "drain" /\ WritesTakeTime) \/ (wpc = "wait" /\ ~WaitIsOver)
    /\ now' = now + 1
    /\ UNCHANGED <<loopVars, event, interrupted, queue, clientVars>>

\* An update arrives; the event function is called after the first one since
\* the queue was found empty.
Arrive ==
    /\ wpc \notin {"start", "ended"}
    /\ arrived < Len(updates)
    /\ arrived' = arrived + 1
    /\ queue' = Append(queue, arrived + 1)
    /\ notifying' = (notifying \/ needNotify)
    /\ needNotify' = FALSE
    /\ UNCHANGED <<now, loopVars, event, interrupted, updates>>

Notify ==
    /\ notifying
    /\ notifying' = FALSE
    /\ event' = TRUE
    /\ UNCHANGED <<now, loopVars, interrupted, queue, updates, arrived, needNotify>>

\* Mutant: the event is triggered before the flag is set.
TriggersFirst ==
    /\ interrupted = "no"
    /\ wpc # "start"
    /\ \/ event' = TRUE /\ UNCHANGED interrupted
       \/ interrupted' = "yes" /\ UNCHANGED event
    /\ UNCHANGED <<now, loopVars, queue, clientVars>>

\* CTRL+C sets interrupted, then triggers the event.
Interrupt ==
    \/ /\ interrupted = "no"
       /\ wpc # "start"
       /\ interrupted' = "flag"
       /\ UNCHANGED <<now, loopVars, event, queue, clientVars>>
    \/ /\ interrupted = "flag"
       /\ interrupted' = "yes"
       /\ event' = TRUE
       /\ UNCHANGED <<now, loopVars, queue, clientVars>>

-----------------------------------------------------------------------------
(***************************************************************************)
(* main().                                                                 *)
(***************************************************************************)

Stop(why) ==
    /\ wpc' = "ended"
    /\ reason' = why
    /\ file' = None
    /\ type_' = None

\* The inner loop is left: the file is closed, and the time starts again.
NextFile ==
    /\ wpc' = "loop"
    /\ file' = None
    /\ type_' = None
    /\ start' = now
    /\ UNCHANGED reason

Lesser(a, b) == IF a < b THEN a ELSE b

\* The time to wait is derived from elapsed_sec, which is not read again.
BeginWait ==
    /\ wpc = "loop"
    /\ elapsed' = now - start
    /\ until' = now + Lesser(Limit(config.timeout), Limit(config.duration) - elapsed')
    /\ wpc' = "wait"
    /\ UNCHANGED <<now, start, file, type_, files, stored, reason, heard, event, interrupted, queue, clientVars>>

\* The event resets when it is waited for.
Wakes ==
    /\ wpc = "wait"
    /\ event
    /\ event' = FALSE
    /\ IF interrupted # "no"
       THEN Stop("INTERRUPTED")
       ELSE wpc' = "drain" /\ UNCHANGED <<reason, file, type_>>
    /\ UNCHANGED <<now, start, elapsed, until, files, stored, heard, interrupted, queue, clientVars>>

\* Nothing happened for that long.
WaitFails ==
    /\ wpc = "wait"
    /\ ~event
    /\ now >= until
    /\ IF elapsed > Limit(config.timeout)
       THEN Stop("TIMEOUT") /\ UNCHANGED start
       ELSE NextFile
    /\ UNCHANGED <<now, elapsed, until, files, stored, heard, event, interrupted, queue, clientVars>>

\* The file the next update goes to: the open one, or a new one named after
\* the second.
Target == IF file = None THEN now ELSE file

\* Mutant: the update that opens a file is not written to it.
OpeningLoses(n) == IF file = None THEN <<>> ELSE <<[update |-> n, file |-> Target]>>

\* Mutant: a file that is there is opened.
NoNameIsTaken == FALSE

\* The file is created with H5F_ACC_EXCL.
NameIsTaken == file = None /\ now \in files

UpdateColumns(n) == FromValue(Tables[updates[n]])

\* The columns of type_, once there is one.
Columns == UpdateColumns(type_)

CannotBeWritten(n) ==
    WriteFails(type_ = None, Columns, Tables[updates[n]], updates[n] \notin config.unbuildable)

AssertionFails(n) == type_ = None /\ Suspends(Tables[updates[n]])

\* What Writer::write adds to the target for update n.
Written(n) == IF NumRows(Tables[updates[n]]) > 0 THEN <<[update |-> n, file |-> Target]>> ELSE <<>>

\* subscription->pop() finds nothing.
DrainEnds ==
    /\ wpc = "drain"
    /\ queue = <<>>
    /\ needNotify' = TRUE
    /\ wpc' = "stat"
    /\ UNCHANGED <<now, start, elapsed, until, file, type_, files, stored, reason, heard,
                   event, interrupted, queue, updates, arrived, notifying>>

\* Mutant: one update is read per event.
DrainsOne ==
    /\ wpc = "drain"
    /\ queue # <<>>
    /\ queue' = Tail(queue)
    /\ file' = Target
    /\ type_' = IF type_ = None THEN Head(queue) ELSE type_
    /\ files' = files \cup {Target}
    /\ stored' = stored \o Written(Head(queue))
    /\ heard' = now
    /\ start' = IF file = None THEN now ELSE start
    /\ wpc' = "stat"
    /\ UNCHANGED <<now, elapsed, until, reason, event, interrupted, clientVars>>

\* An update is popped and written, the first one to a new file.  A name that
\* is taken and an update that cannot be written are exceptions that end main;
\* so is a disconnect, which has a handler of its own.  An assertion that fails
\* leaves main where it is, with the file open.
PopUpdate ==
    LET n == Head(queue)
    IN  /\ wpc = "drain"
        /\ queue # <<>>
        /\ queue' = Tail(queue)
        /\ IF updates[n] = Disconnect
           THEN Stop("DISCONNECTED") /\ UNCHANGED <<start, files, stored, heard>>
           ELSE /\ start' = IF file = None THEN now ELSE start
                /\ files' = files \cup {Target}
                /\ heard' = now
                /\ CASE ~NameIsTaken /\ AssertionFails(n) ->
                          wpc' = "suspended" /\ file' = Target /\ UNCHANGED <<type_, stored, reason>>
                     [] NameIsTaken \/ (~AssertionFails(n) /\ CannotBeWritten(n)) ->
                          Stop("ERROR") /\ UNCHANGED stored
                     [] OTHER ->
                          /\ file' = Target
                          /\ type_' = IF type_ = None THEN n ELSE type_
                          /\ stored' = stored \o Written(n)
                          /\ UNCHANGED <<wpc, reason>>
        /\ UNCHANGED <<now, elapsed, until, event, interrupted, clientVars>>

\* The size of the file decides on a new one.
Stat ==
    /\ wpc = "stat"
    /\ \/ config.size > 0 /\ now >= start + FullAfter /\ NextFile
       \/ wpc' = "loop" /\ UNCHANGED <<file, type_, start, reason>>
    /\ UNCHANGED <<now, elapsed, until, files, stored, heard, event, interrupted, queue, clientVars>>

LoopNext == BeginWait \/ Wakes \/ WaitFails \/ DrainEnds \/ PopUpdate \/ Stat

Next ==
    \/ ReadCommandLine
    \/ (LoopNext \/ Tick \/ Arrive \/ Notify \/ Interrupt) /\ UNCHANGED <<argv, config>>

Spec == Init /\ [][Next]_vars

\* The program and the client library's thread keep running.
FairSpec ==
    /\ Spec
    /\ WF_vars(LoopNext /\ UNCHANGED <<argv, config>>)
    /\ WF_vars(Notify /\ UNCHANGED <<argv, config>>)

-----------------------------------------------------------------------------
(***************************************************************************)
(* Properties.                                                             *)
(***************************************************************************)

\* Every variable has values of its type; and where main asks for the size of
\* the file (writerMain.cpp:288) there is a writer: an event that is not the
\* interrupt's has always left an update to be written.
WriterTypeOK ==
    /\ {now, start, elapsed} \subseteq 0 .. MaxTime
    /\ until \in Int
    /\ {file, heard} \subseteq {None} \cup 0 .. MaxTime
    /\ files \subseteq 0 .. MaxTime
    /\ stored \in Seq([update : DOMAIN updates, file : files])
    /\ updates \in Feeds \cup {<<>>}
    /\ queue \in Seq(DOMAIN updates)
    /\ argv \in CommandLines \cup {<<>>}
    /\ config \in [timeout : Nat, duration : Nat, size : Nat, unbuildable : SUBSET DOMAIN Tables]
    /\ type_ \in {None} \cup DOMAIN updates
    /\ wpc \in {"start", "loop", "wait", "drain", "stat", "suspended", "ended"}
    /\ reason \in {"none", "INTERRUPTED", "TIMEOUT", "DISCONNECTED", "ERROR", "USAGE"}
    /\ {event, needNotify, notifying} \subseteq BOOLEAN
    /\ wpc = "stat" => file # None

StoredUpdates == {stored[i].update : i \in DOMAIN stored}

\* Every update that has arrived is in the queue or in one file, until an
\* error or a failed assertion: changing files loses none, repeats none and keeps their order.
NothingIsLost ==
    /\ \A n \in 1 .. arrived :
         updates[n] # Disconnect /\ NumRows(Tables[updates[n]]) > 0 /\ reason # "ERROR" /\ wpc # "suspended" =>
           (n \in StoredUpdates) # (\E i \in DOMAIN queue : queue[i] = n)
    /\ \A i, j \in DOMAIN stored :
         i < j => stored[i].update < stored[j].update /\ stored[i].file <= stored[j].file

\* The rows of a file are of updates with the same columns: a later update is
\* held against the first one of its file, and a file that was closed is not
\* opened again when its name, which is made of seconds, comes up a second time
\* (writer.cpp:181, :229).
FilesAreUniform ==
    \A i, j \in DOMAIN stored :
      stored[i].file = stored[j].file => UpdateColumns(stored[i].update) = UpdateColumns(stored[j].update)

\* main goes on with a command line if it is a list of pairs of a flag and a
\* value, with every required option and none twice, in any order and with the
\* value in the same or in the next argument (writerMain.cpp:106, :152).
ParsedAsMeant == wpc = "start" => Cli!IsParsedAsMeant(argv)

TablesMirrored(labelSep, colSep) ==
    LET received == {FromValue(Tables[u]) : u \in {k \in DOMAIN Tables : IsTable(Tables[k])}}
        merged   == {MergedColumns(in, labelSep, colSep) :
                       in \in {i \in Inputs : Mergeable(i, labelSep, colSep)}}
    IN  \A cols \in {c \in received : WellNamed(c, labelSep, colSep)} \cup merged :
          IsMirrored(cols, labelSep, colSep)

MirrorsTables(parser) ==
    ~IsRefused(parser) /\ {LabelSep(parser), ColSep(parser)} \subseteq OneCharacter =>
      TablesMirrored(LabelSep(parser), ColSep(parser))

\* A file mirrors the table of its updates, if that names its columns after
\* signals with separators of one character: it can be written, and each column
\* is where it is looked for.  What a merger with the same separators makes of
\* inputs it is made for is such a table (writer.cpp:85, taligntable.cpp:34).
FileMirrorsTable == wpc = "start" => MirrorsTables(Cli!Parsed(argv))

\* An update that has arrived is read: the event function is not called for
\* it if the queue was not found empty since.
UpdatesAreRead == queue # <<>> ~> queue = <<>> \/ wpc \in {"suspended", "ended"}

-----------------------------------------------------------------------------
(***************************************************************************)
(* What comments and documentation say and the code does not do.  "If no   *)
(* updates are received within timeout (in seconds), close the file and    *)
(* exit.  A value of 0 means wait forever" (writerMain.cpp:125).           *)
(***************************************************************************)

\* It exits for no update within the timeout, and not when a shorter wait ends.
TimeoutMeansSilence == reason = "TIMEOUT" => now >= heard + config.timeout

\* When no update was received within the timeout, it exits.
SilenceMeansTimeout ==
    wpc = "wait" /\ heard # None /\ config.timeout > 0 /\ queue = <<>> => now <= heard + config.timeout

\* Both.
TimeoutIsSilence == TimeoutMeansSilence /\ SilenceMeansTimeout
=============================================================================
