------------------------------ MODULE Listener ------------------------------
(***************************************************************************)
(* class Listener (mergerApp/src/mergerMain.cpp): the thread that pushes   *)
(* the updates of all subscriptions into the table.                        *)
(*                                                                         *)
(* A subscription keeps its events in a queue of its own and calls its     *)
(* event function when there are some again after pop() found none; the    *)
(* function puts a token for the subscription into queue_.  The thread     *)
(* takes a token, pops one event, and puts the token back.                 *)
(***************************************************************************)
EXTENDS TimeAlignedTable, Runnable

CONSTANTS
    PVList,     \* the list of input PVs, as it was read: it may repeat a PV
    QueueSize,  \* QUEUE_SIZE
    Inputs,     \* PV -> the events its channel delivers during a run
    Connected, Disconnected     \* the two that are not updates

ASSUME PVListAssumption ==
    /\ PVList \in Seq(PVs)
    /\ QueueSize \in Nat \ {0}
    /\ Inputs \in [PVs -> Seq(Update \cup {Connected, Disconnected})]

VARIABLES
    subs,       \* the subscriptions
    notifying,  \* the subscriptions whose event function is being called
    queue,      \* queue_ : tokens
    lpc,        \* where run() is
    item        \* the token run() holds, and the update it popped with it

listenerVars == <<subs, notifying, queue, lpc, item>>

Subs == DOMAIN PVList

StopToken == 0      \* the pair with a null subscription
NoUpdate  == [shape |-> NotATable, ragged |-> FALSE, rows |-> <<>>]

ListenerInit ==
    /\ subs = [i \in Subs |-> [events |-> <<>>, arrived |-> 0,
                               needNotify |-> TRUE, cancelled |-> FALSE]]
    /\ notifying = {}
    /\ queue = <<>>
    /\ lpc = "loop"
    /\ item = [sub |-> StopToken, update |-> NoUpdate]

-----------------------------------------------------------------------------
(***************************************************************************)
(* The PVA client library.  One worker thread serves all subscriptions and *)
(* calls their event functions, so while one waits for room in queue_      *)
(* nothing else arrives.                                                   *)
(***************************************************************************)
Arrive(i) ==
    /\ notifying = {}
    /\ ~subs[i].cancelled
    /\ subs[i].arrived < Len(Inputs[PVList[i]])
    /\ subs' = [subs EXCEPT ![i].events     = Append(@, Inputs[PVList[i]][subs[i].arrived + 1]),
                            ![i].arrived    = @ + 1,
                            ![i].needNotify = FALSE]
    /\ notifying' = IF subs[i].needNotify THEN {i} ELSE {}
    /\ UNCHANGED <<queue, lpc, item, tableVars, runnableVars>>

\* The event function: queue_.push, which waits while the queue is full.
Notify(i) ==
    /\ i \in notifying
    /\ Len(queue) < QueueSize
    /\ queue' = Append(queue, i)
    /\ notifying' = {}
    /\ UNCHANGED <<subs, lpc, item, tableVars, runnableVars>>

-----------------------------------------------------------------------------
ListenerEnds == lpc' = "ended" /\ Stopped("listener")

\* The condition of the loop.
LoopTest ==
    /\ lpc = "loop"
    /\ IF running["listener"]
       THEN lpc' = "pop" /\ UNCHANGED runnableVars
       ELSE ListenerEnds
    /\ UNCHANGED <<subs, notifying, queue, item, tableVars>>

\* Mutant: the token is looked at, and stays in the queue.
PeekToken ==
    /\ lpc = "pop"
    /\ queue # <<>>
    /\ item' = [item EXCEPT !.sub = Head(queue)]
    /\ lpc' = "taken"
    /\ UNCHANGED <<subs, notifying, queue, tableVars, runnableVars>>

\* queue_.pop() waits while the queue is empty.
TakeToken ==
    /\ lpc = "pop"
    /\ queue # <<>>
    /\ item' = [item EXCEPT !.sub = Head(queue)]
    /\ queue' = Tail(queue)
    /\ lpc' = "taken"
    /\ UNCHANGED <<subs, notifying, tableVars, runnableVars>>

\* running_ is tested again after the wait; a null subscription ends as well.
TokenEnds ==
    /\ lpc = "taken"
    /\ ~running["listener"] \/ item.sub = StopToken
    /\ ListenerEnds
    /\ UNCHANGED <<subs, notifying, queue, item, tableVars>>

\* Mutant: a connection event leaves the iteration before the token is put back.
PopEventLeaves ==
    LET i == item.sub
    IN  /\ lpc = "taken"
        /\ running["listener"] /\ i # StopToken
        /\ IF subs[i].events = <<>>
           THEN /\ subs' = [subs EXCEPT ![i].needNotify = ~subs[i].cancelled]
                /\ lpc' = "loop"
                /\ UNCHANGED item
           ELSE /\ subs' = [subs EXCEPT ![i].events = Tail(@)]
                /\ IF Head(subs[i].events) \in {Connected, Disconnected}
                   THEN lpc' = "loop" /\ UNCHANGED item
                   ELSE lpc' = "push" /\ item' = [item EXCEPT !.update = Head(subs[i].events)]
        /\ UNCHANGED <<notifying, queue, tableVars, runnableVars>>

\* sub->pop(): without an event the token is dropped; connection events are
\* exceptions that are caught and logged; an update is pushed next.
PopEvent ==
    LET i == item.sub
    IN  /\ lpc = "taken"
        /\ running["listener"] /\ i # StopToken
        /\ IF subs[i].events = <<>>
           THEN /\ subs' = [subs EXCEPT ![i].needNotify = ~subs[i].cancelled]
                /\ lpc' = "loop"
                /\ UNCHANGED item
           ELSE /\ subs' = [subs EXCEPT ![i].events = Tail(@)]
                /\ IF Head(subs[i].events) \in {Connected, Disconnected}
                   THEN lpc' = "putback" /\ UNCHANGED item
                   ELSE lpc' = "push" /\ item' = [item EXCEPT !.update = Head(subs[i].events)]
        /\ UNCHANGED <<notifying, queue, tableVars, runnableVars>>

\* taligned_table_->push(), with its exceptions: a PV that was dropped is
\* unsubscribed, any other error ends the thread.
PushUpdate ==
    LET pv == PVList[item.sub]
    IN  /\ lpc = "push"
        /\ Push(pv, item.update)
        /\ CASE PushOutcome(pv, item.update) = "ok" ->
                  /\ lpc' = "putback"
                  /\ UNCHANGED <<subs, runnableVars>>
             [] PushOutcome(pv, item.update) = "out_of_range" ->
                  /\ subs' = [subs EXCEPT ![item.sub].cancelled = TRUE]
                  /\ lpc' = "putback"
                  /\ UNCHANGED runnableVars
             [] PushOutcome(pv, item.update) = "runtime_error" ->
                  /\ ListenerEnds
                  /\ UNCHANGED subs
        /\ item' = [item EXCEPT !.update = NoUpdate]
        /\ UNCHANGED <<notifying, queue>>

\* Mutant: the token is not put back.
DropToken ==
    /\ lpc = "putback"
    /\ lpc' = "loop"
    /\ UNCHANGED <<subs, notifying, queue, item, tableVars, runnableVars>>

\* queue_.push of the token, which waits while the queue is full.
PutBack ==
    /\ lpc = "putback"
    /\ Len(queue) < QueueSize
    /\ queue' = Append(queue, item.sub)
    /\ lpc' = "loop"
    /\ UNCHANGED <<subs, notifying, item, tableVars, runnableVars>>

ClientNext == \E i \in Subs : Arrive(i) \/ Notify(i)

ListenerNext == LoopTest \/ TakeToken \/ TokenEnds \/ PopEvent \/ PushUpdate \/ PutBack
=============================================================================
