---------------------------- MODULE Merger_proofs ----------------------------
(***************************************************************************)
(* The tokens of the listener, for every list of PVs, whatever the PVs     *)
(* send, however threads interleave and whichever ends first.              *)
(***************************************************************************)
EXTENDS Merger, FiniteSetTheorems, TLAPS

Event == Update \cup {Connected, Disconnected}

Token == Subs \cup {StopToken}

Subscription == [events : Seq(Event), arrived : Nat, needNotify : BOOLEAN, cancelled : BOOLEAN]

ListenerTypes ==
    /\ subs \in [Subs -> Subscription]
    /\ notifying \subseteq Subs
    /\ queue \in Seq(Token)
    /\ lpc \in {"loop", "pop", "taken", "push", "putback", "ended"}
    /\ item \in [sub : Token, update : Event \cup {NoUpdate}]
    /\ lpc \in {"push", "putback"} => item.sub \in Subs

Within(s, x) == \E k \in 1 .. Len(s) : s[k] = x

Distinct(s) == \A k, l \in 1 .. Len(s) : s[k] = s[l] => k = l

Queued(i) == Within(queue, i)

HasToken(i) == Queued(i) \/ Holds(i) \/ i \in notifying

\* A token is in one place only.
OnePlace ==
    /\ Distinct(queue)
    /\ \A i, j \in notifying : i = j
    /\ \A i \in Subs : ~(Holds(i) /\ Queued(i)) /\ ~(Holds(i) /\ i \in notifying) /\ ~(i \in notifying /\ Queued(i))

\* needNotify tells whether the next event makes a token.
NotifyMakesToken ==
    \A i \in Subs :
      /\ subs[i].needNotify => ~HasToken(i)
      /\ \/ lpc = "ended"
         \/ HasToken(i)
         \/ subs[i].events = <<>> /\ (subs[i].needNotify \/ subs[i].cancelled)

\* The stop token is put into the queue once.
StopsOnce ==
    Queued(StopToken) =>
      mpc \in {"stop reactor", "wait for reactor", "destroy reactor", "join reactor",
               "destroy listener", "join listener", "exited"}

TokenInv ==
    /\ ListenerTypes
    /\ OnePlace
    /\ NotifyMakesToken
    /\ StopsOnce

-----------------------------------------------------------------------------
(***************************************************************************)
(* Queues.                                                                 *)
(***************************************************************************)

LEMMA Appended ==
  ASSUME NEW S, NEW s \in Seq(S), NEW x \in S
  PROVE  /\ Append(s, x) \in Seq(S)
         /\ \A y : Within(Append(s, x), y) <=> Within(s, y) \/ y = x
         /\ Distinct(s) /\ ~Within(s, x) => Distinct(Append(s, x))
<1>1. /\ Append(s, x) \in Seq(S) /\ Len(s) \in Nat /\ Len(Append(s, x)) = Len(s) + 1
      /\ Append(s, x)[Len(s) + 1] = x
      /\ \A k \in 1 .. Len(s) : Append(s, x)[k] = s[k]
  OBVIOUS
<1>2. ASSUME NEW y PROVE Within(Append(s, x), y) <=> Within(s, y) \/ y = x
  BY <1>1 DEF Within
<1>3. Distinct(s) /\ ~Within(s, x) => Distinct(Append(s, x))
  BY <1>1 DEF Within, Distinct
<1> QED
  BY <1>1, <1>2, <1>3

LEMMA AppendedLength ==
  ASSUME NEW S, NEW s \in Seq(S), NEW x \in S
  PROVE  Len(s) \in Nat /\ Len(Append(s, x)) = Len(s) + 1
  OBVIOUS

LEMMA Popped ==
  ASSUME NEW S, NEW s \in Seq(S), s # <<>>, Distinct(s)
  PROVE  /\ Tail(s) \in Seq(S) /\ Head(s) \in S /\ Within(s, Head(s))
         /\ Distinct(Tail(s))
         /\ \A y : Within(Tail(s), y) <=> Within(s, y) /\ y # Head(s)
<1>1. /\ Tail(s) \in Seq(S) /\ Head(s) = s[1] /\ Len(s) \in Nat \ {0} /\ Len(Tail(s)) = Len(s) - 1
      /\ \A k \in 1 .. Len(Tail(s)) : Tail(s)[k] = s[k + 1]
  OBVIOUS
<1>2. Head(s) \in S /\ Within(s, Head(s))
  BY <1>1 DEF Within
<1>3. Distinct(Tail(s))
  BY <1>1 DEF Distinct
<1>4. ASSUME NEW y, Within(Tail(s), y) PROVE Within(s, y) /\ y # Head(s)
  BY <1>1, <1>4 DEF Within, Distinct
<1>5. ASSUME NEW y, Within(s, y), y # Head(s) PROVE Within(Tail(s), y)
  <2>1. PICK k \in 1 .. Len(s) : s[k] = y
    BY <1>5 DEF Within
  <2>2. k - 1 \in 1 .. Len(Tail(s)) /\ Tail(s)[k - 1] = y
    BY <1>1, <1>5, <2>1
  <2> QED
    BY <2>2 DEF Within
<1> QED
  BY <1>1, <1>2, <1>3, <1>4, <1>5

LEMMA SubsAreNumbers == Subs = 1 .. Len(PVList) /\ Len(PVList) \in Nat /\ StopToken \notin Subs
  BY PVListAssumption DEF Subs, StopToken

-----------------------------------------------------------------------------
(***************************************************************************)
(* The steps that move tokens.                                             *)
(***************************************************************************)

LEMMA Initially == Init => TokenInv
<1> SUFFICES ASSUME Init PROVE TokenInv
  OBVIOUS
<1>1. /\ subs = [i \in Subs |-> [events |-> <<>>, arrived |-> 0, needNotify |-> TRUE, cancelled |-> FALSE]]
      /\ notifying = {} /\ queue = <<>> /\ lpc = "loop" /\ item = [sub |-> StopToken, update |-> NoUpdate]
  BY DEF Init, ListenerInit
<1>2. \A i : ~HasToken(i)
  BY <1>1 DEF HasToken, Queued, Within, Holds
<1>3. ListenerTypes
  BY <1>1 DEF ListenerTypes, Subscription, Token
<1>4. OnePlace
  BY <1>1, <1>2 DEF OnePlace, Distinct, HasToken
<1>5. NotifyMakesToken
  BY <1>1, <1>2 DEF NotifyMakesToken
<1>6. StopsOnce
  BY <1>2 DEF StopsOnce, HasToken
<1> QED
  BY <1>3, <1>4, <1>5, <1>6 DEF TokenInv

\* A step that leaves the listener alone.
LEMMA KeptByOthers ==
  ASSUME TokenInv, UNCHANGED listenerVars, Queued(StopToken) /\ mpc' # mpc => StopsOnce'
  PROVE  TokenInv'
<1>1. UNCHANGED <<subs, notifying, queue, lpc, item>>
  BY DEF listenerVars
<1>2. /\ \A i : Queued(i)' <=> Queued(i)
      /\ \A i : Holds(i)' <=> Holds(i)
      /\ \A i : HasToken(i)' <=> HasToken(i)
  BY <1>1 DEF Queued, Holds, HasToken
<1>3. ListenerTypes' /\ OnePlace' /\ NotifyMakesToken'
  BY <1>1, <1>2 DEF TokenInv, ListenerTypes, OnePlace, NotifyMakesToken, Distinct
<1>4. StopsOnce'
  BY <1>2 DEF TokenInv, StopsOnce
<1> QED
  BY <1>3, <1>4 DEF TokenInv

LEMMA KeptByArrive ==
  ASSUME TokenInv, NEW i \in Subs, Arrive(i), UNCHANGED mpc
  PROVE  TokenInv'
<1>1. /\ notifying = {} /\ UNCHANGED <<queue, lpc, item>>
      /\ subs' = [subs EXCEPT ![i].events     = Append(@, Inputs[PVList[i]][subs[i].arrived + 1]),
                              ![i].arrived    = @ + 1,
                              ![i].needNotify = FALSE]
      /\ notifying' = IF subs[i].needNotify THEN {i} ELSE {}
      /\ ~subs[i].cancelled
  BY DEF Arrive
<1>2. subs \in [Subs -> Subscription]
  BY DEF TokenInv, ListenerTypes
<1>3. Inputs[PVList[i]][subs[i].arrived + 1] \in Event
  <2>1. Inputs[PVList[i]] \in Seq(Event)
    BY PVListAssumption, SubsAreNumbers DEF Event
  <2>2. subs[i].arrived + 1 \in 1 .. Len(Inputs[PVList[i]])
    BY <1>2, <2>1 DEF Arrive, Subscription
  <2> QED
    BY <2>1, <2>2
<1>4. /\ subs' \in [Subs -> Subscription]
      /\ ~subs'[i].needNotify /\ subs'[i].cancelled = subs[i].cancelled
      /\ \A j \in Subs : j # i => subs'[j] = subs[j]
  BY <1>1, <1>2, <1>3 DEF Subscription
<1>5. /\ \A j : (Queued(j)' <=> Queued(j)) /\ (Holds(j)' <=> Holds(j))
  BY <1>1 DEF Queued, Holds
<1>6. ListenerTypes'
  BY <1>1, <1>4 DEF TokenInv, ListenerTypes
<1>7. OnePlace'
  BY <1>1, <1>5 DEF TokenInv, OnePlace, NotifyMakesToken, HasToken, Distinct
<1>8. NotifyMakesToken'
  <2>1. ASSUME NEW j \in Subs, j # i PROVE HasToken(j)' <=> HasToken(j)
    BY <1>1, <1>5, <2>1 DEF HasToken
  <2>2. lpc # "ended" => HasToken(i)'
    BY <1>1, <1>5 DEF HasToken, TokenInv, NotifyMakesToken
  <2> QED
    BY <1>1, <1>4, <2>1, <2>2 DEF TokenInv, NotifyMakesToken
<1>9. StopsOnce'
  BY <1>5 DEF TokenInv, StopsOnce
<1> QED
  BY <1>6, <1>7, <1>8, <1>9 DEF TokenInv

LEMMA KeptByNotify ==
  ASSUME TokenInv, NEW i \in Subs, Notify(i), UNCHANGED mpc
  PROVE  TokenInv'
<1>1. /\ i \in notifying /\ queue' = Append(queue, i) /\ notifying' = {}
      /\ UNCHANGED <<subs, lpc, item>>
  BY DEF Notify
<1>2. queue \in Seq(Token) /\ i \in Token /\ Distinct(queue) /\ ~Queued(i)
  BY <1>1 DEF TokenInv, ListenerTypes, Token, OnePlace
<1>3. queue' \in Seq(Token) /\ Distinct(queue')
  BY <1>1, <1>2, Appended DEF Queued
<1>4. \A j : (Queued(j)' <=> Queued(j) \/ j = i) /\ (Holds(j)' <=> Holds(j))
  BY <1>1, <1>2, Appended DEF Queued, Holds
<1>5. \A j \in Subs : HasToken(j)' <=> HasToken(j)
  BY <1>1, <1>4 DEF HasToken, TokenInv, OnePlace
<1>6. ListenerTypes'
  BY <1>1, <1>3 DEF TokenInv, ListenerTypes
<1>7. OnePlace'
  BY <1>1, <1>3, <1>4 DEF TokenInv, OnePlace
<1>8. NotifyMakesToken'
  BY <1>1, <1>5 DEF TokenInv, NotifyMakesToken
<1>9. StopsOnce'
  BY <1>4, SubsAreNumbers DEF TokenInv, StopsOnce
<1> QED
  BY <1>6, <1>7, <1>8, <1>9 DEF TokenInv

LEMMA KeptByPump ==
  ASSUME TokenInv, PumpQueue
  PROVE  TokenInv'
<1>1. /\ mpc = "pump" /\ mpc' = "stop reactor" /\ queue' = Append(queue, StopToken)
      /\ UNCHANGED <<subs, notifying, lpc, item>>
  BY DEF PumpQueue
<1>2. queue \in Seq(Token) /\ StopToken \in Token /\ Distinct(queue) /\ ~Queued(StopToken)
  BY <1>1 DEF TokenInv, ListenerTypes, Token, OnePlace, StopsOnce
<1>3. queue' \in Seq(Token) /\ Distinct(queue')
  BY <1>1, <1>2, Appended DEF Queued
<1>4. /\ \A j : Holds(j)' <=> Holds(j)
      /\ \A j \in Subs : Queued(j)' <=> Queued(j)
  BY <1>1, <1>2, Appended, SubsAreNumbers DEF Queued, Holds
<1>5. ListenerTypes'
  BY <1>1, <1>3 DEF TokenInv, ListenerTypes
<1>6. OnePlace' /\ NotifyMakesToken'
  BY <1>1, <1>3, <1>4 DEF TokenInv, OnePlace, NotifyMakesToken, HasToken
<1>7. StopsOnce'
  BY <1>1 DEF StopsOnce
<1> QED
  BY <1>5, <1>6, <1>7 DEF TokenInv

LEMMA KeptByTake ==
  ASSUME TokenInv, TakeToken, UNCHANGED mpc
  PROVE  TokenInv'
<1>1. /\ lpc = "pop" /\ lpc' = "taken" /\ queue # <<>> /\ queue' = Tail(queue)
      /\ item' = [item EXCEPT !.sub = Head(queue)] /\ UNCHANGED <<subs, notifying>>
  BY DEF TakeToken
<1>2. queue \in Seq(Token) /\ Distinct(queue)
  BY DEF TokenInv, ListenerTypes, OnePlace
<1>3. /\ queue' \in Seq(Token) /\ Head(queue) \in Token /\ Queued(Head(queue)) /\ Distinct(queue')
      /\ \A j : Queued(j)' <=> Queued(j) /\ j # Head(queue)
  BY <1>1, <1>2, Popped DEF Queued
<1>4. item' \in [sub : Token, update : Event \cup {NoUpdate}] /\ item'.sub = Head(queue)
  BY <1>1, <1>3 DEF TokenInv, ListenerTypes
<1>5. \A j : (Holds(j)' <=> j = Head(queue)) /\ ~Holds(j)
  BY <1>1, <1>4 DEF Holds
<1>6. ListenerTypes'
  BY <1>1, <1>3, <1>4 DEF TokenInv, ListenerTypes
<1>7. OnePlace'
  BY <1>1, <1>3, <1>5 DEF TokenInv, OnePlace
<1>8. NotifyMakesToken'
  BY <1>1, <1>3, <1>5 DEF TokenInv, NotifyMakesToken, HasToken
<1>9. StopsOnce'
  BY <1>3 DEF TokenInv, StopsOnce
<1> QED
  BY <1>6, <1>7, <1>8, <1>9 DEF TokenInv

LEMMA KeptByPutBack ==
  ASSUME TokenInv, PutBack, UNCHANGED mpc
  PROVE  TokenInv'
<1> DEFINE i == item.sub
<1>1. /\ lpc = "putback" /\ lpc' = "loop" /\ queue' = Append(queue, i)
      /\ UNCHANGED <<subs, notifying, item>>
  BY DEF PutBack
<1>2. i \in Subs /\ i \in Token /\ Holds(i) /\ queue \in Seq(Token) /\ Distinct(queue) /\ ~Queued(i) /\ i \notin notifying
  BY <1>1 DEF TokenInv, ListenerTypes, Token, OnePlace, Holds
<1>3. queue' \in Seq(Token) /\ Distinct(queue')
  BY <1>1, <1>2, Appended DEF Queued
<1>4. \A j : (Queued(j)' <=> Queued(j) \/ j = i) /\ ~Holds(j)' /\ (Holds(j) <=> j = i)
  BY <1>1, <1>2, Appended DEF Queued, Holds
<1>5. ListenerTypes'
  BY <1>1, <1>3 DEF TokenInv, ListenerTypes
<1>6. OnePlace'
  BY <1>1, <1>2, <1>3, <1>4 DEF TokenInv, OnePlace
<1>7. NotifyMakesToken'
  BY <1>1, <1>4 DEF TokenInv, NotifyMakesToken, HasToken
<1>8. StopsOnce'
  BY <1>2, <1>4, SubsAreNumbers DEF TokenInv, StopsOnce
<1> QED
  BY <1>5, <1>6, <1>7, <1>8 DEF TokenInv

\* The steps of run() that move no token: it goes on, or ends.
LEMMA KeptByRun ==
  ASSUME TokenInv, LoopTest \/ TokenEnds \/ PopEvent \/ PushUpdate, UNCHANGED mpc
  PROVE  TokenInv'
<1> DEFINE i == item.sub
<1>1. UNCHANGED <<notifying, queue>>
  BY DEF LoopTest, TokenEnds, PopEvent, PushUpdate
<1>2. ListenerTypes /\ subs \in [Subs -> Subscription]
  BY DEF TokenInv, ListenerTypes
<1>3. \A j : Queued(j)' <=> Queued(j)
  BY <1>1 DEF Queued
<1>4. StopsOnce'
  BY <1>3 DEF TokenInv, StopsOnce
<1>5. CASE LoopTest \/ TokenEnds
  <2>1. /\ UNCHANGED <<subs, item>>
        /\ \/ lpc = "loop" /\ lpc' = "pop"
           \/ lpc' = "ended"
    BY <1>5 DEF LoopTest, TokenEnds, ListenerEnds
  <2>2. \A j : Holds(j)' => Holds(j)
    BY <2>1 DEF Holds
  <2>3. \A j : lpc' # "ended" => (Holds(j)' <=> Holds(j))
    BY <2>1 DEF Holds
  <2>4. ListenerTypes'
    BY <1>1, <1>2, <2>1 DEF ListenerTypes
  <2>5. OnePlace' /\ NotifyMakesToken'
    BY <1>1, <1>3, <2>1, <2>2, <2>3 DEF TokenInv, OnePlace, NotifyMakesToken, HasToken
  <2> QED
    BY <1>4, <2>4, <2>5 DEF TokenInv
<1>6. CASE PopEvent
  <2>1. i \in Subs /\ lpc = "taken" /\ Holds(i) /\ ~subs[i].needNotify
    BY <1>2, <1>6 DEF PopEvent, ListenerTypes, Token, Holds, TokenInv, NotifyMakesToken, HasToken
  <2>2. CASE subs[i].events = <<>>
    <3>1. /\ subs' = [subs EXCEPT ![i].needNotify = ~subs[i].cancelled] /\ lpc' = "loop" /\ UNCHANGED item
      BY <1>6, <2>2 DEF PopEvent
    <3>2. /\ subs' \in [Subs -> Subscription] /\ subs'[i].events = <<>>
          /\ subs'[i].needNotify \/ subs'[i].cancelled
          /\ \A j \in Subs : j # i => subs'[j] = subs[j]
      BY <1>2, <2>1, <2>2, <3>1 DEF Subscription
    <3>3. \A j : ~Holds(j)' /\ (Holds(j) <=> j = i)
      BY <2>1, <3>1 DEF Holds
    <3>4. ListenerTypes'
      BY <1>1, <1>2, <3>1, <3>2 DEF ListenerTypes
    <3>5. OnePlace'
      BY <1>1, <1>3, <3>3 DEF TokenInv, OnePlace
    <3>6. NotifyMakesToken'
      <4>1. ~HasToken(i)'
        BY <1>1, <1>3, <2>1, <3>1, <3>3 DEF HasToken, TokenInv, OnePlace
      <4>2. \A j \in Subs : j # i => (HasToken(j)' <=> HasToken(j))
        BY <1>1, <1>3, <3>3 DEF HasToken
      <4> QED
        BY <2>1, <3>1, <3>2, <4>1, <4>2 DEF TokenInv, NotifyMakesToken
    <3> QED
      BY <1>4, <3>4, <3>5, <3>6 DEF TokenInv
  <2>3. CASE subs[i].events # <<>>
    <3>1. /\ subs' = [subs EXCEPT ![i].events = Tail(@)]
          /\ \/ lpc' = "putback" /\ UNCHANGED item
             \/ lpc' = "push" /\ item' = [item EXCEPT !.update = Head(subs[i].events)]
      BY <1>6, <2>3 DEF PopEvent
    <3>2. subs[i].events \in Seq(Event)
      BY <1>2, <2>1 DEF Subscription
    <3>3. /\ subs' \in [Subs -> Subscription]
          /\ \A j \in Subs : subs'[j].needNotify = subs[j].needNotify /\ subs'[j].cancelled = subs[j].cancelled
          /\ \A j \in Subs : j # i => subs'[j] = subs[j]
      <4> DEFINE new == [subs[i] EXCEPT !.events = Tail(@)]
      <4>1. Tail(subs[i].events) \in Seq(Event)
        BY <2>3, <3>2
      <4>2. /\ new \in Subscription
            /\ new.needNotify = subs[i].needNotify /\ new.cancelled = subs[i].cancelled
        BY <1>2, <2>1, <4>1 DEF Subscription
      <4>3. subs' = [subs EXCEPT ![i] = new]
        BY <3>1
      <4> HIDE DEF new
      <4> QED
        BY <1>2, <2>1, <4>2, <4>3
    <3>4. item' \in [sub : Token, update : Event \cup {NoUpdate}] /\ item'.sub = i
      BY <1>2, <2>3, <3>1, <3>2 DEF ListenerTypes
    <3>5. \A j : Holds(j)' <=> Holds(j)
      BY <2>1, <3>1, <3>4 DEF Holds
    <3>6. ListenerTypes'
      BY <1>1, <1>2, <2>1, <3>1, <3>3, <3>4 DEF ListenerTypes
    <3>7. OnePlace'
      BY <1>1, <1>3, <3>5 DEF TokenInv, OnePlace
    <3>8. NotifyMakesToken'
      <4>1. \A j \in Subs : HasToken(j)' <=> HasToken(j)
        BY <1>1, <1>3, <3>5 DEF HasToken
      <4>2. HasToken(i)
        BY <2>1 DEF HasToken
      <4> QED
        BY <2>1, <3>3, <4>1, <4>2 DEF TokenInv, NotifyMakesToken
    <3> QED
      BY <1>4, <3>6, <3>7, <3>8 DEF TokenInv
  <2> QED
    BY <2>2, <2>3
<1>7. CASE PushUpdate
  <2>1. i \in Subs /\ lpc = "push" /\ Holds(i)
    BY <1>2, <1>7 DEF PushUpdate, ListenerTypes, Holds
  <2>2. /\ lpc' \in {"putback", "ended"}
        /\ subs' \in {subs, [subs EXCEPT ![i].cancelled = TRUE]}
        /\ item' = [item EXCEPT !.update = NoUpdate]
    BY <1>7 DEF PushUpdate, PushOutcome, ListenerEnds
  <2>3. /\ subs' \in [Subs -> Subscription]
        /\ \A j \in Subs : subs'[j].needNotify = subs[j].needNotify /\ subs'[j].events = subs[j].events
        /\ \A j \in Subs : subs[j].cancelled => subs'[j].cancelled
    <3> DEFINE new == [subs[i] EXCEPT !.cancelled = TRUE]
    <3>1. /\ new \in Subscription /\ new.cancelled
          /\ new.needNotify = subs[i].needNotify /\ new.events = subs[i].events
      BY <1>2, <2>1 DEF Subscription
    <3>2. subs' = subs \/ subs' = [subs EXCEPT ![i] = new]
      BY <2>2
    <3> HIDE DEF new
    <3> QED
      BY <1>2, <2>1, <3>1, <3>2
  <2>4. item' \in [sub : Token, update : Event \cup {NoUpdate}] /\ item'.sub = i
    BY <1>2, <2>2 DEF ListenerTypes
  <2>5. /\ \A j : Holds(j)' => Holds(j)
        /\ \A j : lpc' # "ended" => (Holds(j)' <=> Holds(j))
    BY <2>1, <2>2, <2>4 DEF Holds
  <2>6. ListenerTypes'
    BY <1>1, <1>2, <2>1, <2>2, <2>3, <2>4 DEF ListenerTypes
  <2>7. OnePlace' /\ NotifyMakesToken'
    BY <1>1, <1>3, <2>1, <2>3, <2>5 DEF TokenInv, OnePlace, NotifyMakesToken, HasToken
  <2> QED
    BY <1>4, <2>6, <2>7 DEF TokenInv
<1> QED
  BY <1>5, <1>6, <1>7

-----------------------------------------------------------------------------
(***************************************************************************)
(* The invariant, and what follows from it.                                *)
(***************************************************************************)

LEMMA InvariantIsInductive == TokenInv /\ [Next]_mergerVars => TokenInv'
<1> SUFFICES ASSUME TokenInv, [Next]_mergerVars PROVE TokenInv'
  OBVIOUS
<1>1. CASE ReadCommandLine
  BY <1>1, KeptByOthers DEF ReadCommandLine, StartsWith, TokenInv, StopsOnce
<1>2. CASE MainNext
  <2>1. CASE PumpQueue
    BY <2>1, KeptByPump
  <2>2. CASE WaitForDeath \/ ClosePV \/ StopListener
    BY <2>2, KeptByOthers DEF WaitForDeath, ClosePV, StopListener, TokenInv, StopsOnce
  <2>3. CASE StopReactor \/ WaitForReactor
    BY <2>3, KeptByOthers DEF StopReactor, WaitForReactor, StopsOnce
  <2>4. ASSUME NEW t, NEW at, NEW next, Destroy(t, at, next) \/ Join(rpc = "ended", at, next) \/ Join(lpc = "ended", at, next),
               next \in {"join reactor", "destroy listener", "join listener", "exited"}
        PROVE  TokenInv'
    BY <2>4, KeptByOthers DEF Destroy, Join, StopsOnce
  <2> QED
    BY <1>2, <2>1, <2>2, <2>3, <2>4 DEF MainNext
<1>3. CASE ClientNext /\ UNCHANGED mainVars
  BY <1>3, KeptByArrive, KeptByNotify DEF ClientNext, mainVars
<1>4. CASE ListenerNext /\ UNCHANGED mainVars
  BY <1>4, KeptByTake, KeptByPutBack, KeptByRun DEF ListenerNext, mainVars
<1>5. CASE UNCHANGED <<listenerVars, mainVars>>
  BY <1>5, KeptByOthers DEF mainVars
<1>6. CASE UNCHANGED mergerVars
  BY <1>5, <1>6 DEF mergerVars
<1> QED
  BY <1>1, <1>2, <1>3, <1>4, <1>5, <1>6 DEF Next

LEMMA TokenInvariant == Spec => []TokenInv
  BY Initially, InvariantIsInductive, PTL DEF Spec

\* In a queue without repetitions a token is at one place or at none.
LEMMA CountOfQueued ==
  ASSUME TokenInv, NEW i
  PROVE  Cardinality({k \in DOMAIN queue : queue[k] = i}) = IF Queued(i) THEN 1 ELSE 0
<1>1. DOMAIN queue = 1 .. Len(queue) /\ Distinct(queue)
  BY DEF TokenInv, ListenerTypes, OnePlace
<1>2. CASE Queued(i)
  <2>1. PICK k \in DOMAIN queue : queue[k] = i
    BY <1>1, <1>2 DEF Queued, Within
  <2>2. {l \in DOMAIN queue : queue[l] = i} = {k}
    BY <1>1, <2>1 DEF Distinct
  <2> QED
    BY <1>2, <2>2, FS_Singleton
<1>3. CASE ~Queued(i)
  <2>1. {k \in DOMAIN queue : queue[k] = i} = {}
    BY <1>1, <1>3 DEF Queued, Within
  <2> QED
    BY <1>3, <2>1, FS_EmptySet
<1> QED
  BY <1>2, <1>3

\* A subscription never has two tokens, and one with events has one for as long
\* as the listener lives (mergerMain.cpp:96-143).
THEOREM OneTokenWhileEventsAlways == Spec => []OneTokenWhileEvents
<1>1. TokenInv => OneTokenWhileEvents
  <2> SUFFICES ASSUME TokenInv, NEW i \in Subs
               PROVE  Tokens(i) <= 1 /\ (subs[i].events # <<>> /\ lpc # "ended" => Tokens(i) = 1)
    BY DEF OneTokenWhileEvents
  <2>1. Cardinality(notifying \cap {i}) = IF i \in notifying THEN 1 ELSE 0
    <3>1. CASE i \in notifying
      <4>1. notifying \cap {i} = {i}
        BY <3>1
      <4> QED
        BY <3>1, <4>1, FS_Singleton
    <3>2. CASE i \notin notifying
      <4>1. notifying \cap {i} = {}
        BY <3>2
      <4> QED
        BY <3>2, <4>1, FS_EmptySet
    <3> QED
      BY <3>1, <3>2
  <2>2. Tokens(i) = (IF Queued(i) THEN 1 ELSE 0) + (IF Holds(i) THEN 1 ELSE 0) + (IF i \in notifying THEN 1 ELSE 0)
    BY <2>1, CountOfQueued DEF Tokens
  <2>3. ~(Holds(i) /\ Queued(i)) /\ ~(Holds(i) /\ i \in notifying) /\ ~(i \in notifying /\ Queued(i))
    BY DEF TokenInv, OnePlace
  <2>4. subs[i].events # <<>> /\ lpc # "ended" => Queued(i) \/ Holds(i) \/ i \in notifying
    BY DEF TokenInv, NotifyMakesToken, HasToken
  <2> HIDE DEF Queued, Holds
  <2> QED
    BY <2>2, <2>3, <2>4
<1> QED
  BY <1>1, TokenInvariant, PTL

\* The thread that empties the queue never waits for room in it, if it has more
\* places than there are PVs (mergerMain.cpp:72, 141).
THEOREM QueueHasRoomAlways == Spec => []QueueHasRoom
<1>1. TokenInv => QueueHasRoom
  <2> SUFFICES ASSUME TokenInv, Len(PVList) < QueueSize, lpc = "putback"
               PROVE  Len(queue) < QueueSize
    BY DEF QueueHasRoom
  <2> DEFINE places == 1 .. Len(queue)
             others == Token \ {item.sub}
  <2>1. queue \in Seq(Token) /\ Distinct(queue) /\ item.sub \in Subs /\ ~Queued(item.sub) /\ Len(queue) \in Nat
    BY DEF TokenInv, ListenerTypes, OnePlace, Holds
  <2>2. Token = 0 .. Len(PVList) /\ Len(PVList) \in Nat
    BY SubsAreNumbers DEF Token, StopToken
  <2>3. IsFiniteSet(Token) /\ Cardinality(Token) = Len(PVList) + 1
    BY <2>2, FS_Interval
  <2>4. IsFiniteSet(others) /\ Cardinality(others) = Len(PVList)
    <3>1. item.sub \in Token
      BY <2>1 DEF Token
    <3>2. IsFiniteSet(others) /\ Cardinality(others) = Cardinality(Token) - 1
      BY <2>3, <3>1, FS_RemoveElement
    <3> QED
      BY <2>2, <2>3, <3>2
  <2>5. queue \in Injection(places, others)
    <3>1. queue \in [places -> others]
      BY <2>1 DEF Queued, Within
    <3> QED
      BY <2>1, <3>1 DEF Distinct, Injection, IsInjective
  <2>6. Cardinality(places) <= Cardinality(others)
    BY <2>4, <2>5, FS_Injection
  <2>7. Cardinality(places) = Len(queue)
    <3>1. \A n \in Nat : Cardinality(1 .. n) = IF 1 > n THEN 0 ELSE n - 1 + 1
      BY FS_Interval
    <3> QED
      BY <2>1, <3>1
  <2> QED
    BY <2>1, <2>2, <2>4, <2>6, <2>7, PVListAssumption
<1> QED
  BY <1>1, TokenInvariant, PTL

-----------------------------------------------------------------------------
(***************************************************************************)
(* The types of the process, with the flags of its threads.                *)
(***************************************************************************)

FlagTypes ==
    /\ running \in [Threads -> BOOLEAN]
    /\ dead \in Seq(Threads)

\* A thread that is dead does not run.
DeadDoNotRun == \A k \in 1 .. Len(dead) : ~running[dead[k]]

\* main takes the reactor for dead after it has told it to stop.
WaitsForStopped == mpc = "wait for reactor" => ~running["reactor"]

MainTypes ==
    /\ first \in Threads \cup {NoThread}
    /\ gone \subseteq Threads
    /\ argv \in CommandLines \cup {<<>>}

InQueueSize == Len(queue) <= QueueSize

InInputs == \A i \in Subs : subs[i].arrived <= Len(Inputs[PVList[i]])

ProcessInv ==
    /\ FlagTypes
    /\ DeadDoNotRun
    /\ WaitsForStopped
    /\ MainTypes
    /\ InQueueSize
    /\ InInputs

LEMMA InitiallyProcess == Init => ProcessInv
<1> SUFFICES ASSUME Init PROVE ProcessInv
  OBVIOUS
<1>1. FlagTypes /\ DeadDoNotRun
  BY DEF Init, RunnableInit, FlagTypes, DeadDoNotRun
<1>2. WaitsForStopped /\ MainTypes
  BY DEF Init, WaitsForStopped, MainTypes
<1>3. InQueueSize
  BY PVListAssumption DEF Init, ListenerInit, InQueueSize
<1>4. InInputs
  <2>1. ASSUME NEW i \in Subs PROVE Len(Inputs[PVList[i]]) \in Nat /\ subs[i].arrived = 0
    BY PVListAssumption DEF Init, ListenerInit, Subs
  <2> QED
    BY <2>1 DEF InInputs
<1> QED
  BY <1>1, <1>2, <1>3, <1>4 DEF ProcessInv

\* What any step does with the flags, and that it does the same for main.
LEMMA FlagsKept ==
  ASSUME FlagTypes, DeadDoNotRun,
         \/ UNCHANGED runnableVars
         \/ \E t \in Threads : Stopped(t)
         \/ \E t \in Threads : running' = [running EXCEPT ![t] = FALSE] /\ dead' = dead
         \/ dead # <<>> /\ dead' = Tail(dead) /\ running' = running
         \/ ~running["reactor"] /\ dead' = Append(dead, "reactor") /\ running' = running
  PROVE  FlagTypes' /\ DeadDoNotRun' /\ (~running["reactor"] => ~running'["reactor"])
<1>1. CASE UNCHANGED runnableVars
  BY <1>1 DEF runnableVars, FlagTypes, DeadDoNotRun
<1>2. ASSUME NEW t \in Threads, running' = [running EXCEPT ![t] = FALSE]
      PROVE  /\ running' \in [Threads -> BOOLEAN] /\ ~running'[t]
             /\ \A u \in Threads : ~running[u] => ~running'[u]
  BY <1>2 DEF FlagTypes
<1>3. ASSUME NEW t \in Threads, ~running'[t], dead' = Append(dead, t), running' \in [Threads -> BOOLEAN],
             \A u \in Threads : ~running[u] => ~running'[u]
      PROVE  FlagTypes' /\ DeadDoNotRun'
  <2>1. /\ dead' \in Seq(Threads) /\ Len(dead') = Len(dead) + 1 /\ dead'[Len(dead) + 1] = t /\ Len(dead) \in Nat
        /\ \A k \in 1 .. Len(dead) : dead'[k] = dead[k] /\ dead[k] \in Threads
    BY <1>3 DEF FlagTypes
  <2> QED
    BY <1>3, <2>1 DEF FlagTypes, DeadDoNotRun
<1>4. CASE \E t \in Threads : Stopped(t)
  BY <1>2, <1>3, <1>4 DEF Stopped, Threads
<1>5. CASE \E t \in Threads : running' = [running EXCEPT ![t] = FALSE] /\ dead' = dead
  <2>1. \A k \in 1 .. Len(dead) : dead[k] \in Threads
    BY DEF FlagTypes
  <2> QED
    BY <1>2, <1>5, <2>1 DEF FlagTypes, DeadDoNotRun, Threads
<1>6. CASE dead # <<>> /\ dead' = Tail(dead) /\ running' = running
  BY <1>6 DEF FlagTypes, DeadDoNotRun
<1>7. CASE ~running["reactor"] /\ dead' = Append(dead, "reactor") /\ running' = running
  BY <1>3, <1>7 DEF FlagTypes, Threads
<1> QED
  BY <1>1, <1>4, <1>5, <1>6, <1>7

\* A step is one of those, and takes no more from a PV than it sends.
LEMMA ProcessIsInductive == TokenInv /\ ProcessInv /\ [Next]_mergerVars => ProcessInv'
<1> SUFFICES ASSUME TokenInv, ProcessInv, [Next]_mergerVars PROVE ProcessInv'
  OBVIOUS
<1> DEFINE Kept == UNCHANGED <<subs, queue>>
           Flags ==
             \/ UNCHANGED runnableVars
             \/ \E t \in Threads : Stopped(t)
             \/ \E t \in Threads : running' = [running EXCEPT ![t] = FALSE] /\ dead' = dead
             \/ dead # <<>> /\ dead' = Tail(dead) /\ running' = running
             \/ ~running["reactor"] /\ dead' = Append(dead, "reactor") /\ running' = running
<1>1. FlagTypes /\ DeadDoNotRun /\ WaitsForStopped /\ MainTypes /\ InQueueSize /\ InInputs /\ ListenerTypes
  BY DEF ProcessInv, TokenInv
<1>2. queue \in Seq(Token) /\ subs \in [Subs -> Subscription]
  BY <1>1 DEF ListenerTypes
<1>3. CASE ReadCommandLine
  <2>1. Flags /\ MainTypes' /\ Kept
    BY <1>1, <1>3 DEF ReadCommandLine, MainTypes, listenerVars
  <2>2. mpc' # "wait for reactor"
    BY <1>3 DEF ReadCommandLine, StartsWith
  <2> QED
    BY <1>1, <2>1, <2>2, FlagsKept DEF ProcessInv, WaitsForStopped, InQueueSize, InInputs
<1>4. CASE MainNext /\ UNCHANGED argv
  <2>1. CASE PumpQueue
    <3>1. Len(queue') = Len(queue) + 1 /\ Len(queue) < QueueSize /\ subs' = subs
      <4>1. queue' = Append(queue, StopToken) /\ Len(queue) < QueueSize /\ subs' = subs
        BY <2>1 DEF PumpQueue
      <4>2. StopToken \in Token
        BY DEF Token
      <4> QED
        BY <1>2, <4>1, <4>2, AppendedLength
    <3>2. InQueueSize'
      BY <1>2, <3>1, PVListAssumption DEF InQueueSize
    <3>3. Flags /\ MainTypes' /\ WaitsForStopped'
      BY <1>1, <1>4, <2>1 DEF PumpQueue, MainTypes, WaitsForStopped
    <3> QED
      BY <1>1, <3>1, <3>2, <3>3, FlagsKept DEF ProcessInv, InInputs
  <2>2. CASE WaitForDeath
    <3>1. Head(dead) \in Threads
      BY <1>1, <2>2 DEF WaitForDeath, FlagTypes
    <3>2. Flags /\ MainTypes' /\ WaitsForStopped' /\ Kept
      BY <1>1, <1>4, <2>2, <3>1 DEF WaitForDeath, MainTypes, WaitsForStopped, listenerVars
    <3> QED
      BY <1>1, <3>2, FlagsKept DEF ProcessInv, InQueueSize, InInputs
  <2>3. CASE ClosePV \/ StopListener \/ WaitForReactor
    <3>1. MainTypes' /\ WaitsForStopped' /\ Kept
      BY <1>1, <1>4, <2>3 DEF ClosePV, StopListener, WaitForReactor, MainTypes, WaitsForStopped, listenerVars
    <3>2. CASE ClosePV
      BY <1>1, <3>1, <3>2, FlagsKept DEF ClosePV, ProcessInv, InQueueSize, InInputs
    <3>3. CASE StopListener
      <4>1. Flags
        BY <3>3 DEF StopListener, Threads, runnableVars
      <4> QED
        BY <1>1, <3>1, <4>1, FlagsKept DEF ProcessInv, InQueueSize, InInputs
    <3>4. CASE WaitForReactor
      <4>1. Flags
        BY <1>1, <3>4 DEF WaitForReactor, WaitsForStopped
      <4> QED
        BY <1>1, <3>1, <4>1, FlagsKept DEF ProcessInv, InQueueSize, InInputs
    <3> QED
      BY <2>3, <3>2, <3>3, <3>4
  <2>4. CASE StopReactor
    <3>1. MainTypes' /\ Kept
      BY <1>1, <1>4, <2>4 DEF StopReactor, MainTypes, listenerVars
    <3>2. Flags /\ (mpc' = "wait for reactor" => ~running'["reactor"])
      <4>1. \/ mpc' = "destroy reactor" /\ UNCHANGED runnableVars
            \/ running' = [running EXCEPT !["reactor"] = FALSE] /\ dead' = dead
        BY <2>4 DEF StopReactor, runnableVars
      <4>2. running' = [running EXCEPT !["reactor"] = FALSE] => ~running'["reactor"]
        BY <1>1 DEF FlagTypes, Threads
      <4> QED
        BY <4>1, <4>2 DEF Threads
    <3> QED
      BY <1>1, <3>1, <3>2, FlagsKept DEF ProcessInv, WaitsForStopped, InQueueSize, InInputs
  <2>5. ASSUME NEW t \in Threads, NEW at, NEW next, next # "wait for reactor",
               Destroy(t, at, next) \/ Join(rpc = "ended", at, next) \/ Join(lpc = "ended", at, next)
        PROVE  ProcessInv'
    <3>1. Flags /\ MainTypes' /\ WaitsForStopped' /\ Kept
      BY <1>1, <1>4, <2>5 DEF Destroy, Join, MainTypes, WaitsForStopped, listenerVars
    <3> QED
      BY <1>1, <3>1, FlagsKept DEF ProcessInv, InQueueSize, InInputs
  <2> QED
    BY <1>4, <2>1, <2>2, <2>3, <2>4, <2>5 DEF MainNext, Threads
<1>5. CASE ClientNext /\ UNCHANGED <<mainVars, argv>>
  <2> PICK i \in Subs : Arrive(i) \/ Notify(i)
    BY <1>5 DEF ClientNext
  <2>1. Flags /\ MainTypes' /\ mpc' = mpc
    BY <1>1, <1>5 DEF Arrive, Notify, MainTypes, mainVars
  <2>2. InQueueSize'
    BY <1>1, <1>2, PVListAssumption DEF Arrive, Notify, InQueueSize
  <2>3. InInputs'
    <3>1. CASE Notify(i)
      BY <1>1, <3>1 DEF Notify, InInputs
    <3>2. CASE Arrive(i)
      <4>1. Inputs[PVList[i]] \in Seq(Event)
        BY PVListAssumption, SubsAreNumbers DEF Event
      <4>2. subs[i].arrived \in Nat /\ subs[i].arrived < Len(Inputs[PVList[i]])
        BY <1>2, <3>2 DEF Arrive, Subscription
      <4>3. /\ subs'[i].arrived = subs[i].arrived + 1
            /\ \A j \in Subs : j # i => subs'[j] = subs[j]
        BY <1>2, <3>2 DEF Arrive, Subscription
      <4> QED
        BY <1>1, <4>1, <4>2, <4>3 DEF InInputs
    <3> QED
      BY <3>1, <3>2
  <2> QED
    BY <1>1, <2>1, <2>2, <2>3, FlagsKept DEF ProcessInv, WaitsForStopped
<1>6. CASE ListenerNext /\ UNCHANGED <<mainVars, argv>>
  <2>1. Flags
    <3>1. CASE LoopTest \/ TokenEnds \/ PushUpdate
      BY <3>1 DEF LoopTest, TokenEnds, PushUpdate, ListenerEnds, Threads, PushOutcome
    <3>2. CASE TakeToken \/ PopEvent \/ PutBack
      BY <3>2 DEF TakeToken, PopEvent, PutBack
    <3> QED
      BY <1>6, <3>1, <3>2 DEF ListenerNext
  <2>2. InQueueSize'
    <3>1. CASE LoopTest \/ TokenEnds \/ PopEvent \/ PushUpdate
      BY <1>1, <3>1 DEF LoopTest, TokenEnds, PushUpdate, PopEvent, InQueueSize
    <3>2. CASE TakeToken
      BY <1>1, <1>2, <3>2, PVListAssumption DEF TakeToken, InQueueSize
    <3>3. CASE PutBack
      <4>1. item.sub \in Token
        BY <1>1, <3>3 DEF PutBack, ListenerTypes
      <4>2. Len(queue) < QueueSize /\ Len(queue') = Len(queue) + 1 /\ Len(queue) \in Nat
        BY <1>2, <3>3, <4>1, AppendedLength DEF PutBack
      <4> QED
        BY <4>2, PVListAssumption DEF InQueueSize
    <3> QED
      BY <1>6, <3>1, <3>2, <3>3 DEF ListenerNext
  <2>3. \A i \in Subs : subs'[i].arrived = subs[i].arrived
    <3>1. CASE LoopTest \/ TokenEnds \/ TakeToken \/ PutBack
      BY <3>1 DEF LoopTest, TokenEnds, TakeToken, PutBack
    <3>2. CASE PopEvent \/ PushUpdate
      <4>1. \/ subs' = subs
            \/ \E b : subs' = [subs EXCEPT ![item.sub].needNotify = b]
            \/ subs' = [subs EXCEPT ![item.sub].events = Tail(@)]
            \/ subs' = [subs EXCEPT ![item.sub].cancelled = TRUE]
        BY <3>2 DEF PopEvent, PushUpdate, PushOutcome
      <4>2. CASE \E b : subs' = [subs EXCEPT ![item.sub].needNotify = b]
        BY <1>2, <4>2 DEF Subscription
      <4>3. CASE subs' = [subs EXCEPT ![item.sub].events = Tail(@)]
        BY <1>2, <4>3 DEF Subscription
      <4>4. CASE subs' = [subs EXCEPT ![item.sub].cancelled = TRUE]
        BY <1>2, <4>4 DEF Subscription
      <4> QED
        BY <4>1, <4>2, <4>3, <4>4
    <3> QED
      BY <1>6, <3>1, <3>2 DEF ListenerNext
  <2>4. MainTypes' /\ mpc' = mpc
    BY <1>1, <1>6 DEF MainTypes, mainVars
  <2> QED
    BY <1>1, <2>1, <2>2, <2>3, <2>4, FlagsKept DEF ProcessInv, WaitsForStopped, InInputs
<1>7. CASE ReactorNext /\ UNCHANGED <<listenerVars, mainVars, argv>>
  <2>1. Flags
    BY <1>7 DEF ReactorNext, Prepare, OpenPV, TimeOut, StopRequested, ChooseWindow, CallExtract,
                InExtract, ExtractReturns, Post, PostToClosed, Threads
  <2>2. MainTypes' /\ mpc' = mpc /\ Kept
    BY <1>1, <1>7 DEF MainTypes, mainVars, listenerVars
  <2> QED
    BY <1>1, <2>1, <2>2, FlagsKept DEF ProcessInv, WaitsForStopped, InQueueSize, InInputs
<1>8. CASE UNCHANGED mergerVars
  <2>1. Flags /\ MainTypes' /\ mpc' = mpc /\ Kept
    BY <1>1, <1>8 DEF mergerVars, MainTypes, mainVars, listenerVars
  <2> QED
    BY <1>1, <2>1, FlagsKept DEF ProcessInv, WaitsForStopped, InQueueSize, InInputs
<1> QED
  BY <1>3, <1>4, <1>5, <1>6, <1>7, <1>8 DEF Next

\* The types of the listener, of main and of what they share; a thread that is
\* in the queue of the dead no longer has running_ set (mergerMain.cpp:36-60).
THEOREM MergerTypesAlways == Spec => []MergerTypeOK
<1>1. TokenInv /\ ProcessInv => MergerTypeOK
  <2> SUFFICES ASSUME TokenInv, ProcessInv PROVE MergerTypeOK
    OBVIOUS
  <2>1. ListenerTypes /\ FlagTypes /\ DeadDoNotRun /\ MainTypes /\ InQueueSize /\ InInputs
    BY DEF TokenInv, ProcessInv
  <2>2. ASSUME NEW i \in Subs
        PROVE  /\ subs[i].arrived \in 0 .. Len(Inputs[PVList[i]])
               /\ subs[i].needNotify \in BOOLEAN /\ subs[i].cancelled \in BOOLEAN
    <3>1. Len(Inputs[PVList[i]]) \in Nat
      BY PVListAssumption, SubsAreNumbers
    <3> QED
      BY <2>1, <3>1 DEF ListenerTypes, Subscription, InInputs
  <2>3. \A k \in DOMAIN dead : ~running[dead[k]]
    BY <2>1 DEF FlagTypes, DeadDoNotRun
  <2> QED
    BY <2>1, <2>2, <2>3 DEF MergerTypeOK, ListenerTypes, Token, FlagTypes, MainTypes, InQueueSize
<1> QED
  BY <1>1, TokenInvariant, InitiallyProcess, ProcessIsInductive, PTL DEF Spec
=============================================================================
