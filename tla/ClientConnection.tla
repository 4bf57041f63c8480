-------------------------- MODULE ClientConnection --------------------------
(***************************************************************************)
(* The client's transport (client/lib/services/server_connection.dart):    *)
(* connect, disconnect and dispose from the screens, reconnection by timer *)
(* and the generation token that tells a superseded attempt apart.         *)
(*                                                                         *)
(* Dart runs one event at a time and drains the microtask queue before the *)
(* next.  A function that awaits leaves a continuation behind, a record of *)
(* where it goes on and what it captured: it waits in `waiting` for a      *)
(* future, and completing the future moves it to `micro`.  Awaiting null   *)
(* or a completed future goes straight to `micro`.                         *)
(*                                                                         *)
(* The backoff's length and the frames themselves are left out; a timer    *)
(* may fire at any time.                                                   *)
(***************************************************************************)
EXTENDS Integers, Sequences, FiniteSets

CONSTANTS MaxCalls,   \* bound: calls of connect and disconnect
          MaxSockets, \* bound: sockets created
          MaxFaults   \* bound: refused and dropped sockets, failed constructions

ASSUME ConnectionAssumption ==
    MaxCalls \in Nat /\ MaxSockets \in Nat \ {0} /\ MaxFaults \in Nat

VARIABLES
    stopRequested, \* _stopRequested
    generation,    \* _generation
    timer,         \* generation captured by the pending _reconnectTimer, or Null
    fired,         \* generations of timers that fired and whose callback is queued
    channel,       \* _channel, or Null
    subscription,  \* _subscription, or Null
    state,         \* _state
    sockets,       \* each socket created, in order
    closing,       \* sockets whose sink.close() was called
    listening,     \* sockets whose stream is listened to
    completed,     \* futures that have completed
    waiting,       \* the continuations each future will resume, in order
    micro,         \* continuations ready to run, in order
    target,        \* history: a valid address was dialled by the last connect
    crossed,       \* history: a stop was requested behind a connect still to dial
    disposed, calls, faults

vars == <<stopRequested, generation, timer, fired, channel, subscription, state,
          sockets, closing, listening, completed, waiting, micro, target, crossed,
          disposed, calls, faults>>

token   == <<stopRequested, generation, timer>>
queue   == <<completed, waiting, micro>>
history == <<target, crossed>>

-----------------------------------------------------------------------------
Null    == 0
Sockets == 1..MaxSockets
Known   == 1..Len(sockets)
States  == {"disconnected", "connecting", "connected", "reconnecting", "error"}
Goals   == {"disconnect", "connect", "invalid"}

\* What a suspended function goes on with.
Call(then, goal) == [then |-> then, goal |-> goal, gen |-> 0, socket |-> Null]
Open(then, g, s) == [then |-> then, goal |-> "disconnect", gen |-> g, socket |-> s]
Continuations    == [then : {"cancelled", "closed", "ready", "failed"}, goal : Goals,
                     gen : Nat, socket : 0..MaxSockets]
IsStop(k)        == k.then \in {"cancelled", "closed"}
IsDial(k)        == IsStop(k) /\ k.goal = "connect"

Future(what, s)  == [what |-> what, socket |-> s]
Futures          == [what : {"ready", "close", "cancel"}, socket : Sockets]

Fault == faults < MaxFaults /\ faults' = faults + 1

Init ==
    /\ stopRequested = FALSE /\ generation = 0 /\ timer = Null /\ fired = {}
    /\ channel = Null /\ subscription = Null /\ state = "disconnected"
    /\ sockets = <<>> /\ closing = {} /\ listening = {}
    /\ completed = {} /\ waiting = [f \in Futures |-> <<>>] /\ micro = <<>>
    /\ target = FALSE /\ crossed = FALSE /\ disposed = FALSE /\ calls = 0 /\ faults = 0

\* `await f` at the end of the current turn, whose microtasks so far are q.
Await(k, f, q) ==
    IF f.socket = Null \/ f \in completed
    THEN micro' = Append(q, k) /\ waiting' = waiting
    ELSE micro' = q /\ waiting' = [waiting EXCEPT ![f] = Append(@, k)]

\* A future completes as an event of its own.
Complete(f) ==
    /\ micro = <<>> /\ f \notin completed /\ completed' = completed \cup {f}
    /\ micro' = waiting[f] /\ waiting' = [waiting EXCEPT ![f] = <<>>]

\* What the running microtask leaves in the queue.
Rest     == Tail(micro)
Idle     == micro = <<>>
Stale(g) == stopRequested \/ g # generation

-----------------------------------------------------------------------------
(* disconnect, and the beginning of connect *)

\* A connect has still to dial, q being the turn's microtasks so far.
DialPending(q) ==
    \/ \E i \in 1..Len(q) : IsDial(q[i])
    \/ \E f \in Futures : \E i \in 1..Len(waiting[f]) : IsDial(waiting[f][i])

\* The synchronous part, in a turn that has set _generation to g and that
\* listens to `feed`; q are its microtasks so far.
Stop(goal, g, feed, q) ==
    /\ calls < MaxCalls /\ ~disposed /\ calls' = calls + 1
    /\ crossed' = (crossed \/ (goal # "connect" /\ DialPending(q)))
    /\ stopRequested' = TRUE /\ generation' = g + 1 /\ timer' = Null
    /\ Await(Call("cancelled", goal), Future("cancel", feed), q)

\* The subscription stops delivering at once.
Begin(goal) ==
    /\ Idle /\ Stop(goal, generation, subscription, <<>>)
    /\ listening' = listening \ {subscription}
    /\ UNCHANGED <<fired, channel, subscription, state, sockets, closing, completed,
                   target, disposed, faults>>

Cancelled ==
    LET k == Head(micro) IN
    /\ ~Idle /\ k.then = "cancelled"
    /\ subscription' = Null /\ closing' = closing \cup ({channel} \ {Null})
    /\ Await(Call("closed", k.goal), Future("close", channel), Rest)
    /\ UNCHANGED <<fired, channel, state, sockets, listening, completed, history,
                   disposed, calls, faults>>
    /\ UNCHANGED token

Closed ==
    LET k == Head(micro) IN
    /\ ~Idle /\ k.then = "closed" /\ k.goal = "disconnect"
    /\ channel' = Null /\ state' = "disconnected" /\ micro' = Rest
    /\ UNCHANGED <<fired, subscription, sockets, closing, listening, completed, waiting,
                   history, disposed, calls, faults>>
    /\ UNCHANGED token

-----------------------------------------------------------------------------
(* _open and _scheduleReconnect *)

\* Fault: the token is incremented where it is captured and not where it is kept.
ScheduleReconnect_Unstored(stop, g) ==
    IF stop
    THEN state' = "error" /\ generation' = g /\ timer' = timer
    ELSE state' = "reconnecting" /\ generation' = g /\ timer' = g + 1

\* _scheduleReconnect after a report, in a turn that has set _stopRequested to
\* stop and _generation to g; a stop leaves the error standing.
ScheduleReconnect(stop, g) ==
    IF stop
    THEN state' = "error" /\ generation' = g /\ timer' = timer
    ELSE state' = "reconnecting" /\ generation' = g + 1 /\ timer' = g + 1

\* A stop requested in this turn silences the subscription at once.
StillHeard == IF stopRequested' THEN listening \ {subscription} ELSE listening

\* An error is reported, then a reconnection scheduled.  A listener may call
\* disconnect from within the report, as the connect screen does.  feed is the
\* subscription in that turn, q the microtasks left.
ReportError(stop, g, feed, q) ==
    \/ /\ ScheduleReconnect(stop, g)
       /\ stopRequested' = stop /\ micro' = q /\ UNCHANGED <<waiting, calls, crossed>>
    \/ state' = "error" /\ Stop("disconnect", g, feed, q)

\* Fault: the channel is forgotten without being closed.
Drop_KeepsSocket(held) ==
    subscription' = Null /\ listening' = listening \ {subscription} /\ closing' = closing

\* _open past its guard first drops what is there, with the channel it finds.
Drop(held) ==
    /\ subscription' = Null /\ listening' = listening \ {subscription}
    /\ closing' = closing \cup ({held} \ {Null})

\* Then it creates a socket and waits for it to be ready, or the constructor
\* throws, which is reported.
Dial(g, held, q) ==
    LET s == Len(sockets) + 1 IN
    /\ Drop(held) /\ UNCHANGED <<completed, disposed>>
    /\ \/ /\ s \in Sockets /\ sockets' = Append(sockets, "opening")
          /\ channel' = s /\ state' = "connecting"
          /\ stopRequested' = FALSE /\ generation' = g
          /\ Await(Open("ready", g, s), Future("ready", s), q)
          /\ UNCHANGED <<timer, crossed, calls, faults>>
       \/ Fault /\ channel' = Null /\ ReportError(FALSE, g, Null, q) /\ UNCHANGED sockets

\* The same for a connect, which its disconnect resumes as it returns, in the same
\* turn: it dials, or an invalid address is an error and is not retried.
Connect ==
    LET goal == Head(micro).goal IN
    /\ ~Idle /\ Head(micro).then = "closed" /\ goal # "disconnect"
    /\ target' = (goal = "connect")
    /\ IF goal = "connect" THEN Dial(generation + 1, Null, Rest)
       ELSE /\ stopRequested' = FALSE /\ state' = "error" /\ micro' = Rest
            /\ channel' = Null
            /\ UNCHANGED <<generation, timer, subscription, sockets, closing, listening,
                           completed, waiting, crossed, disposed, calls, faults>>
    /\ UNCHANGED fired

\* The timer's event is queued; cancelling it no longer helps.
Fire ==
    /\ timer # Null /\ fired' = fired \cup {timer} /\ timer' = Null
    /\ UNCHANGED <<stopRequested, generation, channel, subscription, state, sockets,
                   closing, listening, history, disposed, calls, faults>>
    /\ UNCHANGED queue

\* The timer's callback: _open with the generation it captured.
Reopen(g) ==
    /\ Idle /\ g \in fired /\ fired' = fired \ {g}
    /\ IF Stale(g)
       THEN /\ UNCHANGED <<channel, subscription, state, sockets, closing, listening,
                           crossed, calls, disposed, faults>>
            /\ UNCHANGED token /\ UNCHANGED queue
       ELSE Dial(generation, channel, <<>>)
    /\ UNCHANGED target

\* Fault: no look at the token after the await.
Opened_Unguarded ==
    LET k == Head(micro) IN
    /\ ~Idle /\ k.then = "ready" /\ sockets[k.socket] = "open"
    /\ subscription' = k.socket /\ listening' = listening \cup {k.socket}
    /\ state' = "connected" /\ micro' = Rest
    /\ UNCHANGED <<fired, channel, sockets, closing, completed, waiting, history,
                   disposed, calls, faults>>
    /\ UNCHANGED token

\* The socket opened: an attempt that was superseded closes it, the current one
\* starts listening.
Opened ==
    LET k == Head(micro) IN
    /\ ~Idle /\ k.then = "ready" /\ sockets[k.socket] = "open"
    /\ IF Stale(k.gen)
       THEN /\ closing' = closing \cup {k.socket}
            /\ UNCHANGED <<subscription, listening, state>>
       ELSE /\ subscription' = k.socket /\ listening' = listening \cup {k.socket}
            /\ state' = "connected" /\ closing' = closing
    /\ micro' = Rest
    /\ UNCHANGED <<fired, channel, sockets, completed, waiting, history, disposed,
                   calls, faults>>
    /\ UNCHANGED token

\* The socket failed: it is closed either way, and the attempt still current
\* gives up the channel and waits for the close before it reports.
Refused ==
    LET k == Head(micro) IN
    /\ ~Idle /\ k.then = "ready" /\ sockets[k.socket] # "open"
    /\ closing' = closing \cup {k.socket}
    /\ IF Stale(k.gen) THEN micro' = Rest /\ UNCHANGED <<channel, waiting>>
       ELSE /\ channel' = Null
            /\ Await(Open("failed", k.gen, k.socket), Future("close", k.socket), Rest)
    /\ UNCHANGED <<fired, subscription, state, sockets, listening, completed, history,
                   disposed, calls, faults>>
    /\ UNCHANGED token

\* After that close the failure is reported, whatever happened meanwhile.
Report ==
    /\ ~Idle /\ Head(micro).then = "failed"
    /\ ReportError(stopRequested, generation, subscription, Rest)
    /\ listening' = StillHeard
    /\ UNCHANGED <<fired, channel, subscription, sockets, closing, completed, target,
                   disposed, faults>>

-----------------------------------------------------------------------------
(* The network, and dispose *)

SocketOpens(s) ==
    /\ sockets[s] = "opening" /\ sockets' = [sockets EXCEPT ![s] = "open"]
    /\ Complete(Future("ready", s))
    /\ UNCHANGED <<fired, channel, subscription, state, closing, listening, history,
                   disposed, calls, faults>>
    /\ UNCHANGED token

\* A refused connection is a fault; one that was closed meanwhile may also fail.
SocketFails(s) ==
    /\ sockets[s] = "opening" /\ sockets' = [sockets EXCEPT ![s] = "dead"]
    /\ IF s \in closing THEN faults' = faults ELSE Fault
    /\ Complete(Future("ready", s))
    /\ UNCHANGED <<fired, channel, subscription, state, closing, listening, history,
                   disposed, calls>>
    /\ UNCHANGED token

SocketCloses(s) ==
    /\ s \in closing /\ sockets[s] # "opening"
    /\ sockets' = [sockets EXCEPT ![s] = "dead"]
    /\ Complete(Future("close", s))
    /\ UNCHANGED <<fired, channel, subscription, state, closing, listening, history,
                   disposed, calls, faults>>
    /\ UNCHANGED token

CancelCompletes(s) ==
    /\ waiting[Future("cancel", s)] # <<>>
    /\ Complete(Future("cancel", s))
    /\ UNCHANGED <<fired, channel, subscription, state, sockets, closing, listening,
                   history, disposed, calls, faults>>
    /\ UNCHANGED token

\* Fault: a clean close is taken for the end of the session.
PeerDrops_Unhandled(s) ==
    /\ Idle /\ s \in listening /\ sockets[s] = "open" /\ Fault
    /\ sockets' = [sockets EXCEPT ![s] = "dead"] /\ listening' = listening \ {s}
    /\ UNCHANGED <<fired, channel, subscription, state, closing, history, disposed,
                   calls>>
    /\ UNCHANGED token /\ UNCHANGED queue

\* The stream ends because the server goes away, a fault, or because the socket was
\* closed: _onDone or, with a report first, _onError.  Neither does anything once
\* a stop was requested.
PeerDrops(s) ==
    /\ Idle /\ s \in listening
    /\ IF s \in closing THEN faults' = faults ELSE Fault
    /\ sockets' = [sockets EXCEPT ![s] = "dead"]
    /\ IF stopRequested
       THEN UNCHANGED <<state, crossed, calls, waiting, micro>> /\ UNCHANGED token
       ELSE ReportError(stopRequested, generation, subscription, <<>>)
    /\ listening' = StillHeard \ {s}
    /\ UNCHANGED <<fired, channel, subscription, closing, completed, target, disposed>>

Dispose ==
    /\ Idle /\ ~disposed /\ disposed' = TRUE
    /\ stopRequested' = TRUE /\ generation' = generation + 1 /\ timer' = Null
    /\ Drop(channel) /\ channel' = Null
    /\ UNCHANGED <<fired, state, sockets, history, calls, faults>>
    /\ UNCHANGED queue

-----------------------------------------------------------------------------
Microtask == Cancelled \/ Closed \/ Connect \/ Opened \/ Refused \/ Report

Next ==
    \/ Microtask \/ Fire \/ Dispose
    \/ \E goal \in Goals : Begin(goal)
    \/ \E g \in fired : Reopen(g)
    \/ \E s \in Known : \/ SocketOpens(s) \/ SocketFails(s) \/ SocketCloses(s)
                        \/ CancelCompletes(s) \/ PeerDrops(s)

Spec == Init /\ [][Next]_vars

\* The event loop runs, timers fire, a socket's future completes, and a socket that
\* was closed ends its stream.
Fairness ==
    /\ WF_vars(Microtask) /\ WF_vars(Fire) /\ WF_vars(\E g \in fired : Reopen(g))
    /\ \A s \in Sockets :
          /\ WF_vars(s \in Known /\ (SocketOpens(s) \/ SocketCloses(s) \/ CancelCompletes(s)))
          /\ WF_vars(s \in closing /\ PeerDrops(s))

FairSpec == Spec /\ Fairness

-----------------------------------------------------------------------------
(* Properties *)

TypeOK ==
    /\ stopRequested \in BOOLEAN /\ generation \in Nat /\ timer \in Nat
    /\ fired \in SUBSET (0..generation)
    /\ channel \in 0..Len(sockets) /\ subscription \in 0..Len(sockets) /\ state \in States
    /\ sockets \in Seq({"opening", "open", "dead"}) /\ Len(sockets) <= MaxSockets
    /\ closing \subseteq Known /\ listening \subseteq Known
    /\ completed \subseteq Futures
    /\ waiting \in [Futures -> Seq(Continuations)]
    /\ micro \in Seq(Continuations)
    /\ target \in BOOLEAN /\ crossed \in BOOLEAN /\ disposed \in BOOLEAN
    /\ calls \in 0..MaxCalls /\ faults \in 0..MaxFaults

\* The three safety properties speak of a transport on which no stop was requested
\* behind a connect that had still to dial: that connect dials first, the stop then
\* forgets the new channel, and the socket comes up all the same.

\* Unless a stop is under way, "connected" means a live channel that is listened
\* to: the session is never ready over a socket that is gone (_onDone, _open).
ConnectedIsLive ==
    ~crossed /\ state = "connected" /\ ~stopRequested =>
        channel # Null /\ channel \in listening

\* Some attempt is still to hear whether the socket opened.
Attempted(s) ==
    \/ \E i \in 1..Len(micro) : micro[i].then = "ready" /\ micro[i].socket = s
    \/ \E f \in Futures : \E i \in 1..Len(waiting[f]) :
          waiting[f][i].then = "ready" /\ waiting[f][i].socket = s

\* A socket that is neither dead nor being closed is the channel, or its attempt
\* will still see that it was superseded: no socket is left to itself (_open).
NoOrphan ==
    ~crossed => \A s \in Known :
        sockets[s] # "dead" /\ s \notin closing => s = channel \/ Attempted(s)

\* Once a requested stop has run its course nothing is connected, dialled or
\* retried until the next connect (disconnect, and the guards on
\* _stopRequested); a queued timer or a late socket cannot undo it.
StoppedIsSilent ==
    ~crossed /\ stopRequested /\ Idle /\ (\A f \in Futures : waiting[f] = <<>>) =>
        /\ listening = {} /\ channel = Null /\ timer = Null
        /\ disposed \/ state \in {"disconnected", "error"}

\* Whoever asked for a valid address and has not stopped (nor crossed a stop with a
\* connect) ends up connected: every failure is followed by another attempt, and the
\* newest token is never lost (_scheduleReconnect).
Reconnects == <>[](target /\ ~stopRequested /\ ~crossed => state = "connected")
=============================================================================
