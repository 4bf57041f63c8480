--------------------------- MODULE ConnLifecycle ---------------------------
(***************************************************************************)
(* How a connection lives and ends (api/client.go run, close and the three *)
(* loops), how the server stops (api/server.go serve, api/hub.go closeAll, *)
(* service_windows.go Execute), and the locks on the way: Store.mu, which  *)
(* a state change holds while it broadcasts and a snapshot while it joins  *)
(* the hub, and hub.mu.  Both are sync.RWMutexes; who holds or awaits them *)
(* is read off the goroutines' places.  c.mu and the send queue's mutex    *)
(* are held only inside one step here.                                     *)
(*                                                                         *)
(* Deltas, acks and snapshots are frames in the state lane and nothing     *)
(* else: what they say is StateSync's and Dispatch's matter, the surface   *)
(* lane SurfaceSync's, the release of held keys HeldKeys', the drain of    *)
(* token exchanges ChatAuth's.                                             *)
(***************************************************************************)
EXTENDS Integers, FiniteSets

CONSTANTS Clients,    \* /ws connections
          Meters,     \* /ws/meters connections
          Poller,     \* a goroutine that updates the Store: poller or chat handler
          Requests,   \* Requests[c]: what a client sends
          SendBuffer  \* state lane (sendBuffer)

Conns  == Clients \cup Meters
Actors == Clients \cup {Poller}
Kinds  == {"malformed", "get_state", "subscribe", "cmd", "ping"}

ASSUME ConnAssumption ==
    /\ Clients \cap Meters = {} /\ Poller \notin Conns
    /\ Requests \in [Clients -> SUBSET Kinds] /\ SendBuffer \in Nat \ {0}

VARIABLES
    srv,      \* where serve is
    stop,     \* the server's context is cancelled
    doomed,   \* closeAll's copy of the hub, still to be closed
    at,       \* where each handler, and the poller, is
    todo,     \* clients a broadcast has still to reach
    hub,      \* hub.clients
    closing,  \* closing and graceful: "no", "graceful" or "abrupt"
    sock,     \* the socket is open
    loops,    \* the connection's other goroutines that still run: "write", "ping"
    queue,    \* frames in the state lane
    final,    \* history: frames up to a malformed frame's answer not yet written
    peer      \* the client: "live", "silent" (no answer) or "gone"

vars == <<srv, stop, doomed, at, todo, hub, closing, sock, loops,
          queue, final, peer>>
server == <<srv, stop, doomed>>

-----------------------------------------------------------------------------
At(a, place)    == at[a] = place
Goto(a, place)  == at' = [at EXCEPT ![a] = place]

Running(c)  == at[c] \notin {"none", "upgrade", "hijacked", "ended"}
Counted     == {c \in Conns : Running(c)}

StoreWriters == {a \in Actors : at[a] \in {"observe", "broadcast"}}
StoreWaiting == {a \in Actors : At(a, "update")}
StoreReaders == {c \in Clients : at[c] \in {"join", "rejoin"}}
HubReaders   == {a \in Actors : At(a, "broadcast")}
HubWaiting   == {c \in Clients : at[c] \in {"join", "leave", "rejoin", "unjoin"}}

\* sync.RWMutex: a waiting writer holds off new readers.
StoreRLock == StoreWriters \cup StoreWaiting = {}
StoreLock  == StoreWriters \cup StoreReaders = {}
HubRLock   == HubWaiting = {}
HubLock    == HubReaders = {}

Init ==
    /\ srv = "serving" /\ stop = FALSE /\ doomed = {} /\ hub = {}
    /\ at = [a \in Conns \cup {Poller} |-> "none"]
    /\ todo = [a \in Actors |-> {}]
    /\ closing = [c \in Conns |-> "no"] /\ sock = [c \in Conns |-> FALSE]
    /\ loops = [c \in Conns |-> {}] /\ queue = [c \in Conns |-> 0]
    /\ final = [c \in Conns |-> 0] /\ peer = [c \in Conns |-> "live"]

-----------------------------------------------------------------------------
(* close and enqueue *)

\* The first call wins; an abrupt one closes the socket under the reader.
Close(c, how) ==
    IF closing[c] = "no"
    THEN /\ closing' = [closing EXCEPT ![c] = how]
         /\ sock' = [sock EXCEPT ![c] = @ /\ how = "graceful"]
    ELSE UNCHANGED <<closing, sock>>

\* A full lane fails the connection.
Enqueue(c) ==
    IF queue[c] < SendBuffer
    THEN queue' = [queue EXCEPT ![c] = @ + 1] /\ UNCHANGED <<closing, sock>>
    ELSE Close(c, "abrupt") /\ UNCHANGED queue

-----------------------------------------------------------------------------
(* run, to the read loop *)

\* A request for an upgrade; one accepted before the listener closed may be
\* read while Shutdown waits.
Dial(c) ==
    /\ At(c, "none") /\ srv \in {"serving", "shutdown"}
    /\ Goto(c, "upgrade")
    /\ UNCHANGED <<server, todo, hub, closing, sock, loops, queue, final, peer>>

\* acceptWS hijacks the connection: Shutdown no longer waits for it.
Hijack(c) ==
    /\ At(c, "upgrade")
    /\ Goto(c, "hijacked") /\ sock' = [sock EXCEPT ![c] = TRUE]
    /\ UNCHANGED <<server, todo, hub, closing, loops, queue, final, peer>>

\* conns.Add; a meter connection only reads.
Count(c) ==
    /\ At(c, "hijacked")
    /\ Goto(c, IF c \in Meters THEN "metering" ELSE "hello")
    /\ UNCHANGED <<server, todo, hub, closing, sock, loops, queue, final, peer>>

\* A meter connection ends with its client, or with the server's context.
MeterEnds(c) ==
    /\ At(c, "metering")
    /\ Goto(c, "ended") /\ sock' = [sock EXCEPT ![c] = FALSE]
    /\ UNCHANGED <<server, todo, hub, closing, loops, queue, final, peer>>

Hello(c) ==
    /\ At(c, "hello")
    /\ Enqueue(c) /\ Goto(c, "snapshot")
    /\ UNCHANGED <<server, todo, hub, loops, final, peer>>

\* SnapshotInto: the snapshot is queued under the store's read lock ...
Snapshot(c) ==
    /\ at[c] \in {"snapshot", "resnap"} /\ StoreRLock
    /\ Enqueue(c) /\ Goto(c, IF At(c, "snapshot") THEN "join" ELSE "rejoin")
    /\ UNCHANGED <<server, todo, hub, loops, final, peer>>

\* What a handler does when its frame is dealt with.
Back(c) == IF closing[c] = "no" THEN "reading" ELSE "closing"

\* ... and the connection joins the hub under it, for good or again.
Join(c) ==
    /\ at[c] \in {"join", "rejoin"} /\ HubLock
    /\ hub' = hub \cup {c}
    /\ Goto(c, IF At(c, "join") THEN "start" ELSE Back(c))
    /\ UNCHANGED <<server, todo, closing, sock, loops, queue, final, peer>>

\* The write and ping loops, and the bridge to the server's context.
StartLoops(c) ==
    /\ At(c, "start")
    /\ loops' = [loops EXCEPT ![c] = {"write", "ping"}] /\ Goto(c, "reading")
    /\ UNCHANGED <<server, todo, hub, closing, sock, queue, final, peer>>

-----------------------------------------------------------------------------
(* readLoop and handle *)

Receives(c, kind) ==
    /\ At(c, "reading") /\ sock[c] /\ peer[c] = "live" /\ kind \in Requests[c]
    /\ UNCHANGED <<server, todo, hub, loops, peer>>

\* The error frame is the last one the client is to see ...
Malformed(c) ==
    /\ Receives(c, "malformed")
    /\ Enqueue(c) /\ Goto(c, "reject")
    /\ final' = [final EXCEPT ![c] = queue'[c]]

\* ... before the close handshake carries the code.
Reject(c) ==
    /\ At(c, "reject")
    /\ Close(c, "graceful") /\ Goto(c, "closing")
    /\ UNCHANGED <<server, todo, hub, loops, queue, final, peer>>

GetState(c) ==
    /\ Receives(c, "get_state") /\ StoreRLock
    /\ Enqueue(c) /\ Goto(c, IF closing'[c] = "no" THEN "reading" ELSE "closing")
    /\ UNCHANGED final

Ping(c) ==
    /\ Receives(c, "ping")
    /\ Enqueue(c) /\ Goto(c, IF closing'[c] = "no" THEN "reading" ELSE "closing")
    /\ UNCHANGED final

Subscribe(c) ==
    /\ Receives(c, "subscribe")
    /\ Goto(c, "leave")
    /\ UNCHANGED <<closing, sock, queue, final>>

Leave(c) ==
    /\ At(c, "leave") /\ HubLock
    /\ hub' = hub \ {c} /\ Goto(c, "resnap")
    /\ UNCHANGED <<server, todo, closing, sock, loops, queue, final, peer>>

Command(c) ==
    /\ Receives(c, "cmd")
    /\ Goto(c, "dispatch")
    /\ UNCHANGED <<closing, sock, queue, final>>

\* The answer is queued; an accepted command then changes the state.
Dispatched(c) ==
    /\ At(c, "dispatch")
    /\ Enqueue(c)
    /\ \/ Goto(c, "update")
       \/ Goto(c, IF closing'[c] = "no" THEN "reading" ELSE "closing")
    /\ UNCHANGED <<server, todo, hub, loops, final, peer>>

\* Read fails: the socket was closed, here or there.
ReadFails(c) ==
    /\ At(c, "reading") /\ (~sock[c] \/ peer[c] = "gone")
    /\ Goto(c, "closing")
    /\ UNCHANGED <<server, todo, hub, closing, sock, loops, queue, final, peer>>

-----------------------------------------------------------------------------
(* Store.Update and broadcastDelta *)

\* A poll, or a chat handler publishing its status.
Poll ==
    /\ At(Poller, "none")
    /\ Goto(Poller, "update")
    /\ UNCHANGED <<server, todo, hub, closing, sock, loops, queue, final, peer>>

\* Where an update returns to.
Return(a) == IF a = Poller THEN "none" ELSE Back(a)

\* A patch of something is broadcast under the lock; an empty one is not.
Update(a) ==
    /\ At(a, "update") /\ StoreLock
    /\ Goto(a, "observe") \/ Goto(a, Return(a))
    /\ UNCHANGED <<server, todo, hub, closing, sock, loops, queue, final, peer>>

\* The clients whose subscription the patch concerns.
Broadcast(a) ==
    /\ At(a, "observe") /\ HubRLock
    /\ Goto(a, "broadcast")
    /\ \E concerned \in SUBSET hub : todo' = [todo EXCEPT ![a] = concerned]
    /\ UNCHANGED <<server, hub, closing, sock, loops, queue, final, peer>>

\* Fault: a connection that is failed is taken out of the hub at once.
SendDelta_Unregisters(a) ==
    /\ At(a, "broadcast")
    /\ \E c \in todo[a] :
         /\ queue[c] < SendBuffer \/ HubLock
         /\ Enqueue(c)
         /\ hub' = IF queue[c] < SendBuffer THEN hub ELSE hub \ {c}
         /\ todo' = [todo EXCEPT ![a] = @ \ {c}]
    /\ UNCHANGED <<server, at, loops, final, peer>>

SendDelta(a) ==
    /\ At(a, "broadcast")
    /\ \E c \in todo[a] : Enqueue(c) /\ todo' = [todo EXCEPT ![a] = @ \ {c}]
    /\ UNCHANGED <<server, at, hub, loops, final, peer>>

Updated(a) ==
    /\ At(a, "broadcast") /\ todo[a] = {}
    /\ Goto(a, Return(a))
    /\ UNCHANGED <<server, todo, hub, closing, sock, loops, queue, final, peer>>

-----------------------------------------------------------------------------
(* writeLoop, pingLoop and the bridge to the server's context *)

Leaves(c, loop) == loops' = [loops EXCEPT ![c] = @ \ {loop}]

\* A silent peer's socket still takes a frame now and then.
Write(c) ==
    /\ "write" \in loops[c] /\ queue[c] > 0 /\ sock[c] /\ peer[c] # "gone"
    /\ queue' = [queue EXCEPT ![c] = @ - 1]
    /\ final' = [final EXCEPT ![c] = IF @ > 0 THEN @ - 1 ELSE 0]
    /\ UNCHANGED <<server, at, todo, hub, closing, sock, loops, peer>>

\* The socket is closed, the peer is gone, or writeTimeout has run out.
WriteFails(c) ==
    /\ "write" \in loops[c] /\ queue[c] > 0 /\ (~sock[c] \/ peer[c] # "live")
    /\ queue' = [queue EXCEPT ![c] = @ - 1]
    /\ Close(c, "abrupt") /\ Leaves(c, "write")
    /\ UNCHANGED <<server, at, todo, hub, final, peer>>

\* Fault: the write loop returns on done without flushing.
WriterDone_NoFlush(c) ==
    /\ "write" \in loops[c] /\ closing[c] # "no"
    /\ Leaves(c, "write")
    /\ UNCHANGED <<server, at, todo, hub, closing, sock, queue, final, peer>>

\* On done, flushRemaining has written what was queued.
WriterDone(c) ==
    /\ "write" \in loops[c] /\ closing[c] # "no" /\ queue[c] = 0
    /\ Leaves(c, "write")
    /\ UNCHANGED <<server, at, todo, hub, closing, sock, queue, final, peer>>

\* No pong within pingTimeout: nobody answers, or nobody reads the answer.
PingFails(c) ==
    /\ "ping" \in loops[c]
    /\ ~sock[c] \/ peer[c] # "live" \/ At(c, "dispatch")
    /\ Close(c, "abrupt") /\ Leaves(c, "ping")
    /\ UNCHANGED <<server, at, todo, hub, queue, final, peer>>

PingerDone(c) ==
    /\ "ping" \in loops[c] /\ closing[c] # "no"
    /\ Leaves(c, "ping")
    /\ UNCHANGED <<server, at, todo, hub, closing, sock, queue, final, peer>>

\* Fault: nobody watches the server's context for the connection.
Bridge_Missing(c) == FALSE /\ loops[c] # {} /\ UNCHANGED vars

\* Server shutdown reaches every connection, whether closeAll saw it or not;
\* the bridge ends with done.
Bridge(c) ==
    /\ stop /\ loops[c] # {} /\ closing[c] = "no"
    /\ Close(c, "abrupt")
    /\ UNCHANGED <<server, at, todo, hub, loops, queue, final, peer>>

-----------------------------------------------------------------------------
(* run, from the read loop's end *)

EndRead(c) ==
    /\ At(c, "closing")
    /\ Close(c, "abrupt") /\ Goto(c, "waiting")
    /\ UNCHANGED <<server, todo, hub, loops, queue, final, peer>>

\* wg.Wait, then closeInfo.
LoopsDone(c) ==
    /\ At(c, "waiting") /\ loops[c] = {}
    /\ IF closing[c] = "graceful"
       THEN Goto(c, "handshake") /\ UNCHANGED sock
       ELSE Goto(c, "unjoin") /\ sock' = [sock EXCEPT ![c] = FALSE]
    /\ UNCHANGED <<server, todo, hub, closing, loops, queue, final, peer>>

\* Fault: the handshake waits for the peer's echo, however long.
Handshake_NoGrace(c) ==
    /\ At(c, "handshake") /\ peer[c] # "silent"
    /\ Goto(c, "unjoin") /\ sock' = [sock EXCEPT ![c] = FALSE]
    /\ UNCHANGED <<server, todo, hub, closing, loops, queue, final, peer>>

\* gracefulClose: the peer echoes, or closeGrace runs out.
Handshake(c) ==
    /\ At(c, "handshake")
    /\ Goto(c, "unjoin") /\ sock' = [sock EXCEPT ![c] = FALSE]
    /\ UNCHANGED <<server, todo, hub, closing, loops, queue, final, peer>>

\* The deferred hub.remove, then conns.Done.
Unjoin(c) ==
    /\ At(c, "unjoin") /\ HubLock
    /\ hub' = hub \ {c} /\ Goto(c, "ended")
    /\ UNCHANGED <<server, todo, closing, sock, loops, queue, final, peer>>

PeerLeaves(c) ==
    /\ sock[c] /\ peer[c] = "live"
    /\ \E how \in {"silent", "gone"} : peer' = [peer EXCEPT ![c] = how]
    /\ UNCHANGED <<server, at, todo, hub, closing, sock, loops, queue, final>>

-----------------------------------------------------------------------------
(* serve and the Windows service *)

conns == <<at, todo, hub, closing, sock, loops, queue, final, peer>>

\* A signal, or the service manager's Stop, cancels the context.
StopRequested ==
    /\ ~stop /\ srv = "serving"
    /\ stop' = TRUE
    /\ UNCHANGED <<srv, doomed>> /\ UNCHANGED conns

\* run returns and the process ends with whatever it was doing.
Exits ==
    /\ srv' = "exited" /\ doomed' = {} /\ hub' = {}
    /\ at' = [a \in DOMAIN at |-> "ended"] /\ todo' = [a \in Actors |-> {}]
    /\ closing' = [c \in Conns |-> "abrupt"] /\ sock' = [c \in Conns |-> FALSE]
    /\ loops' = [c \in Conns |-> {}]
    /\ queue' = [c \in Conns |-> 0] /\ final' = [c \in Conns |-> 0]
    /\ UNCHANGED <<stop, peer>>

\* The listener fails: serve returns at once, without a shutdown.
ServeFails == srv = "serving" /\ Exits

BeginShutdown ==
    /\ srv = "serving" /\ stop
    /\ srv' = "shutdown"
    /\ UNCHANGED <<stop, doomed>> /\ UNCHANGED conns

\* closeAll copies the hub and closes what it copied.
CloseAll(next) == HubRLock /\ srv' = next /\ doomed' = hub /\ UNCHANGED stop

\* Shutdown waits for the requests that are not hijacked.
ShutdownDone ==
    /\ srv = "shutdown" /\ \A c \in Conns : ~At(c, "upgrade")
    /\ CloseAll("closeall") /\ UNCHANGED conns

\* shutdownTimeout runs out in Shutdown, and so for waitConns too.
ShutdownExpires ==
    /\ srv = "shutdown"
    /\ CloseAll("late") /\ UNCHANGED conns

CloseOne ==
    /\ srv \in {"closeall", "late"}
    /\ \E c \in doomed : Close(c, "abrupt") /\ doomed' = doomed \ {c}
    /\ UNCHANGED <<srv, stop, at, todo, hub, loops, queue, final, peer>>

CloseAllDone ==
    /\ srv = "closeall" /\ doomed = {}
    /\ srv' = "wait"
    /\ UNCHANGED <<stop, doomed>> /\ UNCHANGED conns

\* waitConns: conns.Wait returns, or the timeout has run out before ...
Waited ==
    /\ \/ srv = "wait" /\ Counted = {}
       \/ srv = "late" /\ doomed = {}
    /\ Exits

\* ... or does so now.
WaitExpires == srv = "wait" /\ Exits

-----------------------------------------------------------------------------
Locking(a) == IF a = Poller THEN Update(a) \/ Broadcast(a)
              ELSE Snapshot(a) \/ Join(a) \/ Leave(a) \/ Update(a) \/ Broadcast(a) \/ Unjoin(a)

Handler(c) ==
    \/ Hijack(c) \/ Count(c) \/ (stop /\ MeterEnds(c))
    \/ c \in Clients /\ ( \/ Hello(c) \/ StartLoops(c) \/ Reject(c) \/ Dispatched(c)
                          \/ ReadFails(c) \/ EndRead(c) \/ LoopsDone(c) \/ Handshake(c))
Loops(c)  == Write(c) \/ WriteFails(c) \/ WriterDone(c) \/ PingerDone(c) \/ Bridge(c)
             \/ PingFails(c)
Sends(a)  == SendDelta(a) \/ Updated(a)
Frames(c) == Malformed(c) \/ GetState(c) \/ Ping(c) \/ Subscribe(c) \/ Command(c)
Serve     == BeginShutdown \/ ShutdownDone \/ CloseOne \/ CloseAllDone \/ Waited

Next ==
    \/ \E c \in Conns : Dial(c) \/ Handler(c) \/ MeterEnds(c)
    \/ \E c \in Clients : Frames(c) \/ Loops(c) \/ PeerLeaves(c)
    \/ Poll \/ \E a \in Actors : Locking(a) \/ Sends(a)
    \/ StopRequested \/ ServeFails \/ ShutdownExpires \/ WaitExpires \/ Serve
    \/ srv = "exited" /\ UNCHANGED vars

Spec == Init /\ [][Next]_vars

\* Nobody has to dial, send, poll or leave, no server has to stop, and no
\* timeout has to expire for what must happen.  A ping has to fail only when
\* nobody will answer it.  Go's RWMutex starves neither readers nor writers.
PingMustFail(c) == PingFails(c) /\ (~sock[c] \/ peer[c] # "live")

Fairness ==
    /\ \A c \in Conns : WF_vars(Handler(c))
    /\ \A c \in Clients :
         /\ WF_vars(Write(c) \/ WriteFails(c)) /\ SF_vars(WriterDone(c))
         /\ WF_vars(PingerDone(c)) /\ WF_vars(PingMustFail(c)) /\ WF_vars(Bridge(c))
    /\ \A a \in Actors : SF_vars(Locking(a)) /\ WF_vars(Sends(a))
    /\ WF_vars(Serve)

FairSpec == Spec /\ Fairness
-----------------------------------------------------------------------------
Places == {"none", "upgrade", "hijacked", "metering", "hello", "snapshot", "join",
           "start", "reading", "reject", "leave", "resnap", "rejoin", "dispatch",
           "update", "observe", "broadcast", "closing", "waiting", "handshake",
           "unjoin", "ended"}

\* Every variable has its shape, and the locks exclude whom they must.
TypeOK ==
    /\ srv \in {"serving", "shutdown", "closeall", "late", "wait", "exited"}
    /\ stop \in BOOLEAN /\ doomed \subseteq Clients /\ hub \subseteq Clients
    /\ at \in [Conns \cup {Poller} -> Places]
    /\ todo \in [Actors -> SUBSET Clients]
    /\ closing \in [Conns -> {"no", "graceful", "abrupt"}]
    /\ sock \in [Conns -> BOOLEAN]
    /\ loops \in [Conns -> SUBSET {"write", "ping"}]
    /\ queue \in [Conns -> 0 .. SendBuffer] /\ final \in [Conns -> 0 .. SendBuffer]
    /\ peer \in [Conns -> {"live", "silent", "gone"}]
    /\ Cardinality(StoreWriters) <= 1 /\ (StoreWriters = {} \/ StoreReaders = {})

\* The answer to a malformed frame, and all that was queued before it, is
\* written before the close handshake sends the code: the handshake starts only
\* when the write loop has flushed, and nothing else closes the socket under it
\* (client.go writeLoop, close, run).
FinalFrameSent ==
    \A c \in Clients : At(c, "handshake") /\ peer[c] = "live" => final[c] = 0

\* A state change that is under way comes to its end, whoever joins, leaves or
\* falls behind meanwhile: closing a connection from within a broadcast, under
\* the store's lock and the hub's, waits for neither (client.go close's lock
\* order, hub.go broadcastDelta).
UpdatesEnd ==
    \A a \in Actors :
        at[a] \in {"update", "observe", "broadcast"}
            ~> (at[a] \notin {"update", "observe", "broadcast"} \/ srv = "exited")

\* A writer that keeps up finds its queue empty again and again.
KeepsUp(c) == []<>(queue[c] = 0 \/ "write" \notin loops[c])

\* A connection that began to close is torn down: its loops end, its handshake
\* is bounded, and it leaves the hub.
TornDown ==
    \A c \in Clients :
        KeepsUp(c) => (closing[c] # "no" ~> (At(c, "ended") \/ srv = "exited"))

\* An operator's stop ends the process although no timeout ever expires: the
\* bridge reaches the connections closeAll's copy of the hub missed, and a meter
\* connection's read is bound to the server's context (server.go serve).
StopEnds == (\A c \in Clients : KeepsUp(c)) => (stop ~> srv = "exited")
=============================================================================
