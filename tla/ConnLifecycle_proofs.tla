------------------------ MODULE ConnLifecycle_proofs ------------------------
(***************************************************************************)
(* A rejected client is told why, the store's lock excludes, and an ended  *)
(* connection leaves nothing behind, for any number of connections, any    *)
(* requests, any send buffer and a stop at any moment.                     *)
(***************************************************************************)
EXTENDS ConnLifecycle, FiniteSetTheorems, TLAPS

Shape ==
    /\ at \in [Conns \cup {Poller} -> Places]
    /\ todo \in [Actors -> SUBSET Clients]
    /\ hub \in SUBSET Clients /\ doomed \in SUBSET Clients
    /\ closing \in [Conns -> {"no", "graceful", "abrupt"}]
    /\ sock \in [Conns -> BOOLEAN]
    /\ loops \in [Conns -> SUBSET {"write", "ping"}]
    /\ queue \in [Conns -> Nat] /\ final \in [Conns -> Nat]
    /\ peer \in [Conns -> {"live", "silent", "gone"}]

Before == {"none", "upgrade", "hijacked", "hello", "snapshot", "join", "start"}
Served == {"reading", "reject", "leave", "resnap", "rejoin", "dispatch",
           "update", "observe", "broadcast"}
Ending == {"closing", "waiting"}
After  == {"handshake", "unjoin", "ended"}

\* A graceful close comes from the reader, and nothing closes the socket before
\* the handshake; while the write loop runs, the frames that are to be written
\* last are in the queue; it stops when the queue is empty or the peer is lost.
Flushed(c) ==
    /\ at[c] \in Before \cup Served \cup Ending \cup After
    /\ at[c] \in Before => final[c] = 0 /\ loops[c] = {}
    /\ at[c] \in After => loops[c] = {}
    /\ at[c] \in Served /\ closing[c] = "no" => "write" \in loops[c]
    /\ closing[c] = "graceful" => at[c] \in Ending \cup After
    /\ closing[c] = "graceful" /\ at[c] \in Ending => sock[c]
    /\ closing[c] = "no" /\ at[c] \in Served \cup Ending => sock[c]
    /\ closing[c] = "no" /\ at[c] \in Before \ {"none", "upgrade"} => sock[c]
    /\ "write" \in loops[c] => final[c] <= queue[c]
    /\ closing[c] = "graceful" /\ "write" \notin loops[c] /\ peer[c] = "live" => final[c] = 0
    /\ At(c, "handshake") => closing[c] = "graceful"

LifeInv == Shape /\ \A c \in Clients : Flushed(c)

LEMMA LifeInit == Init => LifeInv
BY DEF Init, LifeInv, Shape, Flushed, Before, Served, Ending, After, Places, At,
       Conns, Actors

-----------------------------------------------------------------------------
(* close and enqueue *)

\* Every other connection keeps what a call on c may change.
Alone(c) ==
    \A d \in Conns \ {c} : /\ closing'[d] = closing[d] /\ sock'[d] = sock[d]
                           /\ queue'[d] = queue[d]

\* What a close by someone else, or another frame, makes of a connection.
Aside(c) ==
    /\ at'[c] = at[c] /\ loops'[c] = loops[c] /\ peer'[c] = peer[c] /\ final'[c] = final[c]
    /\ queue'[c] >= queue[c]
    /\ \/ closing'[c] = closing[c] /\ sock'[c] = sock[c]
       \/ closing[c] = "no" /\ closing'[c] = "abrupt"

LEMMA AsideFlushed ==
    ASSUME LifeInv, Shape', NEW c \in Clients, Aside(c)
    PROVE  Flushed(c)'
BY DEF LifeInv, Shape, Flushed, Aside, At, Conns, Before, Served, Ending, After

LEMMA ClientsAreConns == Clients \subseteq Conns /\ Clients \subseteq Actors
BY DEF Conns, Actors

LEMMA CloseEffect ==
    ASSUME LifeInv, NEW c \in Conns, NEW how \in {"graceful", "abrupt"}, Close(c, how)
    PROVE  /\ closing' \in [Conns -> {"no", "graceful", "abrupt"}]
           /\ sock' \in [Conns -> BOOLEAN]
           /\ closing'[c] = IF closing[c] = "no" THEN how ELSE closing[c]
           /\ sock'[c] = IF closing[c] = "no" /\ how = "abrupt" THEN FALSE ELSE sock[c]
           /\ \A d \in Conns \ {c} : closing'[d] = closing[d] /\ sock'[d] = sock[d]
BY DEF LifeInv, Shape, Close

LEMMA AbruptEffect ==
    ASSUME LifeInv, NEW c \in Conns, Close(c, "abrupt")
    PROVE  /\ closing' \in [Conns -> {"no", "graceful", "abrupt"}]
           /\ sock' \in [Conns -> BOOLEAN]
           /\ \/ closing'[c] = closing[c] /\ sock'[c] = sock[c] /\ closing[c] # "no"
              \/ closing[c] = "no" /\ closing'[c] = "abrupt" /\ sock'[c] = FALSE
           /\ \A d \in Conns \ {c} : closing'[d] = closing[d] /\ sock'[d] = sock[d]
BY DEF LifeInv, Shape, Close

LEMMA EnqueueEffect ==
    ASSUME LifeInv, NEW c \in Conns, Enqueue(c)
    PROVE  /\ closing' \in [Conns -> {"no", "graceful", "abrupt"}]
           /\ sock' \in [Conns -> BOOLEAN] /\ queue' \in [Conns -> Nat]
           /\ queue'[c] >= queue[c] /\ Alone(c)
           /\ \/ closing'[c] = closing[c] /\ sock'[c] = sock[c]
              \/ closing[c] = "no" /\ closing'[c] = "abrupt"
<1>1. CASE queue[c] < SendBuffer
  BY <1>1 DEF LifeInv, Shape, Enqueue, Alone
<1>2. CASE ~(queue[c] < SendBuffer)
  <2>1. Close(c, "abrupt") /\ queue' = queue
    BY <1>2 DEF Enqueue
  <2>2. /\ closing' \in [Conns -> {"no", "graceful", "abrupt"}]
        /\ sock' \in [Conns -> BOOLEAN]
        /\ \A d \in Conns \ {c} : closing'[d] = closing[d] /\ sock'[d] = sock[d]
        /\ \/ closing'[c] = closing[c] /\ sock'[c] = sock[c]
           \/ closing[c] = "no" /\ closing'[c] = "abrupt"
    BY <2>1, AbruptEffect
  <2>3. queue' \in [Conns -> Nat] /\ queue'[c] >= queue[c]
    BY <2>1 DEF LifeInv, Shape
  <2> QED BY <2>1, <2>2, <2>3 DEF Alone
<1> QED BY <1>1, <1>2

-----------------------------------------------------------------------------
(* One action at a time *)

\* A step of connection d's own leaves the others as they are.
LEMMA OwnStep ==
    ASSUME LifeInv, Shape', NEW d \in Conns,
           \A c \in Clients \ {d} : Aside(c),
           d \in Clients => Flushed(d)'
    PROVE  LifeInv'
BY AsideFlushed DEF LifeInv

LEMMA BeginStep ==
    ASSUME LifeInv, NEW d \in Conns, Dial(d) \/ Hijack(d) \/ Count(d) \/ MeterEnds(d)
    PROVE  LifeInv'
<1>1. Shape'
  <2>1. at' \in [Conns \cup {Poller} -> Places]
    BY DEF LifeInv, Shape, Dial, Hijack, Count, MeterEnds, Goto, Places
  <2>2. sock' \in [Conns -> BOOLEAN]
    BY DEF LifeInv, Shape, Dial, Hijack, Count, MeterEnds
  <2>3. UNCHANGED <<todo, hub, doomed, closing, loops, queue, final, peer>>
    BY DEF Dial, Hijack, Count, MeterEnds, server
  <2> QED BY <2>1, <2>2, <2>3 DEF LifeInv, Shape
<1>2. \A c \in Clients \ {d} : Aside(c)
  BY DEF LifeInv, Shape, Dial, Hijack, Count, MeterEnds, Goto, Aside, At, Conns
<1>3. d \in Clients => Flushed(d)'
  BY ConnAssumption DEF ConnAssumption, LifeInv, Shape, Flushed, Dial, Hijack, Count, MeterEnds,
     Goto, At, Conns, Before, Served, Ending, After
<1> QED BY <1>1, <1>2, <1>3, OwnStep

LEMMA JoinStep ==
    ASSUME LifeInv, NEW d \in Clients,
           Hello(d) \/ Snapshot(d) \/ Join(d) \/ Leave(d) \/ Unjoin(d) \/ StartLoops(d)
    PROVE  LifeInv'
<1>1. Shape'
  <2>1. CASE Hello(d) \/ Snapshot(d)
    BY <2>1, EnqueueEffect DEF LifeInv, Shape, Hello, Snapshot, Goto, server, Places, At, Conns
  <2>2. CASE Join(d) \/ Leave(d) \/ Unjoin(d) \/ StartLoops(d)
    BY <2>2 DEF LifeInv, Shape, Join, Leave, Unjoin, StartLoops, Goto, Back, server, Places, At, Conns
  <2> QED BY <2>1, <2>2
<1>2. \A c \in Clients \ {d} : Aside(c)
  <2>1. CASE Hello(d) \/ Snapshot(d)
    BY <2>1, EnqueueEffect DEF LifeInv, Shape, Hello, Snapshot, Goto, Aside, Alone, Conns
  <2>2. CASE Join(d) \/ Leave(d) \/ Unjoin(d) \/ StartLoops(d)
    BY <2>2 DEF LifeInv, Shape, Join, Leave, Unjoin, StartLoops, Goto, Aside, Conns
  <2> QED BY <2>1, <2>2
<1>3. Flushed(d)'
  <2>1. CASE Hello(d) \/ Snapshot(d)
    BY <2>1, EnqueueEffect DEF LifeInv, Shape, Flushed, Hello, Snapshot, Goto, At, Conns,
       Before, Served, Ending, After
  <2>2. CASE Join(d) \/ Leave(d) \/ Unjoin(d) \/ StartLoops(d)
    BY <2>2 DEF LifeInv, Shape, Flushed, Join, Leave, Unjoin, StartLoops, Goto, Back, At, Conns,
       Before, Served, Ending, After
  <2> QED BY <2>1, <2>2
<1> QED BY <1>1, <1>2, <1>3, OwnStep, ClientsAreConns

LEMMA FrameStep ==
    ASSUME LifeInv, NEW d \in Clients, Frames(d) \/ Dispatched(d)
    PROVE  LifeInv'
<1> USE DEF Receives, Goto
<1>1. CASE Subscribe(d) \/ Command(d)
  <2>1. Shape'
    BY <1>1 DEF LifeInv, Shape, Subscribe, Command, server, Places, At, Conns
  <2>2. \A c \in Clients \ {d} : Aside(c)
    BY <1>1 DEF LifeInv, Shape, Subscribe, Command, Aside, Conns
  <2>3. Flushed(d)'
    BY <1>1 DEF LifeInv, Shape, Flushed, Subscribe, Command, At, Conns,
       Before, Served, Ending, After
  <2> QED BY <2>1, <2>2, <2>3, OwnStep, ClientsAreConns
<1>2. CASE GetState(d) \/ Ping(d) \/ Dispatched(d)
  <2>1. Shape'
    BY <1>2, EnqueueEffect DEF LifeInv, Shape, GetState, Ping, Dispatched, server, Places, At, Conns
  <2>2. \A c \in Clients \ {d} : Aside(c)
    BY <1>2, EnqueueEffect DEF LifeInv, Shape, GetState, Ping, Dispatched, Aside, Alone, Conns
  <2>3. Flushed(d)'
    BY <1>2, EnqueueEffect DEF LifeInv, Shape, Flushed, GetState, Ping, Dispatched, At, Conns,
       Before, Served, Ending, After
  <2> QED BY <2>1, <2>2, <2>3, OwnStep, ClientsAreConns
<1>3. CASE Malformed(d)
  <2>1. Shape'
    BY <1>3, EnqueueEffect DEF LifeInv, Shape, Malformed, server, Places, At, Conns
  <2>2. \A c \in Clients \ {d} : Aside(c)
    BY <1>3, EnqueueEffect DEF LifeInv, Shape, Malformed, Aside, Alone, Conns
  <2>3. Flushed(d)'
    BY <1>3, EnqueueEffect DEF LifeInv, Shape, Flushed, Malformed, At, Conns,
       Before, Served, Ending, After
  <2> QED BY <2>1, <2>2, <2>3, OwnStep, ClientsAreConns
<1> QED BY <1>1, <1>2, <1>3 DEF Frames

LEMMA ReaderStep ==
    ASSUME LifeInv, NEW d \in Clients,
           Reject(d) \/ EndRead(d) \/ ReadFails(d) \/ LoopsDone(d) \/ Handshake(d) \/ PeerLeaves(d)
    PROVE  LifeInv'
<1> USE DEF Goto
<1>1. CASE Reject(d) \/ EndRead(d)
  <2>1. Shape'
    <3>1. Close(d, "graceful") \/ Close(d, "abrupt")
      BY <1>1 DEF Reject, EndRead
    <3>2. /\ closing' \in [Conns -> {"no", "graceful", "abrupt"}]
          /\ sock' \in [Conns -> BOOLEAN]
      BY <3>1, CloseEffect, ClientsAreConns
    <3>3. at' \in [Conns \cup {Poller} -> Places]
      BY <1>1 DEF LifeInv, Shape, Reject, EndRead, Places
    <3>4. UNCHANGED <<server, todo, hub, loops, queue, final, peer>>
      BY <1>1 DEF Reject, EndRead
    <3> QED BY <3>2, <3>3, <3>4 DEF LifeInv, Shape, server
  <2>2. \A c \in Clients \ {d} : Aside(c)
    <3>1. Close(d, "graceful") \/ Close(d, "abrupt")
      BY <1>1 DEF Reject, EndRead
    <3>2. \A c \in Conns \ {d} : closing'[c] = closing[c] /\ sock'[c] = sock[c]
      BY <3>1, CloseEffect, ClientsAreConns
    <3>3. \A c \in Conns \ {d} : /\ at'[c] = at[c] /\ loops'[c] = loops[c] /\ peer'[c] = peer[c]
                                 /\ final'[c] = final[c] /\ queue'[c] >= queue[c]
      BY <1>1 DEF LifeInv, Shape, Reject, EndRead
    <3> QED BY <3>2, <3>3 DEF Aside, Conns
  <2>3. Flushed(d)'
    <3>1. CASE Reject(d)
      <4>1. /\ closing'[d] = IF closing[d] = "no" THEN "graceful" ELSE closing[d]
            /\ sock'[d] = sock[d]
        BY <3>1, CloseEffect, ClientsAreConns DEF Reject
      <4>2. /\ at[d] = "reject" /\ at'[d] = "closing"
            /\ UNCHANGED <<loops, queue, final, peer>>
        BY <3>1 DEF LifeInv, Shape, Reject, At, Conns
      <4> QED BY <4>1, <4>2 DEF LifeInv, Flushed, At, Before, Served, Ending, After
    <3>2. CASE EndRead(d)
      <4>1. /\ closing'[d] = IF closing[d] = "no" THEN "abrupt" ELSE closing[d]
            /\ sock'[d] = IF closing[d] = "no" THEN FALSE ELSE sock[d]
        BY <3>2, CloseEffect, ClientsAreConns DEF EndRead
      <4>2. /\ at[d] = "closing" /\ at'[d] = "waiting"
            /\ UNCHANGED <<loops, queue, final, peer>>
        BY <3>2 DEF LifeInv, Shape, EndRead, At, Conns
      <4> QED BY <4>1, <4>2 DEF LifeInv, Flushed, At, Before, Served, Ending, After
    <3> QED BY <1>1, <3>1, <3>2
  <2> QED BY <2>1, <2>2, <2>3, OwnStep, ClientsAreConns
<1>2. CASE ReadFails(d) \/ LoopsDone(d) \/ Handshake(d) \/ PeerLeaves(d)
  <2>1. Shape'
    <3>1. at' \in [Conns \cup {Poller} -> Places]
      BY <1>2 DEF LifeInv, Shape, ReadFails, LoopsDone, Handshake, PeerLeaves, Places
    <3>2. sock' \in [Conns -> BOOLEAN]
      BY <1>2, ClientsAreConns DEF LifeInv, Shape, ReadFails, LoopsDone, Handshake, PeerLeaves
    <3>3. peer' \in [Conns -> {"live", "silent", "gone"}]
      BY <1>2, ClientsAreConns DEF LifeInv, Shape, ReadFails, LoopsDone, Handshake, PeerLeaves
    <3>4. UNCHANGED <<todo, hub, doomed, closing, loops, queue, final>>
      BY <1>2 DEF ReadFails, LoopsDone, Handshake, PeerLeaves, server
    <3> QED BY <3>1, <3>2, <3>3, <3>4 DEF LifeInv, Shape
  <2>2. \A c \in Clients \ {d} : Aside(c)
    BY <1>2 DEF LifeInv, Shape, ReadFails, LoopsDone, Handshake, PeerLeaves, Aside, Conns
  <2>3. Flushed(d)'
    BY <1>2 DEF LifeInv, Shape, Flushed, ReadFails, LoopsDone, Handshake, PeerLeaves, At, Conns,
       Before, Served, Ending, After
  <2> QED BY <2>1, <2>2, <2>3, OwnStep, ClientsAreConns
<1> QED BY <1>1, <1>2

LEMMA LoopStep ==
    ASSUME LifeInv, NEW d \in Clients, Loops(d)
    PROVE  LifeInv'
<1> USE DEF Leaves
<1>1. CASE Write(d) \/ WriterDone(d) \/ PingerDone(d)
  <2>1. Shape'
    BY <1>1 DEF LifeInv, Shape, Write, WriterDone, PingerDone, server, Conns
  <2>2. \A c \in Clients \ {d} : Aside(c)
    BY <1>1 DEF LifeInv, Shape, Write, WriterDone, PingerDone, Aside, Conns
  <2>3. Flushed(d)'
    BY <1>1 DEF LifeInv, Shape, Flushed, Write, WriterDone, PingerDone, At, Conns,
       Before, Served, Ending, After
  <2> QED BY <2>1, <2>2, <2>3, OwnStep, ClientsAreConns
<1>2. CASE WriteFails(d) \/ PingFails(d) \/ Bridge(d)
  <2>1. Shape'
    <3>1. /\ closing' \in [Conns -> {"no", "graceful", "abrupt"}]
          /\ sock' \in [Conns -> BOOLEAN]
      BY <1>2, AbruptEffect, ClientsAreConns DEF WriteFails, PingFails, Bridge
    <3>2. /\ queue' \in [Conns -> Nat] /\ loops' \in [Conns -> SUBSET {"write", "ping"}]
          /\ UNCHANGED <<server, at, todo, hub, final, peer>>
      BY <1>2 DEF LifeInv, Shape, WriteFails, PingFails, Bridge
    <3> QED BY <3>1, <3>2 DEF LifeInv, Shape, server
  <2>2. \A c \in Clients \ {d} : Aside(c)
    <3>1. \A c \in Conns \ {d} : closing'[c] = closing[c] /\ sock'[c] = sock[c]
      BY <1>2, AbruptEffect, ClientsAreConns DEF WriteFails, PingFails, Bridge
    <3>2. \A c \in Conns \ {d} : /\ at'[c] = at[c] /\ loops'[c] = loops[c] /\ peer'[c] = peer[c]
                                 /\ final'[c] = final[c] /\ queue'[c] >= queue[c]
      BY <1>2 DEF LifeInv, Shape, WriteFails, PingFails, Bridge
    <3> QED BY <3>1, <3>2 DEF Aside, Conns
  <2>3. Flushed(d)'
    <3>1. CASE WriteFails(d)
      BY <3>1, AbruptEffect DEF LifeInv, Shape, Flushed, WriteFails, At, Conns,
         Before, Served, Ending, After
    <3>2. CASE PingFails(d)
      BY <3>2, AbruptEffect DEF LifeInv, Shape, Flushed, PingFails, At, Conns,
         Before, Served, Ending, After
    <3>3. CASE Bridge(d)
      BY <3>3, AbruptEffect DEF LifeInv, Shape, Flushed, Bridge, At, Conns,
         Before, Served, Ending, After
    <3> QED BY <1>2, <3>1, <3>2, <3>3
  <2> QED BY <2>1, <2>2, <2>3, OwnStep, ClientsAreConns
<1> QED BY <1>1, <1>2 DEF Loops

LEMMA UpdateStep ==
    ASSUME LifeInv, NEW a \in Actors, Update(a) \/ Broadcast(a) \/ Updated(a) \/ (a = Poller /\ Poll)
    PROVE  LifeInv'
<1> USE DEF Goto, Return, Back
<1>1. Shape'
  BY DEF LifeInv, Shape, Update, Broadcast, Updated, Poll, server, Places, At, Conns, Actors
<1>2. \A c \in Clients \ {a} : Aside(c)
  BY DEF LifeInv, Shape, Update, Broadcast, Updated, Poll, Aside, Conns, Actors
<1>3. a \in Clients => Flushed(a)'
  BY ConnAssumption DEF ConnAssumption, LifeInv, Shape, Flushed, Update, Broadcast, Updated, Poll,
     At, Conns, Actors, Before, Served, Ending, After
<1> QED BY <1>1, <1>2, <1>3, AsideFlushed DEF LifeInv

LEMMA SendStep ==
    ASSUME LifeInv, NEW a \in Actors, SendDelta(a)
    PROVE  LifeInv'
<1>1. PICK d \in todo[a] : Enqueue(d) /\ todo' = [todo EXCEPT ![a] = @ \ {d}]
  BY DEF SendDelta
<1>2. d \in Clients
  BY DEF LifeInv, Shape
<1>3. Shape'
  BY <1>1, <1>2, EnqueueEffect DEF LifeInv, Shape, SendDelta, server, Conns
<1>4. \A c \in Clients : Aside(c)
  BY <1>1, <1>2, EnqueueEffect DEF LifeInv, Shape, SendDelta, Aside, Alone, Conns
<1> QED BY <1>3, <1>4, AsideFlushed DEF LifeInv

-----------------------------------------------------------------------------
(* The server *)

LEMMA ExitStep ==
    ASSUME LifeInv, Exits
    PROVE  LifeInv'
<1>1. Shape'
  BY DEF LifeInv, Shape, Exits, Places, Conns
<1>2. \A c \in Clients : Flushed(c)'
  BY DEF LifeInv, Shape, Flushed, Exits, At, Conns, Before, Served, Ending, After
<1> QED BY <1>1, <1>2 DEF LifeInv

LEMMA ServeStep ==
    ASSUME LifeInv,
           StopRequested \/ ServeFails \/ ShutdownExpires \/ WaitExpires \/ Serve
    PROVE  LifeInv'
<1>1. CASE ServeFails \/ WaitExpires \/ Waited
  BY <1>1, ExitStep DEF ServeFails, WaitExpires, Waited
<1>2. CASE StopRequested \/ BeginShutdown \/ ShutdownDone \/ ShutdownExpires \/ CloseAllDone
  <2>1. Shape' /\ UNCHANGED conns
    BY <1>2 DEF LifeInv, Shape, StopRequested, BeginShutdown, ShutdownDone, ShutdownExpires,
       CloseAllDone, CloseAll, conns
  <2>2. \A c \in Clients : Aside(c)
    BY <2>1 DEF LifeInv, Shape, conns, Aside, Conns
  <2> QED BY <2>1, <2>2, AsideFlushed DEF LifeInv
<1>3. CASE CloseOne
  <2>1. PICK d \in doomed : Close(d, "abrupt") /\ doomed' = doomed \ {d}
    BY <1>3 DEF CloseOne
  <2>2. d \in Clients
    BY DEF LifeInv, Shape
  <2>3. Shape'
    <3>1. /\ closing' \in [Conns -> {"no", "graceful", "abrupt"}]
          /\ sock' \in [Conns -> BOOLEAN]
      BY <2>1, <2>2, AbruptEffect, ClientsAreConns
    <3>2. doomed' \in SUBSET Clients /\ UNCHANGED <<at, todo, hub, loops, queue, final, peer>>
      BY <1>3, <2>1 DEF LifeInv, Shape, CloseOne
    <3> QED BY <3>1, <3>2 DEF LifeInv, Shape
  <2>4. \A c \in Clients : Aside(c)
    <3>1. \A c \in Conns : \/ closing'[c] = closing[c] /\ sock'[c] = sock[c]
                           \/ closing[c] = "no" /\ closing'[c] = "abrupt"
      BY <2>1, <2>2, AbruptEffect, ClientsAreConns
    <3>2. \A c \in Conns : /\ at'[c] = at[c] /\ loops'[c] = loops[c] /\ peer'[c] = peer[c]
                           /\ final'[c] = final[c] /\ queue'[c] >= queue[c]
      BY <1>3 DEF LifeInv, Shape, CloseOne
    <3> QED BY <3>1, <3>2 DEF Aside, Conns
  <2> QED BY <2>3, <2>4, AsideFlushed DEF LifeInv
<1> QED BY <1>1, <1>2, <1>3 DEF Serve

LEMMA LifeStep == LifeInv /\ [Next]_vars => LifeInv'
<1> SUFFICES ASSUME LifeInv, [Next]_vars PROVE LifeInv'
  OBVIOUS
<1>1. CASE UNCHANGED vars
  <2>1. Shape' /\ \A c \in Clients : Aside(c)
    BY <1>1 DEF vars, LifeInv, Shape, Aside, Conns
  <2> QED BY <2>1, AsideFlushed DEF LifeInv
<1>2. ASSUME NEW d \in Conns, Dial(d) \/ Handler(d) \/ MeterEnds(d) PROVE LifeInv'
  BY <1>2, BeginStep, JoinStep, FrameStep, ReaderStep DEF Handler
<1>3. ASSUME NEW d \in Clients, Frames(d) \/ Loops(d) \/ PeerLeaves(d) PROVE LifeInv'
  BY <1>3, FrameStep, LoopStep, ReaderStep
<1>4. CASE Poll
  BY <1>4, UpdateStep DEF Actors
<1>5. ASSUME NEW a \in Actors, Locking(a) \/ Sends(a) PROVE LifeInv'
  BY <1>5, JoinStep, UpdateStep, SendStep DEF Locking, Sends, Actors
<1>6. CASE StopRequested \/ ServeFails \/ ShutdownExpires \/ WaitExpires \/ Serve
  BY <1>6, ServeStep
<1> QED BY <1>1, <1>2, <1>3, <1>4, <1>5, <1>6 DEF Next

\* The answer to a malformed frame, and all that was queued before it, is
\* written before the close handshake, whoever else closes, broadcasts or stops.
THEOREM Told == Spec => []FinalFrameSent
<1>1. LifeInv => FinalFrameSent
  BY DEF LifeInv, Shape, Flushed, FinalFrameSent, At, After, Conns
<1> QED BY <1>1, LifeInit, LifeStep, PTL DEF Spec
-----------------------------------------------------------------------------
(* The store's lock, and what a connection leaves behind *)

Writing == {"observe", "broadcast"}
Joining == {"join", "rejoin"}

\* One state change at a time, and none while a snapshot's owner joins the hub:
\* what lets StateSync and Dispatch take an update as one step.
Excluded ==
    /\ \A x, y \in StoreWriters : x = y
    /\ StoreWriters = {} \/ StoreReaders = {}

\* No lane exceeds its buffer.
Bounded == \A c \in Conns : queue[c] <= SendBuffer /\ final[c] <= SendBuffer

Gone(c) ==
    /\ at[c] \in {"unjoin", "ended"} => ~sock[c] /\ closing[c] # "no"
    /\ At(c, "waiting") => closing[c] # "no"
    /\ At(c, "ended") => c \notin hub

Stages == {"serving", "shutdown", "closeall", "late", "wait", "exited"}

HeldInv ==
    /\ srv \in Stages /\ stop \in BOOLEAN
    /\ Excluded /\ Bounded /\ \A c \in Clients : Gone(c)

\* A connection that has ended is out of the hub, has no goroutine left and its
\* socket is closed, whoever closed it first: run's deferred calls come last.
NothingLeft ==
    \A c \in Clients :
        At(c, "ended") => c \notin hub /\ loops[c] = {} /\ ~sock[c] /\ closing[c] # "no"

\* Nobody comes to hold the store's lock.
NoneEnters ==
    /\ \A a \in Actors : at'[a] \in Writing => at[a] \in Writing
    /\ \A c \in Clients : at'[c] \in Joining => at[c] \in Joining

LEMMA NoneEntersExcluded ==
    ASSUME Excluded, NoneEnters
    PROVE  Excluded'
BY DEF Excluded, NoneEnters, StoreWriters, StoreReaders, Writing, Joining

LEMMA ActorsPlaced ==
    /\ Actors \subseteq Conns \cup {Poller} /\ Clients \subseteq Conns /\ Clients \subseteq Actors
    /\ Poller \in Actors /\ Poller \notin Conns
BY ConnAssumption DEF ConnAssumption, Conns, Actors

LEMMA AtAlone ==
    ASSUME LifeInv, NEW d \in Conns \cup {Poller}, NEW place, Goto(d, place),
           place \in Writing => at[d] \in Writing,
           place \in Joining => at[d] \in Joining
    PROVE  NoneEnters
BY ActorsPlaced DEF LifeInv, Shape, Goto, NoneEnters

LEMMA HandlerEnters ==
    ASSUME LifeInv, NEW d \in Conns,
           Dial(d) \/ Hijack(d) \/ Count(d) \/ MeterEnds(d) \/ Hello(d) \/ StartLoops(d)
           \/ Reject(d) \/ Dispatched(d) \/ ReadFails(d) \/ EndRead(d) \/ LoopsDone(d)
           \/ Handshake(d) \/ Frames(d) \/ Join(d) \/ Leave(d) \/ Unjoin(d)
    PROVE  NoneEnters
<1> USE ActorsPlaced DEF Writing, Joining
<1>1. CASE Dial(d) \/ Hijack(d) \/ Count(d) \/ MeterEnds(d) \/ Hello(d) \/ StartLoops(d)
  BY <1>1, AtAlone DEF Dial, Hijack, Count, MeterEnds, Hello, StartLoops
<1>2. CASE Reject(d) \/ ReadFails(d) \/ EndRead(d) \/ LoopsDone(d) \/ Handshake(d)
  BY <1>2, AtAlone DEF Reject, ReadFails, EndRead, LoopsDone, Handshake
<1>3. CASE Frames(d) \/ Dispatched(d)
  BY <1>3, AtAlone DEF Frames, Malformed, GetState, Ping, Subscribe, Command, Dispatched
<1>4. CASE Join(d) \/ Leave(d) \/ Unjoin(d)
  BY <1>4, AtAlone DEF Join, Leave, Unjoin, Back
<1> QED BY <1>1, <1>2, <1>3, <1>4

LEMMA ExcludedStep ==
    ASSUME LifeInv, Excluded, Next
    PROVE  Excluded'
<1>1. ASSUME NEW d \in Conns, Dial(d) \/ Handler(d) \/ MeterEnds(d) PROVE Excluded'
  BY <1>1, HandlerEnters, NoneEntersExcluded DEF Handler
<1>2. ASSUME NEW d \in Clients, Frames(d) \/ Loops(d) \/ PeerLeaves(d) PROVE Excluded'
  <2>1. CASE Frames(d)
    BY <2>1, HandlerEnters, NoneEntersExcluded, ActorsPlaced
  <2>2. CASE Loops(d) \/ PeerLeaves(d)
    <3>1. at' = at
      BY <2>2 DEF Loops, Write, WriteFails, WriterDone, PingerDone, Bridge, PingFails, PeerLeaves
    <3> QED BY <3>1, NoneEntersExcluded DEF NoneEnters
  <2> QED BY <1>2, <2>1, <2>2
<1>3. CASE Poll
  <2>1. NoneEnters
    BY <1>3, AtAlone, ActorsPlaced DEF Poll, Writing, Joining
  <2> QED BY <2>1, NoneEntersExcluded
<1>4. ASSUME NEW a \in Actors, Locking(a) \/ Sends(a) PROVE Excluded'
  <2>1. CASE Broadcast(a) \/ Updated(a)
    <3>1. NoneEnters
      BY <2>1, AtAlone, ActorsPlaced DEF Broadcast, Updated, Return, Back, At, Writing, Joining
    <3> QED BY <3>1, NoneEntersExcluded
  <2>2. CASE SendDelta(a)
    BY <2>2, NoneEntersExcluded DEF SendDelta, NoneEnters
  <2>3. CASE Update(a)
    \* The lock was free, so a alone holds it now.
    <3>1. StoreWriters = {} /\ StoreReaders = {}
      BY <2>3 DEF Update, StoreLock
    <3>2. \A b \in (Conns \cup {Poller}) \ {a} : at'[b] = at[b]
      BY <2>3, ActorsPlaced DEF Update, Goto, LifeInv, Shape
    <3>3. at'[a] \notin Joining
      BY <2>3, ActorsPlaced DEF Update, Goto, Return, Back, LifeInv, Shape, Joining
    <3> QED BY <3>1, <3>2, <3>3, ActorsPlaced DEF Excluded, StoreWriters, StoreReaders, Joining
  <2>4. CASE a \in Clients /\ Snapshot(a)
    \* No writer holds the lock, and none has come.
    <3>1. StoreWriters = {}
      BY <2>4 DEF Snapshot, StoreRLock
    <3>2. \A b \in (Conns \cup {Poller}) \ {a} : at'[b] = at[b]
      BY <2>4, ActorsPlaced DEF Snapshot, Goto, LifeInv, Shape
    <3>3. at'[a] \notin Writing
      BY <2>4, ActorsPlaced DEF Snapshot, Goto, LifeInv, Shape, Writing
    <3> QED BY <3>1, <3>2, <3>3, ActorsPlaced DEF Excluded, StoreWriters, StoreReaders, Writing
  <2>5. CASE a \in Clients /\ (Join(a) \/ Leave(a) \/ Unjoin(a))
    BY <2>5, HandlerEnters, NoneEntersExcluded, ActorsPlaced
  <2> QED BY <1>4, <2>1, <2>2, <2>3, <2>4, <2>5 DEF Locking, Sends, Actors
<1>5. CASE ServeFails \/ WaitExpires \/ Waited
  <2>1. \A a \in Conns \cup {Poller} : at'[a] = "ended"
    BY <1>5 DEF ServeFails, WaitExpires, Waited, Exits, LifeInv, Shape
  <2> QED BY <2>1, ActorsPlaced, NoneEntersExcluded DEF NoneEnters, Writing, Joining
<1>6. CASE StopRequested \/ BeginShutdown \/ ShutdownDone \/ ShutdownExpires \/ CloseAllDone
           \/ CloseOne \/ UNCHANGED vars
  <2>1. at' = at
    BY <1>6 DEF StopRequested, BeginShutdown, ShutdownDone, ShutdownExpires, CloseAllDone,
       CloseOne, conns, vars
  <2> QED BY <2>1, NoneEntersExcluded DEF NoneEnters
<1> QED BY <1>1, <1>2, <1>3, <1>4, <1>5, <1>6 DEF Next, Serve

LEMMA EnqueueBounded ==
    ASSUME LifeInv, Bounded, NEW c \in Conns, Enqueue(c)
    PROVE  /\ queue' \in [Conns -> Nat]
           /\ \A d \in Conns : queue'[d] <= SendBuffer
BY ConnAssumption DEF ConnAssumption, LifeInv, Shape, Bounded, Enqueue

LEMMA BoundedStep ==
    ASSUME LifeInv, Bounded, Next
    PROVE  Bounded'
<1> USE ActorsPlaced
<1>1. ASSUME NEW d \in Conns, Hello(d) \/ Snapshot(d) \/ GetState(d) \/ Ping(d) \/ Dispatched(d)
      PROVE  Bounded'
  <2>1. Enqueue(d) /\ final' = final
    BY <1>1 DEF Hello, Snapshot, GetState, Ping, Dispatched
  <2> QED BY <2>1, EnqueueBounded DEF Bounded
<1>2. ASSUME NEW d \in Clients, Malformed(d) PROVE Bounded'
  <2>1. Enqueue(d) /\ final' = [final EXCEPT ![d] = queue'[d]]
    BY <1>2 DEF Malformed
  <2>2. \A c \in Conns : final'[c] = IF c = d THEN queue'[c] ELSE final[c]
    BY <2>1 DEF LifeInv, Shape
  <2> QED BY <2>1, <2>2, EnqueueBounded DEF Bounded
<1>3. ASSUME NEW d \in Clients, Write(d) \/ WriteFails(d) PROVE Bounded'
  <2>1. \A c \in Conns : queue'[c] <= queue[c] /\ final'[c] <= final[c]
    BY <1>3 DEF Write, WriteFails, LifeInv, Shape
  <2>2. Shape'
    BY <1>3, LoopStep DEF Loops, LifeInv
  <2> QED BY <2>1, <2>2, ConnAssumption DEF ConnAssumption, Bounded, LifeInv, Shape
<1>4. ASSUME NEW a \in Actors, SendDelta(a) PROVE Bounded'
  <2>1. PICK d \in todo[a] : Enqueue(d)
    BY <1>4 DEF SendDelta
  <2>2. d \in Conns /\ final' = final
    BY <1>4 DEF LifeInv, Shape, SendDelta
  <2> QED BY <2>1, <2>2, EnqueueBounded DEF Bounded
<1>5. CASE ServeFails \/ WaitExpires \/ Waited
  <2>1. \A c \in Conns : queue'[c] = 0 /\ final'[c] = 0
    BY <1>5 DEF ServeFails, WaitExpires, Waited, Exits
  <2> QED BY <2>1, ConnAssumption DEF ConnAssumption, Bounded
<1>6. CASE UNCHANGED <<queue, final>>
  BY <1>6 DEF Bounded
<1>7. ASSUME NEW d \in Conns, Dial(d) \/ Handler(d) \/ MeterEnds(d) PROVE Bounded'
  BY <1>7, <1>1, <1>6 DEF Handler, Dial, Hijack, Count, MeterEnds, StartLoops, Reject, ReadFails,
     EndRead, LoopsDone, Handshake
<1>8. ASSUME NEW d \in Clients, Frames(d) \/ Loops(d) \/ PeerLeaves(d) PROVE Bounded'
  BY <1>8, <1>1, <1>2, <1>3, <1>6 DEF Frames, Receives, Subscribe, Command, Loops, WriterDone,
     PingerDone, Bridge, PingFails, PeerLeaves
<1>9. ASSUME NEW a \in Actors, Locking(a) \/ Sends(a) PROVE Bounded'
  BY <1>9, <1>1, <1>4, <1>6 DEF Locking, Sends, Join, Leave, Unjoin, Update, Broadcast, Updated, Actors
<1>10. CASE StopRequested \/ BeginShutdown \/ ShutdownDone \/ ShutdownExpires \/ CloseAllDone
           \/ CloseOne \/ Poll \/ UNCHANGED vars
  BY <1>10, <1>6 DEF StopRequested, BeginShutdown, ShutdownDone, ShutdownExpires, CloseAllDone,
     CloseOne, Poll, conns, vars
<1> QED BY <1>5, <1>7, <1>8, <1>9, <1>10 DEF Next, Serve

LEMMA HeldInit == Init => HeldInv
<1> SUFFICES ASSUME Init PROVE HeldInv
  OBVIOUS
<1>1. \A a \in Conns \cup {Poller} : at[a] = "none"
  BY DEF Init
<1>2. Excluded
  BY <1>1, ActorsPlaced DEF Excluded, StoreWriters, StoreReaders
<1>3. Bounded
  BY ConnAssumption DEF ConnAssumption, Init, Bounded
<1>4. \A c \in Clients : Gone(c)
  BY <1>1, ActorsPlaced DEF Gone, At
<1> QED BY <1>2, <1>3, <1>4 DEF Init, HeldInv, Stages

\* What others do to a connection takes nothing back: its handler stays where
\* it is, it does not join the hub, and its socket and its end stay closed.
Stays(c) ==
    /\ at'[c] = at[c] /\ (c \in hub' => c \in hub)
    /\ sock'[c] => sock[c]
    /\ closing[c] # "no" => closing'[c] # "no"

LEMMA StaysGone ==
    ASSUME NEW c \in Clients, LifeInv, Shape', Gone(c), Stays(c)
    PROVE  Gone(c)'
BY ActorsPlaced DEF Gone, Stays, LifeInv, Shape, At

LEMMA NeverReopened ==
    ASSUME LifeInv, NEW c \in Conns,
           Enqueue(c) \/ Close(c, "abrupt") \/ Close(c, "graceful")
    PROVE  \A d \in Conns : /\ sock'[d] => sock[d]
                            /\ closing[d] # "no" => closing'[d] # "no"
<1>1. CASE Close(c, "abrupt") \/ Close(c, "graceful")
  BY <1>1, CloseEffect
<1>2. CASE Enqueue(c) /\ queue[c] < SendBuffer
  BY <1>2 DEF Enqueue
<1> QED BY <1>1, <1>2 DEF Enqueue

LEMMA OwnGone ==
    ASSUME LifeInv, Shape', \A c \in Clients : Gone(c), NEW d,
           \A c \in Clients \ {d} : Stays(c),
           d \in Clients => Gone(d)'
    PROVE  \A c \in Clients : Gone(c)'
BY StaysGone

\* The steps that take a connection nowhere near its end.
LEMMA EarlyGone ==
    ASSUME LifeInv, Shape', \A c \in Clients : Gone(c), NEW d \in Conns \cup {Poller}, NEW place,
           Goto(d, place), d \in Clients => place \notin {"waiting", "unjoin", "ended"},
           \A c \in Clients \ {d} : /\ c \in hub' => c \in hub
                                    /\ sock'[c] => sock[c]
                                    /\ closing[c] # "no" => closing'[c] # "no"
    PROVE  \A c \in Clients : Gone(c)'
<1>1. /\ \A c \in Clients \ {d} : at'[c] = at[c]
      /\ at'[d] = place
  BY ActorsPlaced DEF Goto, LifeInv, Shape
<1>2. d \in Clients => Gone(d)'
  BY <1>1 DEF Gone, At
<1>3. ASSUME NEW c \in Clients \ {d} PROVE Stays(c)
  BY <1>1 DEF Stays
<1> QED BY <1>2, <1>3, OwnGone

LEMMA GoneStep ==
    ASSUME LifeInv, Shape', \A c \in Clients : Gone(c), Next
    PROVE  \A c \in Clients : Gone(c)'
<1> DEFINE AllGone == \A c \in Clients : Gone(c)
<1> USE ActorsPlaced
<1>1. ASSUME NEW d \in Conns, Dial(d) \/ Hijack(d) \/ Count(d) PROVE AllGone'
  <2>1. CASE Dial(d)
    BY <1>1, <2>1, EarlyGone DEF Dial
  <2>2. CASE Hijack(d)
    <3>1. \A c \in Clients \ {d} : sock'[c] = sock[c]
      BY <2>2 DEF Hijack, LifeInv, Shape
    <3> QED BY <2>2, <3>1, EarlyGone DEF Hijack
  <2>3. CASE Count(d)
    BY <1>1, <2>3, EarlyGone DEF Count
  <2> QED BY <1>1, <2>1, <2>2, <2>3
<1>2. ASSUME NEW d \in Conns, MeterEnds(d) PROVE AllGone'
  <2>1. d \notin Clients
    BY <1>2 DEF MeterEnds, LifeInv, Flushed, At, Before, Served, Ending, After
  <2>2. \A c \in Clients \ {d} : sock'[c] = sock[c]
    BY <1>2 DEF MeterEnds, LifeInv, Shape
  <2> QED BY <1>2, <2>1, <2>2, EarlyGone DEF MeterEnds
<1>3. ASSUME NEW d \in Clients, Hello(d) \/ Snapshot(d) \/ Malformed(d) \/ GetState(d) \/ Ping(d)
                                \/ Dispatched(d) \/ Reject(d)
      PROVE  AllGone'
  <2>1. Enqueue(d) \/ Close(d, "graceful")
    BY <1>3 DEF Hello, Snapshot, Malformed, GetState, Ping, Dispatched, Reject
  <2>2. \A c \in Conns : /\ sock'[c] => sock[c]
                         /\ closing[c] # "no" => closing'[c] # "no"
    BY <2>1, NeverReopened
  <2>3. hub' = hub
    BY <1>3 DEF Hello, Snapshot, Malformed, GetState, Ping, Dispatched, Reject, Receives
  <2>4. PICK place \in Served \cup Ending \cup Before : Goto(d, place) /\ place # "waiting"
    BY <1>3 DEF Hello, Snapshot, Malformed, GetState, Ping, Dispatched, Reject, Served, Ending, Before
  <2> QED BY <2>2, <2>3, <2>4, EarlyGone DEF Served, Ending, Before
<1>4. ASSUME NEW d \in Clients, Join(d) \/ Leave(d) \/ StartLoops(d) \/ Subscribe(d) \/ Command(d)
                                \/ ReadFails(d)
      PROVE  AllGone'
  <2>1. UNCHANGED <<closing, sock>> /\ hub' \subseteq hub \cup {d}
    BY <1>4 DEF Join, Leave, StartLoops, Subscribe, Command, ReadFails, Receives
  <2>2. PICK place \in {"start", "reading", "closing", "resnap", "leave", "dispatch"} : Goto(d, place)
    BY <1>4 DEF Join, Leave, StartLoops, Subscribe, Command, ReadFails, Back
  <2> QED BY <2>1, <2>2, EarlyGone
<1>5. ASSUME NEW d \in Clients, EndRead(d) \/ LoopsDone(d) \/ Handshake(d) \/ Unjoin(d)
      PROVE  AllGone'
  <2>1. CASE EndRead(d)
    <3>1. /\ Goto(d, "waiting") /\ hub' = hub
          /\ \A c \in Conns : /\ sock'[c] => sock[c]
                              /\ closing[c] # "no" => closing'[c] # "no"
      BY <2>1, NeverReopened DEF EndRead
    <3>2. closing'[d] # "no"
      BY <2>1, AbruptEffect DEF EndRead
    <3>3. at'[d] = "waiting" /\ \A c \in Clients \ {d} : at'[c] = at[c]
      BY <3>1 DEF Goto, LifeInv, Shape
    <3>4. Gone(d)'
      BY <3>2, <3>3 DEF Gone, At
    <3>5. ASSUME NEW c \in Clients \ {d} PROVE Stays(c)
      BY <3>1, <3>3 DEF Stays
    <3> QED BY <3>4, <3>5, OwnGone
  <2>2. CASE LoopsDone(d) \/ Handshake(d)
    <3>1. /\ hub' = hub /\ closing' = closing /\ closing[d] # "no"
          /\ at'[d] = "handshake" \/ (at'[d] = "unjoin" /\ ~sock'[d])
      BY <2>2 DEF LoopsDone, Handshake, Goto, LifeInv, Shape, Gone, Flushed, At
    <3>2. \A c \in Clients \ {d} : at'[c] = at[c] /\ sock'[c] = sock[c]
      BY <2>2 DEF LoopsDone, Handshake, Goto, LifeInv, Shape
    <3> QED BY <3>1, <3>2, OwnGone DEF Stays, Gone, At
  <2>3. CASE Unjoin(d)
    BY <2>3, OwnGone DEF Unjoin, Goto, Stays, Gone, At, LifeInv, Shape
  <2> QED BY <1>5, <2>1, <2>2, <2>3
<1>6. ASSUME NEW d \in Clients, Loops(d) \/ PeerLeaves(d) PROVE AllGone'
  <2>1. UNCHANGED <<at, hub>>
    BY <1>6 DEF Loops, Write, WriteFails, WriterDone, PingerDone, Bridge, PingFails, PeerLeaves
  <2>2. Close(d, "abrupt") \/ UNCHANGED <<closing, sock>>
    BY <1>6 DEF Loops, Write, WriteFails, WriterDone, PingerDone, Bridge, PingFails, PeerLeaves
  <2>3. \A c \in Conns : /\ sock'[c] => sock[c]
                         /\ closing[c] # "no" => closing'[c] # "no"
    BY <2>2, NeverReopened
  <2> QED BY <2>1, <2>3, StaysGone DEF Stays
<1>7. CASE Poll
  BY <1>7, EarlyGone DEF Poll
<1>8. ASSUME NEW a \in Actors, Update(a) \/ Broadcast(a) \/ Updated(a) \/ SendDelta(a)
      PROVE  AllGone'
  <2>1. CASE SendDelta(a)
    <3>1. PICK d \in todo[a] : Enqueue(d)
      BY <2>1 DEF SendDelta
    <3>2. d \in Conns /\ UNCHANGED <<at, hub>>
      BY <2>1 DEF LifeInv, Shape, SendDelta
    <3>3. \A c \in Conns : /\ sock'[c] => sock[c]
                           /\ closing[c] # "no" => closing'[c] # "no"
      BY <3>1, <3>2, NeverReopened
    <3> QED BY <3>2, <3>3, StaysGone DEF Stays
  <2>2. CASE Update(a) \/ Broadcast(a) \/ Updated(a)
    <3>1. UNCHANGED <<hub, closing, sock>>
      BY <2>2 DEF Update, Broadcast, Updated
    <3>2. PICK place \in {"none", "reading", "closing", "observe", "broadcast"} : Goto(a, place)
      BY <2>2 DEF Update, Broadcast, Updated, Return, Back
    <3> QED BY <3>1, <3>2, EarlyGone
  <2> QED BY <1>8, <2>1, <2>2
<1>9. CASE ServeFails \/ WaitExpires \/ Waited
  <2>1. \A c \in Clients : c \notin hub' /\ ~sock'[c] /\ closing'[c] = "abrupt"
    BY <1>9 DEF ServeFails, WaitExpires, Waited, Exits
  <2> QED BY <2>1 DEF Gone
<1>10. CASE CloseOne
  <2>1. PICK d \in doomed : Close(d, "abrupt")
    BY <1>10 DEF CloseOne
  <2>2. d \in Conns /\ UNCHANGED <<at, hub>>
    BY <1>10 DEF LifeInv, Shape, CloseOne
  <2>3. \A c \in Conns : /\ sock'[c] => sock[c]
                         /\ closing[c] # "no" => closing'[c] # "no"
    BY <2>1, <2>2, NeverReopened
  <2> QED BY <2>2, <2>3, StaysGone DEF Stays
<1>11. CASE StopRequested \/ BeginShutdown \/ ShutdownDone \/ ShutdownExpires \/ CloseAllDone
            \/ UNCHANGED vars
  <2>1. UNCHANGED conns
    BY <1>11 DEF StopRequested, BeginShutdown, ShutdownDone, ShutdownExpires, CloseAllDone, conns, vars
  <2> QED BY <2>1, StaysGone DEF Stays, conns
<1>12. ASSUME NEW d \in Conns, Dial(d) \/ Handler(d) \/ MeterEnds(d) PROVE AllGone'
  BY <1>12, <1>1, <1>2, <1>3, <1>4, <1>5 DEF Handler
<1>13. ASSUME NEW d \in Clients, Frames(d) \/ Loops(d) \/ PeerLeaves(d) PROVE AllGone'
  BY <1>13, <1>3, <1>4, <1>6 DEF Frames
<1>14. ASSUME NEW a \in Actors, Locking(a) \/ Sends(a) PROVE AllGone'
  BY <1>14, <1>3, <1>4, <1>5, <1>8 DEF Locking, Sends, Actors
<1> QED BY <1>7, <1>9, <1>10, <1>11, <1>12, <1>13, <1>14 DEF Next, Serve

LEMMA HeldStep == LifeInv /\ LifeInv' /\ HeldInv /\ [Next]_vars => HeldInv'
<1> SUFFICES ASSUME LifeInv, LifeInv', HeldInv, [Next]_vars PROVE HeldInv'
  OBVIOUS
<1>1. CASE Next
  <2>1. Excluded' /\ Bounded' /\ \A c \in Clients : Gone(c)'
    BY <1>1, ExcludedStep, BoundedStep, GoneStep DEF HeldInv, LifeInv
  <2>2. srv' \in Stages /\ stop' \in BOOLEAN
    <3>1. ASSUME NEW d \in Conns, Dial(d) \/ Handler(d) \/ MeterEnds(d) PROVE UNCHANGED <<srv, stop>>
      BY <3>1 DEF Handler, Dial, Hijack, Count, MeterEnds, Hello, StartLoops, Reject, Dispatched,
         ReadFails, EndRead, LoopsDone, Handshake, server
    <3>2. ASSUME NEW d \in Clients, Frames(d) \/ Loops(d) \/ PeerLeaves(d) PROVE UNCHANGED <<srv, stop>>
      BY <3>2 DEF Frames, Malformed, GetState, Ping, Subscribe, Command, Receives, Loops, Write,
         WriteFails, WriterDone, PingerDone, Bridge, PingFails, PeerLeaves, server
    <3>3. ASSUME NEW a \in Actors, Locking(a) \/ Sends(a) PROVE UNCHANGED <<srv, stop>>
      BY <3>3 DEF Locking, Sends, Snapshot, Join, Leave, Unjoin, Update, Broadcast, SendDelta,
         Updated, server
    <3>4. CASE Poll \/ UNCHANGED vars
      BY <3>4 DEF Poll, vars, server, HeldInv
    <3>5. CASE StopRequested \/ ServeFails \/ ShutdownExpires \/ WaitExpires \/ Serve
      BY <3>5 DEF StopRequested, ServeFails, ShutdownExpires, WaitExpires, Serve, BeginShutdown,
         ShutdownDone, CloseOne, CloseAllDone, CloseAll, Waited, Exits, HeldInv, Stages
    <3> QED BY <1>1, <3>1, <3>2, <3>3, <3>4, <3>5 DEF Next, HeldInv
  <2> QED BY <2>1, <2>2 DEF HeldInv
<1>2. CASE UNCHANGED vars
  <2>1. Excluded' /\ Bounded' /\ (srv' \in Stages /\ stop' \in BOOLEAN)
    BY <1>2 DEF vars, HeldInv, Excluded, Bounded, StoreWriters, StoreReaders
  <2>2. \A c \in Clients : Gone(c)'
    BY <1>2, StaysGone DEF vars, Stays, HeldInv, LifeInv
  <2> QED BY <2>1, <2>2 DEF HeldInv
<1> QED BY <1>1, <1>2

\* Every lane stays within its buffer, one state change at a time holds the
\* store, and none while a connection takes its snapshot and joins the hub.
THEOREM Typing == Spec => []TypeOK
<1>1. LifeInv /\ HeldInv => TypeOK
  <2> SUFFICES ASSUME LifeInv, HeldInv PROVE TypeOK
    OBVIOUS
  <2>1. Cardinality(StoreWriters) <= 1
    <3>1. CASE StoreWriters = {}
      BY <3>1, FS_EmptySet
    <3>2. ASSUME NEW a \in StoreWriters PROVE Cardinality(StoreWriters) <= 1
      <4>1. StoreWriters = {a}
        BY <3>2 DEF HeldInv, Excluded
      <4> QED BY <4>1, FS_Singleton
    <3> QED BY <3>1, <3>2
  <2>2. queue \in [Conns -> 0 .. SendBuffer] /\ final \in [Conns -> 0 .. SendBuffer]
    BY ConnAssumption DEF ConnAssumption, LifeInv, Shape, HeldInv, Bounded
  <2> QED BY <2>1, <2>2 DEF TypeOK, LifeInv, Shape, HeldInv, Stages, Excluded
<1> QED BY <1>1, LifeInit, LifeStep, HeldInit, HeldStep, PTL DEF Spec

\* A connection that has ended leaves nothing behind, for any number of them.
THEOREM Clean == Spec => []NothingLeft
<1>1. LifeInv /\ HeldInv => NothingLeft
  BY ActorsPlaced DEF LifeInv, HeldInv, Flushed, Gone, NothingLeft, At, After
<1> QED BY <1>1, LifeInit, LifeStep, HeldInit, HeldStep, PTL DEF Spec

=============================================================================
