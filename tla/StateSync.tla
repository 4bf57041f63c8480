----------------------------- MODULE StateSync -----------------------------
(***************************************************************************)
(* The state stream: the Store numbers every change (state/store.go), the  *)
(* hub fans deltas out to subscribed connections (api/hub.go), each        *)
(* connection queues frames on a bounded lane (api/client.go,              *)
(* api/sendqueue.go), and the client folds them into its mirror            *)
(* (services/session.dart, services/app_state.dart).                       *)
(*                                                                         *)
(* A state object is a function from its leaves (Fields) to values, Absent *)
(* standing for a missing key.  One sequence, chan[c], holds the frames of *)
(* a connection from the enqueue to the client's handler: the first        *)
(* written[c] of them are on the socket, the others still in the lane.     *)
(* hist and heard, and the rev and scope of a frame that is neither a      *)
(* snapshot nor a delta, are history: no action reads them.                *)
(***************************************************************************)
EXTENDS Integers, Sequences

CONSTANTS Clients, Fields, Topics, TopicOf, Vals, Absent,
          TopicLists,    \* the topic lists clients put in (un)subscribe frames
          SendBuffer,    \* sendBuffer: capacity of a connection's state lane
          SocketBuffer,  \* bound: frames written and not yet handled by the client
          MaxRev,        \* bound: revisions of one server life
          MaxRequests    \* bound: client frames sent and not yet handled

ASSUME ConstantsAssumption ==
    /\ TopicOf \in [Fields -> Topics]
    /\ Absent \in Vals
    /\ TopicLists \subseteq SUBSET Topics
    /\ SendBuffer \in Nat /\ SendBuffer >= 2
    /\ SocketBuffer \in Nat \ {0}
    /\ MaxRev \in Nat
    /\ MaxRequests \in Nat \ {0}

VARIABLES
    store,     \* Store.cur
    rev,       \* Store.rev
    hist,      \* history: hist[r] is the state at revision r
    hub,       \* hub.clients
    topics,    \* clientConn.topics
    reader,    \* where a connection's read goroutine is
    link,      \* "down", "up", "draining" (graceful close) or "dead"
    chan,      \* frames on their way to the client
    written,   \* how many of them have left the lane
    requests,  \* the client's frames the reader has not handled
    ready,     \* Session._ready
    mirror,    \* AppState: _haveBaseline, _rev, _data (and the snapshot's scope)
    awaiting,  \* Session._awaitingResync
    heard      \* history: rev and scope of the last frame handled

serverVars == <<store, rev, hist>>
connVars   == <<hub, topics, reader, link>>
clientVars == <<ready, mirror, awaiting, heard>>
vars == <<store, rev, hist, hub, topics, reader, link, chan, written, requests,
          ready, mirror, awaiting, heard>>

-----------------------------------------------------------------------------
(* States, patches and frames *)

States  == [Fields -> Vals]
Patches == UNION {[D -> Vals] : D \in SUBSET Fields}
Blank   == [f \in Fields |-> Absent]

\* FilterTopics of a full state.
View(s, scope) == [f \in Fields |-> IF TopicOf[f] \in scope THEN s[f] ELSE Absent]
\* diff: only the changed leaves; a deleted one maps to Absent (null).
Diff(old, new) == [f \in {g \in Fields : old[g] # new[g]} |-> new[f]]
\* FilterTopics of a patch.
Scoped(patch, scope) == [f \in {g \in DOMAIN patch : TopicOf[g] \in scope} |-> patch[f]]
\* Fault: null does not remove the member.
Merge_KeepsDeleted(data, patch) ==
    [f \in Fields |-> IF f \in DOMAIN patch /\ patch[f] # Absent THEN patch[f] ELSE data[f]]
\* applyMergePatch.
Merge(data, patch) == [f \in Fields |-> IF f \in DOMAIN patch THEN patch[f] ELSE data[f]]

NoPatch == [f \in {} |-> Absent]
Stamps  == [rev : Nat, scope : SUBSET Topics]
NoStamp == [rev |-> 0, scope |-> {}]
Frames  == [type : {"state"}, rev : Nat, scope : SUBSET Topics, body : States]
           \cup [type : {"hello", "delta", "other"},
                 rev : Nat, scope : SUBSET Topics, body : Patches]
Frame(type, r, scope, body) == [type |-> type, rev |-> r, scope |-> scope, body |-> body]
StampOf(f) == [rev |-> f.rev, scope |-> f.scope]

\* The stamp of the newest frame queued for c.
Newest(c) == IF chan[c] = <<>> THEN heard[c] ELSE StampOf(chan[c][Len(chan[c])])

Requests == [type : {"get_state", "other", "malformed"}, topics : {{}}]
            \cup [type : {"subscribe", "unsubscribe"}, topics : TopicLists]
Request(type, ts) == [type |-> type, topics |-> ts]

NoMirror == [have |-> FALSE, rev |-> 0, scope |-> {}, data |-> Blank]
Mirrors  == [have : BOOLEAN, rev : Nat, scope : SUBSET Topics, data : States]

Serving(c) == link[c] \in {"up", "draining"}

-----------------------------------------------------------------------------
Init ==
    /\ store = Blank /\ rev = 0 /\ hist = [r \in 0..0 |-> Blank]
    /\ hub = {}
    /\ topics = [c \in Clients |-> Topics]
    /\ reader = [c \in Clients |-> "idle"]
    /\ link = [c \in Clients |-> "down"]
    /\ chan = [c \in Clients |-> <<>>]
    /\ written = [c \in Clients |-> 0]
    /\ requests = [c \in Clients |-> <<>>]
    /\ ready = [c \in Clients |-> FALSE]
    /\ mirror = [c \in Clients |-> NoMirror]
    /\ awaiting = [c \in Clients |-> FALSE]
    /\ heard = [c \in Clients |-> NoStamp]

\* pushOther refuses a frame: the lane is at its capacity.
Full(c) == Len(chan[c]) - written[c] >= SendBuffer

\* enqueue, of an answer on a connection nothing has closed: a frame for a full
\* lane fails the connection instead.  A failed connection leaves the hub here;
\* until run's deferred hub.remove the program may still queue frames for it,
\* which are never written, its socket being closed (CloseNow).
Enqueue(c, f, members) ==
    IF Full(c)
    THEN /\ link' = [link EXCEPT ![c] = "dead"]
         /\ hub' = members \ {c}
         /\ chan' = chan
    ELSE /\ chan' = [chan EXCEPT ![c] = Append(@, f)]
         /\ hub' = members
         /\ link' = link

\* sendSnapshot's frame: read and enqueued under the store's read lock.
Snapshot(c) == Frame("state", rev, topics[c], View(store, topics[c]))
\* ack, nak, pong, event and error frames.
Other(c) == Frame("other", Newest(c).rev, Newest(c).scope, NoPatch)

-----------------------------------------------------------------------------
(* The store *)

\* Fault: a full lane loses the delta and the connection lives on.
Broadcast_DropsWhenFull(r, patch) ==
    /\ chan' = [c \in Clients |->
                  IF c \in hub /\ DOMAIN Scoped(patch, topics[c]) # {} /\ ~Full(c)
                  THEN Append(chan[c], Frame("delta", r, topics[c],
                                             Scoped(patch, topics[c])))
                  ELSE chan[c]]
    /\ UNCHANGED <<link, hub>>

\* broadcastDelta: the delta, cut to each subscription, for every member it
\* concerns.  A full lane fails the member, or merely loses the delta when the
\* member is draining: its graceful close came first, and close's first call wins.
Broadcast(r, patch) ==
    LET concerns(c) == c \in hub /\ DOMAIN Scoped(patch, topics[c]) # {}
        slow == {c \in Clients : concerns(c) /\ Full(c) /\ link[c] = "up"}
    IN  /\ chan' = [c \in Clients |->
                      IF concerns(c) /\ ~Full(c)
                      THEN Append(chan[c], Frame("delta", r, topics[c],
                                                 Scoped(patch, topics[c])))
                      ELSE chan[c]]
        /\ link' = [c \in Clients |-> IF c \in slow THEN "dead" ELSE link[c]]
        /\ hub' = hub \ slow

\* Store.Update by a command handler, the poller or the chat manager: the
\* revision, and the broadcast under the same lock.  A mutation that changes
\* nothing bumps nothing.
Update(new) ==
    /\ rev < MaxRev
    /\ new # store
    /\ store' = new
    /\ rev' = rev + 1
    /\ hist' = [r \in 0..rev + 1 |-> IF r = rev + 1 THEN new ELSE hist[r]]
    /\ Broadcast(rev + 1, Diff(store, new))
    /\ UNCHANGED <<topics, reader, written, requests>> /\ UNCHANGED clientVars

\* The server stops and starts again: nothing is persisted, revisions restart,
\* and the clients have yet to notice.
Restart ==
    /\ store' = Blank /\ rev' = 0 /\ hist' = [r \in 0..0 |-> Blank]
    /\ hub' = {}
    /\ link' = [c \in Clients |-> IF Serving(c) THEN "dead" ELSE link[c]]
    /\ UNCHANGED <<topics, reader, chan, written, requests>> /\ UNCHANGED clientVars

-----------------------------------------------------------------------------
(* A connection on the server *)

\* run: hello, then the snapshot and the hub registration under one lock.
Connect(c) ==
    /\ link[c] = "down"
    /\ link' = [link EXCEPT ![c] = "up"]
    /\ chan' = [chan EXCEPT ![c] = <<Frame("hello", 0, {}, NoPatch),
                                     Frame("state", rev, Topics, View(store, Topics))>>]
    /\ hub' = hub \cup {c}
    /\ UNCHANGED serverVars
    /\ UNCHANGED <<topics, reader, written, requests>> /\ UNCHANGED clientVars

\* writeLoop and flushRemaining: pop one frame, write it to the socket.
Write(c) ==
    /\ Serving(c)
    /\ written[c] < Len(chan[c]) /\ written[c] < SocketBuffer
    /\ written' = [written EXCEPT ![c] = @ + 1]
    /\ UNCHANGED serverVars /\ UNCHANGED connVars
    /\ UNCHANGED <<chan, requests>> /\ UNCHANGED clientVars

\* flushRemaining found the lane empty: run completes the graceful close.
FlushDone(c) ==
    /\ link[c] = "draining" /\ written[c] = Len(chan[c])
    /\ link' = [link EXCEPT ![c] = "dead"]
    /\ hub' = hub \ {c}
    /\ UNCHANGED serverVars
    /\ UNCHANGED <<topics, reader, chan, written, requests>> /\ UNCHANGED clientVars

\* An abrupt close: a failed write, a missed pong, a shutdown.
Fail(c) ==
    /\ Serving(c)
    /\ link' = [link EXCEPT ![c] = "dead"]
    /\ hub' = hub \ {c}
    /\ UNCHANGED serverVars
    /\ UNCHANGED <<topics, reader, chan, written, requests>> /\ UNCHANGED clientVars

\* readLoop takes the next client frame; handle switches on its type.
Take(c, types) ==
    /\ link[c] = "up" /\ reader[c] = "idle"
    /\ requests[c] # <<>> /\ Head(requests[c]).type \in types
    /\ requests' = [requests EXCEPT ![c] = Tail(@)]

HandleGetState(c) ==
    /\ Take(c, {"get_state"})
    /\ Enqueue(c, Snapshot(c), hub)
    /\ UNCHANGED serverVars /\ UNCHANGED <<topics, reader, written>> /\ UNCHANGED clientVars

\* A frame answered by one ack, nak, pong, event or error: a command, a ping, a
\* subscription to an unknown topic.
HandleOther(c) ==
    /\ Take(c, {"other"})
    /\ Enqueue(c, Other(c), hub)
    /\ UNCHANGED serverVars /\ UNCHANGED <<topics, reader, written>> /\ UNCHANGED clientVars

\* A malformed frame: an error frame, then the graceful close (or, when the
\* error frame overflows the lane, the abrupt one that came first).
HandleMalformed(c) ==
    /\ Take(c, {"malformed"})
    /\ IF Full(c)
       THEN /\ link' = [link EXCEPT ![c] = "dead"]
            /\ hub' = hub \ {c}
            /\ chan' = chan
       ELSE /\ link' = [link EXCEPT ![c] = "draining"]
            /\ hub' = hub
            /\ chan' = [chan EXCEPT ![c] = Append(@, Other(c))]
    /\ UNCHANGED serverVars /\ UNCHANGED <<topics, reader, written>> /\ UNCHANGED clientVars

\* handleSubscription, up to the topics mutation: out of the hub first, so no
\* broadcast sees the subscription change.
HandleSubscription(c) ==
    /\ Take(c, {"subscribe", "unsubscribe"})
    /\ hub' = hub \ {c}
    /\ topics' = [topics EXCEPT ![c] =
                    IF Head(requests[c]).type = "subscribe"
                    THEN @ \cup Head(requests[c]).topics
                    ELSE @ \ Head(requests[c]).topics]
    /\ reader' = [reader EXCEPT ![c] = "resubscribing"]
    /\ UNCHANGED serverVars /\ UNCHANGED <<link, chan, written>> /\ UNCHANGED clientVars

\* Fault: the connection is not put back in the hub.
FinishSubscription_StaysOut(c) ==
    /\ link[c] = "up" /\ reader[c] = "resubscribing"
    /\ Enqueue(c, Snapshot(c), hub)
    /\ reader' = [reader EXCEPT ![c] = "idle"]
    /\ UNCHANGED serverVars /\ UNCHANGED <<topics, written, requests>> /\ UNCHANGED clientVars

\* ... and its end: the snapshot and the re-registration under the store's lock.
FinishSubscription(c) ==
    /\ link[c] = "up" /\ reader[c] = "resubscribing"
    /\ Enqueue(c, Snapshot(c), hub \cup {c})
    /\ reader' = [reader EXCEPT ![c] = "idle"]
    /\ UNCHANGED serverVars /\ UNCHANGED <<topics, written, requests>> /\ UNCHANGED clientVars

-----------------------------------------------------------------------------
(* The client *)

\* AppState.applyDelta, on a session that is ready.
Outcome(m, f) == IF ~m.have THEN "gap"
                 ELSE IF f.rev <= m.rev THEN "stale"
                 ELSE IF f.rev # m.rev + 1 THEN "gap"
                 ELSE "applied"

\* The hello of a server of the client's own protocol major; the branch that refuses
\* another is left out.
OnHello(c) == /\ ready' = [ready EXCEPT ![c] = TRUE]
              /\ UNCHANGED <<mirror, awaiting, requests>>

OnState(c, f) ==
    /\ mirror' = [mirror EXCEPT ![c] = [have |-> TRUE, rev |-> f.rev,
                                        scope |-> f.scope, data |-> f.body]]
    /\ awaiting' = [awaiting EXCEPT ![c] = FALSE]
    /\ UNCHANGED <<ready, requests>>

\* Fault: a gap is dropped like a stale delta.
OnDelta_NeverAsks(c, f) ==
    /\ UNCHANGED <<ready, awaiting, requests>>
    /\ IF ready[c] /\ Outcome(mirror[c], f) = "applied"
       THEN mirror' = [mirror EXCEPT ![c] = [have |-> TRUE, rev |-> f.rev,
                            scope |-> @.scope, data |-> Merge(@.data, f.body)]]
       ELSE UNCHANGED mirror

\* A gap asks for a snapshot, once per episode.
OnDelta(c, f) ==
    /\ UNCHANGED ready
    /\ \/ /\ ready[c] /\ Outcome(mirror[c], f) = "applied"
          /\ mirror' = [mirror EXCEPT ![c] = [have |-> TRUE, rev |-> f.rev,
                            scope |-> @.scope, data |-> Merge(@.data, f.body)]]
          /\ UNCHANGED <<awaiting, requests>>
       \/ /\ ready[c] /\ Outcome(mirror[c], f) = "gap" /\ ~awaiting[c]
          /\ Len(requests[c]) < MaxRequests
          /\ awaiting' = [awaiting EXCEPT ![c] = TRUE]
          /\ requests' = [requests EXCEPT ![c] = Append(@, Request("get_state", {}))]
          /\ UNCHANGED mirror
       \/ /\ \/ ~ready[c]
             \/ Outcome(mirror[c], f) = "stale"
             \/ Outcome(mirror[c], f) = "gap" /\ awaiting[c]
          /\ UNCHANGED <<mirror, awaiting, requests>>

\* Session._onFrame handles the oldest frame on the socket.
Deliver(c) ==
    LET f == Head(chan[c]) IN
    /\ link[c] # "down" /\ written[c] > 0
    /\ chan' = [chan EXCEPT ![c] = Tail(@)]
    /\ written' = [written EXCEPT ![c] = @ - 1]
    /\ heard' = [heard EXCEPT ![c] = StampOf(f)]
    /\ \/ f.type = "hello" /\ OnHello(c)
       \/ f.type = "state" /\ OnState(c, f)
       \/ f.type = "delta" /\ OnDelta(c, f)
       \/ f.type = "other" /\ UNCHANGED <<ready, mirror, awaiting, requests>>
    /\ UNCHANGED serverVars /\ UNCHANGED connVars

\* A client frame: sent only after hello.  One sent on a connection the server
\* has closed leaves no trace.
Send(c, q) ==
    /\ Serving(c) /\ ready[c]
    /\ Len(requests[c]) < MaxRequests
    /\ requests' = [requests EXCEPT ![c] = Append(@, q)]
    /\ UNCHANGED serverVars /\ UNCHANGED connVars
    /\ UNCHANGED <<chan, written>> /\ UNCHANGED clientVars

\* The client sees the connection end, for whatever reason, and the session
\* resets (handleDisconnected); what was in flight is gone, and the next
\* connection is a new clientConn, subscribed to every topic.
Disconnect(c) ==
    /\ link[c] # "down"
    /\ link' = [link EXCEPT ![c] = "down"]
    /\ hub' = hub \ {c}
    /\ chan' = [chan EXCEPT ![c] = <<>>]
    /\ written' = [written EXCEPT ![c] = 0]
    /\ requests' = [requests EXCEPT ![c] = <<>>]
    /\ topics' = [topics EXCEPT ![c] = Topics]
    /\ reader' = [reader EXCEPT ![c] = "idle"]
    /\ heard' = [heard EXCEPT ![c] = NoStamp]
    /\ IF ready[c]
       THEN /\ ready' = [ready EXCEPT ![c] = FALSE]
            /\ mirror' = [mirror EXCEPT ![c] = NoMirror]
            /\ awaiting' = [awaiting EXCEPT ![c] = FALSE]
       ELSE UNCHANGED <<ready, mirror, awaiting>>
    /\ UNCHANGED serverVars

-----------------------------------------------------------------------------
Next ==
    \/ \E new \in States : Update(new)
    \/ Restart
    \/ \E c \in Clients :
         \/ Connect(c) \/ Write(c) \/ FlushDone(c) \/ Fail(c)
         \/ HandleGetState(c) \/ HandleOther(c) \/ HandleMalformed(c)
         \/ HandleSubscription(c) \/ FinishSubscription(c)
         \/ Deliver(c) \/ Disconnect(c)
         \/ \E q \in Requests : Send(c, q)

Spec == Init /\ [][Next]_vars

\* The goroutines of a live connection run, its socket moves, the client's
\* event loop turns.  Nothing makes an update, a request or a failure happen.
Reader(c) == HandleGetState(c) \/ HandleOther(c) \/ HandleMalformed(c)
             \/ HandleSubscription(c) \/ FinishSubscription(c)
Fairness == \A c \in Clients : WF_vars(Write(c)) /\ WF_vars(Deliver(c)) /\ WF_vars(Reader(c))
FairSpec == Spec /\ Fairness

-----------------------------------------------------------------------------
(* Properties *)

\* Every variable has its type, and the state lane never holds more than
\* sendBuffer frames (pushOther's check, client.go enqueue).
TypeOK ==
    /\ store \in States /\ rev \in 0..MaxRev /\ hist \in [0..rev -> States]
    /\ hub \subseteq Clients
    /\ topics \in [Clients -> SUBSET Topics]
    /\ reader \in [Clients -> {"idle", "resubscribing"}]
    /\ link \in [Clients -> {"down", "up", "draining", "dead"}]
    /\ chan \in [Clients -> Seq(Frames)]
    /\ written \in [Clients -> Nat]
    /\ requests \in [Clients -> Seq(Requests)]
    /\ ready \in [Clients -> BOOLEAN]
    /\ mirror \in [Clients -> Mirrors]
    /\ awaiting \in [Clients -> BOOLEAN]
    /\ heard \in [Clients -> Stamps]
    /\ \A c \in Clients : Len(chan[c]) - written[c] <= SendBuffer

\* A client of a live connection never shows a blend of two revisions: its
\* mirror is exactly the part of the state at its own revision that its last
\* snapshot was scoped to, whatever deltas were skipped, dropped as stale or
\* raced a subscription change (SnapshotInto, broadcastDelta, applyDelta).
MirrorFaithful ==
    \A c \in Clients : Serving(c) /\ mirror[c].have =>
        /\ mirror[c].rev <= rev
        /\ mirror[c].data = View(hist[mirror[c].rev], mirror[c].scope)

\* A client subscribed to everything is never made to think a frame was lost: no
\* delta reaches it ahead of its turn, because the revision is assigned and
\* broadcast under one lock (the comment on Store.Update), and a connection that
\* cannot take a delta is closed (enqueue).  One that is being closed already may
\* miss some and still flush later ones.
NoFalseGap ==
    \A c \in Clients :
        link[c] = "up" /\ chan[c] # <<>> /\ Head(chan[c]).type = "delta"
        /\ mirror[c].have /\ mirror[c].scope = Topics
        => Head(chan[c]).rev <= mirror[c].rev + 1

\* No delta is lost on the way to a live client: when its connection has nothing
\* in flight, no subscription change is under way and it asked for no snapshot,
\* its mirror is the current state, scoped to its subscription.
QuietMeansCurrent ==
    \A c \in Clients :
        link[c] = "up" /\ reader[c] = "idle" /\ chan[c] = <<>> /\ ~awaiting[c]
        => /\ mirror[c].have
           /\ mirror[c].data = View(store, topics[c])

\* Within a session a mirror's revision never goes back (sendSnapshot reads the
\* revision and enqueues under one lock, so no delta overtakes a snapshot).
NeverRewinds ==
    [][\A c \in Clients :
         Serving(c) /\ Serving(c)' /\ mirror[c].have
         => mirror'[c].have /\ mirror'[c].rev >= mirror[c].rev]_vars

\* A client whose connection stays up ends up showing the current state, even
\* when its subscription makes it skip revisions and resynchronise.
Converges ==
    \A c \in Clients :
        <>[](link[c] = "up") =>
        <>[](mirror[c].have /\ mirror[c].data = View(store, mirror[c].scope))

\* The stream implements the abstract mirror: a session's view begins with a
\* snapshot and ends when the server stops serving the connection.
Abstract == INSTANCE StateMirror WITH
    published <- hist, last <- rev,
    view <- [c \in Clients |-> IF Serving(c) /\ mirror[c].have THEN mirror[c] ELSE NoMirror]
MirrorSpec == Abstract!MSpec
=============================================================================
