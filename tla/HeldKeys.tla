------------------------------ MODULE HeldKeys ------------------------------
(***************************************************************************)
(* The keys that clients hold down (api/client.go handleSurfacePress,      *)
(* trackSurfaceHold, releaseHeldSurfaceKeys), pressed through the surface  *)
(* manager into the satellite session.  A press is two steps because       *)
(* Satellite.Press checks the registration and queues the line under two   *)
(* separate locks; each client's read goroutine takes one frame at a time  *)
(* and releases what is held when it ends.                                 *)
(***************************************************************************)
EXTENDS SatelliteSession

CONSTANTS Clients,   \* tablets
          MaxPresses \* bound: press and release frames that clients send

ASSUME PressAssumption == MaxPresses \in Nat

VARIABLES client,   \* each connection: what it holds and what it is delivering
          presses,  \* frames sent so far
          dropped   \* history: <<session, key>> whose release at disconnect was refused

heldVars == <<client, presses, dropped>>
vars     == <<sessionVars, heldVars>>

-----------------------------------------------------------------------------
Steps == {"idle", "checking", "queueing"}
Ops   == [key : Keys, pressed : BOOLEAN]
Some  == CHOOSE k \in Keys : TRUE
\* leaving: the connection has ended and todo is still to be released.
Fresh == [step |-> "idle", op |-> [key |-> Some, pressed |-> FALSE],
          held |-> {}, leaving |-> FALSE, todo |-> {}]

HeldInit == /\ client = [c \in Clients |-> Fresh]
            /\ presses = 0 /\ dropped = {}

InitAll == Init /\ HeldInit

\* handleSurfacePress for a key of the grid: a hold is recorded before delivery.
HandlePress(c, k, p) ==
    /\ client[c].step = "idle" /\ ~client[c].leaving
    /\ presses < MaxPresses /\ presses' = presses + 1
    /\ client' = [client EXCEPT ![c].step = "checking", ![c].op = [key |-> k, pressed |-> p],
                                ![c].held = IF p THEN @ \cup {k} ELSE @]
    /\ UNCHANGED dropped /\ UNCHANGED sessionVars

\* The delivery was refused: nobody is left to try again if the client has gone.
Refused(c) == IF accepting /\ client[c].leaving
              THEN dropped \cup {<<n, client[c].op.key>>} ELSE dropped

\* Satellite.Press: refused until the surface is registered.
CheckRegistered(c) ==
    /\ client[c].step = "checking"
    /\ client' = [client EXCEPT ![c].step = IF registered THEN "queueing" ELSE "idle"]
    /\ dropped' = IF registered THEN dropped ELSE Refused(c)
    /\ UNCHANGED presses /\ UNCHANGED sessionVars

\* Fault: a release is forgotten whether or not it was queued.
QueuePress_ForgetsFirst(c) ==
    LET op == client[c].op IN
    /\ client[c].step = "queueing"
    /\ Offer(KeyPress(op.key, op.pressed))
    /\ client' = [client EXCEPT ![c].step = "idle",
                      ![c].held = IF ~op.pressed THEN @ \ {op.key} ELSE @]
    /\ dropped' = IF Accepts THEN dropped \ {<<n, op.key>>} ELSE Refused(c)
    /\ UNCHANGED presses
    /\ UNCHANGED <<stopping, session, n, open, accepting, registered, verdict, reader, writer,
                   companion, layout>>
    /\ UNCHANGED wires /\ UNCHANGED bounds

\* Satellite.Press queues the line.  A hold is forgotten once its release is
\* queued; while leaving, the outcome is ignored.
QueuePress(c) ==
    LET op == client[c].op IN
    /\ client[c].step = "queueing"
    /\ Offer(KeyPress(op.key, op.pressed))
    /\ client' = [client EXCEPT ![c].step = "idle",
                      ![c].held = IF Accepts /\ ~op.pressed THEN @ \ {op.key} ELSE @]
    /\ dropped' = IF Accepts THEN dropped \ {<<n, op.key>>} ELSE Refused(c)
    /\ UNCHANGED presses
    /\ UNCHANGED <<stopping, session, n, open, accepting, registered, verdict, reader, writer,
                   companion, layout>>
    /\ UNCHANGED wires /\ UNCHANGED bounds

\* The read loop has ended: releaseHeldSurfaceKeys takes the whole set.
Leave(c) ==
    /\ client[c].step = "idle" /\ ~client[c].leaving
    /\ client' = [client EXCEPT ![c].leaving = TRUE, ![c].todo = client[c].held, ![c].held = {}]
    /\ UNCHANGED <<presses, dropped>> /\ UNCHANGED sessionVars

Release(c, k) ==
    /\ client[c].step = "idle" /\ k \in client[c].todo
    /\ client' = [client EXCEPT ![c].step = "checking", ![c].todo = @ \ {k},
                                ![c].op = [key |-> k, pressed |-> FALSE]]
    /\ UNCHANGED <<presses, dropped>> /\ UNCHANGED sessionVars

\* All released; the tablet may connect again.
Rejoin(c) ==
    /\ client[c].step = "idle" /\ client[c].leaving /\ client[c].todo = {}
    /\ client' = [client EXCEPT ![c] = Fresh]
    /\ UNCHANGED <<presses, dropped>> /\ UNCHANGED sessionVars

-----------------------------------------------------------------------------
Deliver(c) == CheckRegistered(c) \/ QueuePress(c) \/ (\E k \in Keys : Release(c, k))

ClientNext ==
    \E c \in Clients :
        \/ \E k \in Keys, p \in BOOLEAN : HandlePress(c, k, p)
        \/ Deliver(c) \/ Leave(c) \/ Rejoin(c)

Next == ClientNext \/ (SessionNext /\ UNCHANGED heldVars)

Spec == InitAll /\ [][Next]_vars

\* Goroutines run, a reachable Companion answers unless it has vanished, and a
\* vanished one lets the deadlines pass.  Nobody has to press, leave or stop.
Fairness ==
    /\ WF_vars(SessionStep /\ UNCHANGED heldVars)
    /\ WF_vars(WriterStep /\ UNCHANGED heldVars)
    /\ \A i \in Sessions : WF_vars(ReaderStep(i) /\ UNCHANGED heldVars)
    /\ WF_vars(CompanionStep /\ UNCHANGED heldVars)
    /\ \A c \in Clients : WF_vars(Deliver(c))

FairSpec == Spec /\ Fairness

-----------------------------------------------------------------------------
(* Properties *)

ControlType ==
    /\ session \in {"backoff", "dialed", "pending", "live", "reaping", "flushing", "over"}
    /\ n \in 0..MaxSessions /\ layout \in 0..n /\ stopping \in BOOLEAN /\ open \in BOOLEAN
    /\ accepting \in BOOLEAN /\ registered \in BOOLEAN
    /\ verdict \in {"nil", "due", "ok", "error"}
    /\ reader \in [Sessions -> Incoming \cup {"off", "reading", "accepted", "ended"}]
    /\ writer \in {"off", "writing", "draining"}
OutType    == out \in Seq(Outgoing) /\ Len(out) <= OutBuffer
WireOutType == wireOut \in Seq(Outgoing) /\ Len(wireOut) <= WireCap
WireInType == wireIn \in Seq(Incoming) /\ Len(wireIn) <= WireCap
PeerType   == companion \in [device : {"none", "added", "refused"}, mute : BOOLEAN,
                             down : SUBSET Keys]
Connection == [step : Steps, op : Ops, held : SUBSET Keys, leaving : BOOLEAN, todo : SUBSET Keys]
ClientType == client \in [Clients -> Connection]
CountType  == /\ dropped \subseteq Sessions \X Keys
              /\ lines \in 0..MaxLines /\ faults \in 0..MaxFaults /\ presses \in 0..MaxPresses

TypeOK == /\ ControlType /\ OutType /\ WireOutType /\ WireInType
          /\ PeerType /\ ClientType /\ CountType

\* A rejection that the reader has yet to handle.
Rejected == reader[n] = "error" \/ \E i \in 1..Len(wireIn) : wireIn[i] = "error"

\* The server believes its surface registered only if Companion accepted it in
\* this session and, if it has been taken away since, the news is on its way or
\* the session is ending: no verdict, and no flag, outlives its session
\* (session's teardown, signalRegistration).
RegistrationKnown ==
    registered =>
        \/ companion.device = "added"
        \/ companion.device = "refused" /\ (~open \/ Rejected)

\* The surface manager hears the sessions one at a time and each session's
\* layout before its key states: what the callbacks' broadcasts outside the
\* mutex rely on (surfaceManager; handleLine raises the layout itself).
RaisedInOrder ==
    [][\A i \in Sessions :
          /\ reader[i] = "key-state" /\ reader'[i] # "key-state" => layout = i
          /\ reader[i] = "ok" /\ reader'[i] # "ok" => layout < i]_vars

\* Whether k is down once the lines of q have been taken by a surface whose keys
\* in `down` are down.
KeyDown(q, down, k) ==
    LET moves == {i \in 1..Len(q) : q[i].cmd = "key-press" /\ q[i].key = k}
    IN  IF moves = {} THEN k \in down
        ELSE \E i \in moves : q[i].pressed /\ \A j \in moves : j <= i

WillBeDown(k) == KeyDown(wireOut \o out, companion.down, k)

\* Some connection holds the key, or is about to release it as it ends.
Answerable(k) ==
    \E c \in Clients :
        \/ k \in client[c].held \cup client[c].todo
        \/ client[c].leaving /\ client[c].step # "idle" /\ client[c].op.key = k

\* On a live surface every key that is or will be down is answered for by a
\* connection that holds it or is releasing it; the one exception is a release
\* at disconnect that the session refused (handleSurfacePress's order of record,
\* deliver, forget, and releaseHeldSurfaceKeys).
HoldCovered ==
    open /\ companion.device = "added" =>
        \A k \in Keys : WillBeDown(k) => Answerable(k) \/ <<n, k>> \in dropped

\* A session that is refused, evicted, reset, silent or late is always replaced:
\* once such faults are over the surface is registered for good, unless the
\* server is stopping (Run, the deadlines, signalRegistration's late error).
Registers == <>[](registered \/ stopping)

\* Cancelling ends Run: the teardown waits on nothing that waits for it.
Stops == stopping ~> session = "over"
=============================================================================
