-------------------------- MODULE SatelliteSession --------------------------
(***************************************************************************)
(* The server's registered surface in Companion (companion/satellite.go):  *)
(* Run dials one session after another; in each a writer drains a bounded  *)
(* queue, a reader handles Companion's lines, and the session goroutine    *)
(* registers, waits for the verdict and tears everything down in order.    *)
(*                                                                         *)
(* Companion is external: it answers ADD-DEVICE, asks for PONGs, pushes    *)
(* key states, and remembers which keys its surface holds down.  layout *)
(* is history: no guard reads it.                                          *)
(***************************************************************************)
EXTENDS Integers, Sequences

CONSTANTS Keys,        \* keys of the grid
          OutBuffer,   \* outBuffer, the capacity of a session's queue
          WireCap,     \* bound: lines the socket takes each way
          MaxSessions, \* bound: sessions dialled
          MaxLines,    \* bound: key states and pings, either way
          MaxFaults    \* bound: rejections, silences, resets, spurious timeouts

ASSUME SessionAssumption ==
    /\ Keys # {}
    /\ OutBuffer \in Nat \ {0} /\ WireCap \in Nat \ {0}
    /\ MaxSessions \in Nat \ {0} /\ MaxLines \in Nat /\ MaxFaults \in Nat

VARIABLES
    stopping,   \* ctx is cancelled
    session,    \* where the session goroutine is
    n,          \* sessions dialled so far
    open,       \* the socket of session n is open
    out,        \* lines in session n's queue
    accepting,  \* Satellite.out is not nil
    registered, \* Satellite.registered
    verdict,    \* Satellite.reg and its channel: "nil", "due" or the verdict in it
    reader,     \* what each session's reader goroutine is doing
    writer,     \* what session n's writer goroutine is doing
    wireOut,    \* lines on their way to Companion
    wireIn,     \* lines on their way from Companion
    companion,  \* Companion's side of the socket
    layout,     \* session of the last layout raised in the surface manager
    lines, faults

conn        == <<out, accepting, registered, verdict>>
wires       == <<wireOut, wireIn>>
bounds      == <<lines, faults>>
sessionVars == <<stopping, session, n, open, out, accepting, registered, verdict, reader,
                 writer, wireOut, wireIn, companion, layout, lines, faults>>

-----------------------------------------------------------------------------
Sessions == 1..MaxSessions

Line(cmd)      == [cmd |-> cmd]
KeyPress(k, p) == [cmd |-> "key-press", key |-> k, pressed |-> p]
Outgoing == {Line("add-device"), Line("ping"), Line("pong")}
            \cup {KeyPress(k, p) : k \in Keys, p \in BOOLEAN}
Incoming == {"ok", "error", "key-state", "ping", "pong"}
NoSurface == [device |-> "none", mute |-> FALSE, down |-> {}]

Fault == faults < MaxFaults /\ faults' = faults + 1

Init ==
    /\ stopping = FALSE /\ session = "backoff" /\ n = 0 /\ open = FALSE
    /\ out = <<>> /\ accepting = FALSE /\ registered = FALSE /\ verdict = "nil"
    /\ reader = [i \in Sessions |-> "off"] /\ writer = "off"
    /\ wireOut = <<>> /\ wireIn = <<>> /\ companion = NoSurface
    /\ layout = 0
    /\ lines = 0 /\ faults = 0

-----------------------------------------------------------------------------
(* Satellite.enqueue: the check of out and the send are one step under mu. *)

Full       == Len(out) >= OutBuffer
Accepts    == accepting /\ ~Full
Offer(line) == out' = IF Accepts THEN Append(out, line) ELSE out

-----------------------------------------------------------------------------
(* The session goroutine *)

\* A successful dial, the goroutines it starts, and setSession.  A failed dial
\* returns to the backoff and changes nothing.
Dial ==
    /\ session = "backoff" /\ ~stopping /\ n < MaxSessions
    /\ n' = n + 1 /\ open' = TRUE /\ session' = "dialed"
    /\ out' = <<>> /\ accepting' = TRUE /\ verdict' = "due"
    /\ reader' = [reader EXCEPT ![n + 1] = "reading"] /\ writer' = "writing"
    /\ wireOut' = <<>> /\ wireIn' = <<>> /\ companion' = NoSurface
    /\ UNCHANGED <<stopping, registered, layout>> /\ UNCHANGED bounds

\* session returns: its deferred teardown first closes the socket.
Close == session' = "reaping" /\ open' = FALSE

Register ==
    /\ session = "dialed"
    /\ Offer(Line("add-device"))
    /\ IF Accepts THEN session' = "pending" /\ open' = open ELSE Close
    /\ UNCHANGED <<stopping, n, accepting, registered, verdict, reader, writer, companion, layout>>
    /\ UNCHANGED wires /\ UNCHANGED bounds

\* The select on the verdict: accepted.
Accepted ==
    /\ session = "pending" /\ verdict = "ok"
    /\ session' = "live" /\ verdict' = "nil"
    /\ UNCHANGED <<stopping, n, open, out, accepting, registered, reader, writer, companion, layout>>
    /\ UNCHANGED wires /\ UNCHANGED bounds

\* The session ends: refused, its reader gone, or cancelled while it waits.
Ends ==
    /\ \/ session = "pending" /\ (verdict = "error" \/ stopping)
       \/ session \in {"pending", "live"} /\ reader[n] = "ended"
    /\ Close
    /\ UNCHANGED <<stopping, n, reader, writer, companion, layout>>
    /\ UNCHANGED conn /\ UNCHANGED wires /\ UNCHANGED bounds

\* satRegisterTimeout: no verdict from a silent Companion, or a slow one (a fault).
RegisterTimeout ==
    /\ session = "pending"
    /\ IF companion.mute THEN faults' = faults ELSE Fault
    /\ Close
    /\ UNCHANGED <<stopping, n, reader, writer, companion, layout, lines>>
    /\ UNCHANGED conn /\ UNCHANGED wires

\* Fault: the handles are cleared without waiting for the reader.
Reap_Unwaited ==
    /\ session = "reaping"
    /\ session' = "flushing"
    /\ accepting' = FALSE /\ verdict' = "nil" /\ registered' = FALSE
    /\ UNCHANGED <<stopping, n, open, out, reader, writer, companion, layout>>
    /\ UNCHANGED wires /\ UNCHANGED bounds

\* Fault: the next session starts with the last one's registration.
Reap_KeepsRegistered ==
    /\ session = "reaping" /\ reader[n] = "ended"
    /\ session' = "flushing"
    /\ accepting' = FALSE /\ verdict' = "nil"
    /\ UNCHANGED <<stopping, n, open, out, registered, reader, writer, companion, layout>>
    /\ UNCHANGED wires /\ UNCHANGED bounds

\* Fault: the writer is waited for before its queue is closed.
Reap_WaitsForWriter ==
    /\ session = "reaping" /\ reader[n] = "ended" /\ writer = "off"
    /\ session' = "flushing"
    /\ accepting' = FALSE /\ verdict' = "nil" /\ registered' = FALSE
    /\ UNCHANGED <<stopping, n, open, out, reader, writer, companion, layout>>
    /\ UNCHANGED wires /\ UNCHANGED bounds

\* Teardown: once the reader has exited, clear the handles and close the queue.
Reap ==
    /\ session = "reaping" /\ reader[n] = "ended"
    /\ session' = "flushing"
    /\ accepting' = FALSE /\ verdict' = "nil" /\ registered' = FALSE
    /\ UNCHANGED <<stopping, n, open, out, reader, writer, companion, layout>>
    /\ UNCHANGED wires /\ UNCHANGED bounds

\* Teardown ends when the writer has; Run backs off.
Flushed ==
    /\ session = "flushing" /\ writer = "off"
    /\ session' = "backoff"
    /\ UNCHANGED <<stopping, n, open, reader, writer, companion, layout>>
    /\ UNCHANGED conn /\ UNCHANGED wires /\ UNCHANGED bounds

\* Run returns from its backoff on cancellation.
Return ==
    /\ session = "backoff" /\ stopping
    /\ session' = "over"
    /\ UNCHANGED <<stopping, n, open, reader, writer, companion, layout>>
    /\ UNCHANGED conn /\ UNCHANGED wires /\ UNCHANGED bounds

Cancel ==
    /\ ~stopping /\ stopping' = TRUE
    /\ UNCHANGED <<session, n, open, reader, writer, companion, layout>>
    /\ UNCHANGED conn /\ UNCHANGED wires /\ UNCHANGED bounds

\* The goroutine that closes the socket on cancellation, for as long as the
\* session function has not returned.
CancelRead ==
    /\ stopping /\ open /\ session \in {"dialed", "pending", "live"}
    /\ open' = FALSE
    /\ UNCHANGED <<stopping, session, n, reader, writer, companion, layout>>
    /\ UNCHANGED conn /\ UNCHANGED wires /\ UNCHANGED bounds

\* pingLoop: a tick that finds the queue full is skipped.
Ping ==
    /\ session = "live" /\ lines < MaxLines /\ lines' = lines + 1
    /\ Offer(Line("ping"))
    /\ UNCHANGED <<stopping, session, n, open, accepting, registered, verdict, reader, writer,
                   companion, layout, faults>>
    /\ UNCHANGED wires

-----------------------------------------------------------------------------
(* The writer goroutine *)

\* A line goes onto the socket, which takes WireCap lines; on a closed one the
\* write fails and the line is lost.
WriteLine ==
    /\ writer = "writing" /\ out # <<>>
    /\ \/ /\ open /\ Len(wireOut) < WireCap
          /\ wireOut' = Append(wireOut, Head(out)) /\ writer' = writer
       \/ ~open /\ writer' = "draining" /\ wireOut' = wireOut
    /\ out' = Tail(out)
    /\ UNCHANGED <<stopping, session, n, open, accepting, registered, verdict, reader, wireIn,
                   companion, layout>>
    /\ UNCHANGED bounds

\* After a failed write: discard until the queue is closed.
DrainLine ==
    /\ writer = "draining" /\ out # <<>>
    /\ out' = Tail(out)
    /\ UNCHANGED <<stopping, session, n, open, accepting, registered, verdict, reader, writer,
                   companion, layout>>
    /\ UNCHANGED wires /\ UNCHANGED bounds

WriterEnds ==
    /\ writer # "off" /\ out = <<>> /\ ~accepting
    /\ writer' = "off"
    /\ UNCHANGED <<stopping, session, n, open, reader, companion, layout>>
    /\ UNCHANGED conn /\ UNCHANGED wires /\ UNCHANGED bounds

-----------------------------------------------------------------------------
(* The reader goroutine of session i *)

Does(i, what) == reader' = [reader EXCEPT ![i] = what]

ReadLine(i) ==
    /\ reader[i] = "reading" /\ i = n /\ open /\ wireIn # <<>>
    /\ Does(i, Head(wireIn)) /\ wireIn' = Tail(wireIn)
    /\ UNCHANGED <<stopping, session, n, open, writer, wireOut, companion, layout>>
    /\ UNCHANGED conn /\ UNCHANGED bounds

ReadFails(i) ==
    /\ reader[i] = "reading" /\ ~(i = n /\ open)
    /\ Does(i, "ended")
    /\ UNCHANGED <<stopping, session, n, open, writer, companion, layout>>
    /\ UNCHANGED conn /\ UNCHANGED wires /\ UNCHANGED bounds

\* satReadTimeout: nothing arrived, from a silent peer or a slow one (a fault).
ReadTimeout(i) ==
    /\ reader[i] = "reading" /\ i = n /\ open /\ wireIn = <<>>
    /\ IF companion.mute THEN faults' = faults ELSE Fault
    /\ Does(i, "ended")
    /\ UNCHANGED <<stopping, session, n, open, writer, companion, layout, lines>>
    /\ UNCHANGED conn /\ UNCHANGED wires

\* A KEY-STATE or a KEYS-CLEAR: the callback into the surface manager.
HandleKeyState(i) ==
    /\ reader[i] = "key-state"
    /\ Does(i, "reading")
    /\ UNCHANGED <<stopping, session, n, open, writer, companion, layout>>
    /\ UNCHANGED conn /\ UNCHANGED wires /\ UNCHANGED bounds

\* A PING is echoed if the queue takes it; a PONG only proves the peer alive.
HandlePing(i) ==
    /\ reader[i] \in {"ping", "pong"}
    /\ IF reader[i] = "ping" THEN Offer(Line("pong")) ELSE out' = out
    /\ Does(i, "reading")
    /\ UNCHANGED <<stopping, session, n, open, accepting, registered, verdict, writer,
                   companion, layout>>
    /\ UNCHANGED wires /\ UNCHANGED bounds

\* ADD-DEVICE OK: the layout is raised first, on this goroutine.
RaiseLayout(i) ==
    /\ reader[i] = "ok"
    /\ layout' = i
    /\ Does(i, "accepted")
    /\ UNCHANGED <<stopping, session, n, open, writer, companion>>
    /\ UNCHANGED conn /\ UNCHANGED wires /\ UNCHANGED bounds

\* Fault: a late rejection only clears the flag.
SignalRegistration_KeepsSocket(i) ==
    /\ reader[i] \in {"accepted", "error"}
    /\ registered' = (reader[i] = "accepted")
    /\ verdict' = IF verdict # "due" THEN verdict
                  ELSE IF reader[i] = "accepted" THEN "ok" ELSE "error"
    /\ Does(i, "reading")
    /\ UNCHANGED <<stopping, session, n, open, out, accepting, writer, companion, layout>>
    /\ UNCHANGED wires /\ UNCHANGED bounds

\* signalRegistration: the verdict goes to whoever waits for it; an error that
\* nobody waits for closes the socket.
SignalRegistration(i) ==
    /\ reader[i] \in {"accepted", "error"}
    /\ registered' = (reader[i] = "accepted")
    /\ verdict' = IF verdict # "due" THEN verdict
                  ELSE IF reader[i] = "accepted" THEN "ok" ELSE "error"
    /\ open' = (open /\ ~(verdict # "due" /\ reader[i] = "error"))
    /\ Does(i, "reading")
    /\ UNCHANGED <<stopping, session, n, out, accepting, writer, companion, layout>>
    /\ UNCHANGED wires /\ UNCHANGED bounds

-----------------------------------------------------------------------------
(* Companion *)

Listens == open /\ ~companion.mute
Reply(line) == Len(wireIn) < WireCap /\ wireIn' = Append(wireIn, line)

\* The verdict on a registration; a refusal is a fault.
Judge ==
    /\ Listens /\ wireOut # <<>> /\ Head(wireOut).cmd = "add-device"
    /\ wireOut' = Tail(wireOut)
    /\ \/ /\ Reply("ok") /\ companion' = [companion EXCEPT !.device = "added"]
          /\ faults' = faults
       \/ /\ Reply("error") /\ companion' = [companion EXCEPT !.device = "refused"]
          /\ Fault
    /\ UNCHANGED <<stopping, session, n, open, reader, writer, layout, lines>>
    /\ UNCHANGED conn

\* A press moves the key of a registered surface and is discarded otherwise.
TakePress ==
    /\ Listens /\ wireOut # <<>> /\ Head(wireOut).cmd = "key-press"
    /\ wireOut' = Tail(wireOut)
    /\ LET line == Head(wireOut) IN
       companion' = IF companion.device # "added" THEN companion
                    ELSE IF line.pressed
                    THEN [companion EXCEPT !.down = @ \cup {line.key}]
                    ELSE [companion EXCEPT !.down = @ \ {line.key}]
    /\ UNCHANGED <<stopping, session, n, open, reader, writer, wireIn, layout>>
    /\ UNCHANGED conn /\ UNCHANGED bounds

TakePing ==
    /\ Listens /\ wireOut # <<>> /\ Head(wireOut).cmd \in {"ping", "pong"}
    /\ wireOut' = Tail(wireOut)
    /\ IF Head(wireOut).cmd = "ping" THEN Reply("pong") ELSE wireIn' = wireIn
    /\ UNCHANGED <<stopping, session, n, open, reader, writer, companion, layout>>
    /\ UNCHANGED conn /\ UNCHANGED bounds

\* Key states once the surface is registered, pings at any time.
Push(line) ==
    /\ Listens /\ lines < MaxLines /\ lines' = lines + 1
    /\ line = "key-state" => companion.device = "added"
    /\ Reply(line)
    /\ UNCHANGED <<stopping, session, n, open, reader, writer, wireOut, companion, layout, faults>>
    /\ UNCHANGED conn

\* The device id is handed to another surface after it was ours.
Evict ==
    /\ Listens /\ companion.device = "added" /\ Fault
    /\ companion' = [companion EXCEPT !.device = "refused", !.down = {}]
    /\ Reply("error")
    /\ UNCHANGED <<stopping, session, n, open, reader, writer, wireOut, layout, lines>>
    /\ UNCHANGED conn

\* The peer vanishes without a FIN.
Vanish ==
    /\ Listens /\ Fault
    /\ companion' = [companion EXCEPT !.mute = TRUE]
    /\ UNCHANGED <<stopping, session, n, open, reader, writer, layout, lines>>
    /\ UNCHANGED conn /\ UNCHANGED wires

\* The connection drops.
Reset ==
    /\ open /\ Fault
    /\ open' = FALSE
    /\ UNCHANGED <<stopping, session, n, reader, writer, companion, layout, lines>>
    /\ UNCHANGED conn /\ UNCHANGED wires

-----------------------------------------------------------------------------
SessionStep ==
    \/ Dial \/ Register \/ Accepted \/ Ends \/ Reap \/ Flushed \/ Return \/ CancelRead
    \/ companion.mute /\ RegisterTimeout
WriterStep == WriteLine \/ DrainLine \/ WriterEnds
ReaderStep(i) ==
    \/ ReadLine(i) \/ ReadFails(i) \/ HandleKeyState(i) \/ HandlePing(i)
    \/ RaiseLayout(i) \/ SignalRegistration(i)
    \/ companion.mute /\ ReadTimeout(i)
CompanionStep == Judge \/ TakePress \/ TakePing

SessionNext ==
    \/ SessionStep \/ RegisterTimeout \/ Cancel \/ Ping
    \/ WriterStep
    \/ \E i \in Sessions : ReaderStep(i) \/ ReadTimeout(i)
    \/ CompanionStep \/ (\E line \in {"key-state", "ping"} : Push(line))
    \/ Evict \/ Vanish \/ Reset
=============================================================================
