----------------------------- MODULE SlideFeed ------------------------------
(***************************************************************************)
(* The slide sidecar: the monitor that polls PowerPoint                    *)
(* (sidecar/SlideMonitor.cs), and the pipe server that hands its lines to  *)
(* one consumer at a time through a bounded queue                          *)
(* (sidecar/SidecarPipeServer.cs).  Both run on their own.                 *)
(***************************************************************************)
EXTENDS Integers, Sequences

CONSTANTS Slides,    \* positions in the show
          None,
          Capacity,  \* of the channel
          MaxMoves   \* bound: what the operator does

VARIABLES
    show,      \* CurrentShowPosition; None without a running show
    moves,
    attached,  \* the monitor holds a running PowerPoint
    last,      \* lastPosition; None for -1
    position,  \* what the poll has read; None while it waits for a tick
    slide,     \* the slide it has read after that
    queue,     \* _queue
    phase,     \* the pipe server: "waiting", "discarding", "pumping"
    hand,      \* the line the pump has dequeued
    consumer,  \* the Go server is at the other end of the pipe
    got,       \* the last slide that consumer was sent
    told       \* history: the position and slide of the last line queued for it

vars == <<show, moves, attached, last, position, slide, queue,
          phase, hand, consumer, got, told>>
poll    == <<position, slide>>
monitor == <<attached, last, position, slide>>
pipe    == <<phase, hand, consumer, got>>

Init ==
    /\ show = None /\ moves = 0 /\ attached = FALSE /\ last = None
    /\ position = None /\ slide = None /\ told = None
    /\ queue = <<>> /\ phase = "waiting" /\ hand = None
    /\ consumer = FALSE /\ got = None

-----------------------------------------------------------------------------
(* PowerPoint and its operator *)

Move ==
    /\ moves < MaxMoves /\ moves' = moves + 1
    /\ show' \in (Slides \cup {None}) \ {show}
    /\ UNCHANGED <<queue, told>> /\ UNCHANGED monitor /\ UNCHANGED pipe

-----------------------------------------------------------------------------
(* SlideMonitor: each call of a poll goes to PowerPoint's process, where the  *)
(* operator may move between any two of them.                                *)

\* TryAttach; a new poll loop has seen no position.
Attach ==
    /\ ~attached
    /\ attached' = TRUE /\ last' = None
    /\ UNCHANGED <<show, moves, queue, told>> /\ UNCHANGED poll /\ UNCHANGED pipe

\* PowerPoint closes, or a poll throws before Emit, which catches all.
Fault ==
    /\ attached /\ position = None
    /\ attached' = FALSE
    /\ UNCHANGED <<show, moves, last, queue, told>> /\ UNCHANGED poll /\ UNCHANGED pipe

\* Re-emit the opening slide when a show starts again.
PollIdle ==
    /\ attached /\ show = None /\ position = None
    /\ last' = None
    /\ UNCHANGED <<show, moves, attached, queue, told>> /\ UNCHANGED poll /\ UNCHANGED pipe

\* View.CurrentShowPosition; the poll ends here when that is no change.
ReadPosition ==
    /\ attached /\ position = None /\ show \notin {None, last}
    /\ position' = show
    /\ UNCHANGED <<show, moves, attached, last, slide, queue, told>> /\ UNCHANGED pipe

\* View.Slide, wherever the show is by now.
ReadSlide ==
    /\ position # None /\ slide = None /\ show # None
    /\ slide' = show
    /\ UNCHANGED <<show, moves, attached, last, position, queue, told>> /\ UNCHANGED pipe

\* Fault: a full queue turns the newest line away.
Broadcast_DropNewest(line) ==
    IF Len(queue) < Capacity THEN Append(queue, line) ELSE queue

\* TryWrite, DropOldest.
Broadcast(line) ==
    IF Len(queue) < Capacity THEN Append(queue, line) ELSE Append(Tail(queue), line)

Emit ==
    /\ slide # None
    /\ queue' = Broadcast(slide) /\ told' = <<position, slide>>
    /\ last' = position /\ position' = None /\ slide' = None
    /\ UNCHANGED <<show, moves, attached>> /\ UNCHANGED pipe

\* Emit logged a failure: the position stays new for the next tick.
EmitFails ==
    /\ position # None
    /\ position' = None /\ slide' = None
    /\ UNCHANGED <<show, moves, attached, last, queue, told>> /\ UNCHANGED pipe

-----------------------------------------------------------------------------
(* SidecarPipeServer *)

Connect ==
    /\ phase = "waiting" /\ ~consumer
    /\ consumer' = TRUE /\ got' = None /\ phase' = "discarding"
    /\ UNCHANGED <<show, moves, queue, hand, told>> /\ UNCHANGED monitor

\* What was buffered without a consumer is thrown away, line by line.
Discard ==
    /\ phase = "discarding" /\ queue # <<>>
    /\ queue' = Tail(queue)
    /\ UNCHANGED <<show, moves, told>> /\ UNCHANGED monitor /\ UNCHANGED pipe

StartPump ==
    /\ phase = "discarding" /\ queue = <<>>
    /\ phase' = "pumping" /\ told' = None
    /\ UNCHANGED <<show, moves, queue, hand, consumer, got>> /\ UNCHANGED monitor

Dequeue ==
    /\ phase = "pumping" /\ hand = None /\ queue # <<>>
    /\ hand' = Head(queue) /\ queue' = Tail(queue)
    /\ UNCHANGED <<show, moves, phase, consumer, got, told>> /\ UNCHANGED monitor

Write ==
    /\ phase = "pumping" /\ hand # None /\ consumer
    /\ got' = hand /\ hand' = None
    /\ UNCHANGED <<show, moves, queue, phase, consumer, told>> /\ UNCHANGED monitor

Leave ==
    /\ consumer
    /\ consumer' = FALSE
    /\ UNCHANGED <<show, moves, queue, phase, hand, got, told>> /\ UNCHANGED monitor

\* IsConnected, or the write, tells; the line in hand is lost and the pipe recycled.
Recycle ==
    /\ phase = "pumping" /\ ~consumer
    /\ phase' = "waiting" /\ hand' = None
    /\ UNCHANGED <<show, moves, queue, consumer, got, told>> /\ UNCHANGED monitor

-----------------------------------------------------------------------------
Pump == Discard \/ StartPump \/ Dequeue \/ Write \/ Recycle

Next ==
    \/ Move \/ Attach \/ Fault
    \/ PollIdle \/ ReadPosition \/ ReadSlide \/ Emit \/ EmitFails
    \/ Connect \/ Leave \/ Pump

Spec == Init /\ [][Next]_vars

\* The timers keep firing, and a slide that is read again and again is told at last.
FairSpec == /\ Spec /\ WF_vars(Attach) /\ WF_vars(Pump)
            /\ SF_vars(ReadPosition) /\ SF_vars(ReadSlide) /\ SF_vars(Emit)
-----------------------------------------------------------------------------
\* Every variable has its shape.
TypeOK ==
    /\ show \in Slides \cup {None} /\ moves \in 0 .. MaxMoves
    /\ attached \in BOOLEAN /\ {last, position, slide} \subseteq Slides \cup {None}
    /\ queue \in Seq(Slides) /\ Len(queue) <= Capacity
    /\ phase \in {"waiting", "discarding", "pumping"} /\ hand \in Slides \cup {None}
    /\ consumer \in BOOLEAN /\ got \in Slides \cup {None}
    /\ told \in {None} \cup (Slides \X Slides)

\* The line queued for the position s carries another slide, since the show moved
\* between the two calls of one poll, and s counts as told.
Mistaken(s) == last = s /\ told # None /\ told[1] = s /\ told[2] # s

\* When the show comes to rest at s while a consumer is being pumped to that some
\* line was queued for, s is the last slide that consumer hears and keeps: no
\* failed emit, no fault and no full queue loses it for good (PollLoopAsync's
\* lastPosition, Broadcast's DropOldest, PumpAsync).  A poll that the show moved
\* under may have taken another slide for s, which is then not told again.
NewSlideArrives ==
    \A s \in Slides :
        <>[](show = s /\ phase = "pumping" /\ told # None)
            => <>[](got = s \/ Mistaken(s))
=============================================================================
