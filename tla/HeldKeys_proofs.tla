--------------------------- MODULE HeldKeys_proofs ---------------------------
(***************************************************************************)
(* IInv is an invariant of the satellite session and the keys held through *)
(* it, and HoldCovered follows: for every number of tablets, every grid,   *)
(* every queue and every bound.                                            *)
(***************************************************************************)
EXTENDS HeldKeysInv, SequenceTheorems, TLAPS

-----------------------------------------------------------------------------
(* Lines and where a sequence of them leaves a key *)

Moves(line, k) == line.cmd = "key-press" /\ line.key = k

LEMMA LineFacts ==
    /\ \A cmd : Line(cmd).cmd = cmd
    /\ \A k, p : /\ KeyPress(k, p).cmd = "key-press" /\ KeyPress(k, p).key = k
                 /\ KeyPress(k, p).pressed = p
    /\ \A cmd \in {"add-device", "ping", "pong"} : Line(cmd) \in Outgoing
    /\ \A k \in Keys, p \in BOOLEAN : KeyPress(k, p) \in Outgoing
<1>1. \A cmd : Line(cmd).cmd = cmd
  BY DEF Line
<1>2. \A k, p : /\ KeyPress(k, p).cmd = "key-press" /\ KeyPress(k, p).key = k
                /\ KeyPress(k, p).pressed = p
  BY DEF KeyPress
<1>3. \A cmd \in {"add-device", "ping", "pong"} : Line(cmd) \in Outgoing
  BY DEF Outgoing
<1>4. \A k \in Keys, p \in BOOLEAN : KeyPress(k, p) \in Outgoing
  BY DEF Outgoing
<1> QED BY <1>1, <1>2, <1>3, <1>4

\* The last move of k decides; without one, k stays as it was.
LEMMA KeyDownMeans ==
    ASSUME NEW q \in Seq(Outgoing), NEW down, NEW k
    PROVE  KeyDown(q, down, k) <=>
              \/ k \in down /\ \A i \in 1..Len(q) : ~Moves(q[i], k)
              \/ \E i \in 1..Len(q) :
                    /\ Moves(q[i], k) /\ q[i].pressed
                    /\ \A j \in 1..Len(q) : Moves(q[j], k) => j <= i
<1> DEFINE M == {i \in 1..Len(q) : q[i].cmd = "key-press" /\ q[i].key = k}
<1>1. KeyDown(q, down, k) <=> IF M = {} THEN k \in down
                             ELSE \E i \in M : q[i].pressed /\ \A j \in M : j <= i
  BY DEF KeyDown
<1>2. \A i : i \in M <=> i \in 1..Len(q) /\ Moves(q[i], k)
  BY DEF Moves
<1>3. M = {} <=> \A i \in 1..Len(q) : ~Moves(q[i], k)
  BY <1>2
<1> HIDE DEF M
<1> QED BY <1>1, <1>2, <1>3

LEMMA KeyDownAppend ==
    ASSUME NEW q \in Seq(Outgoing), NEW line \in Outgoing, NEW down, NEW k
    PROVE  /\ Moves(line, k) => (KeyDown(Append(q, line), down, k) <=> line.pressed)
           /\ ~Moves(line, k) => (KeyDown(Append(q, line), down, k) <=> KeyDown(q, down, k))
<1> DEFINE r == Append(q, line)
<1>1. /\ r \in Seq(Outgoing) /\ Len(r) = Len(q) + 1 /\ r[Len(q) + 1] = line
      /\ \A i \in 1..Len(q) : r[i] = q[i]
      /\ Len(q) \in Nat
  OBVIOUS
<1>2. \A i : i \in 1..Len(r) <=> i \in 1..Len(q) \/ i = Len(q) + 1
  BY <1>1
<1>3. KeyDown(r, down, k) <=>
              \/ k \in down /\ \A i \in 1..Len(r) : ~Moves(r[i], k)
              \/ \E i \in 1..Len(r) :
                    /\ Moves(r[i], k) /\ r[i].pressed
                    /\ \A j \in 1..Len(r) : Moves(r[j], k) => j <= i
  BY <1>1, KeyDownMeans
<1>4. KeyDown(q, down, k) <=>
              \/ k \in down /\ \A i \in 1..Len(q) : ~Moves(q[i], k)
              \/ \E i \in 1..Len(q) :
                    /\ Moves(q[i], k) /\ q[i].pressed
                    /\ \A j \in 1..Len(q) : Moves(q[j], k) => j <= i
  BY KeyDownMeans
<1> HIDE DEF r
<1>5. ASSUME Moves(line, k)
      PROVE  KeyDown(r, down, k) <=> line.pressed
  BY <1>1, <1>2, <1>3, <1>5
<1>6. ASSUME ~Moves(line, k)
      PROVE  KeyDown(r, down, k) <=> KeyDown(q, down, k)
  BY <1>1, <1>2, <1>3, <1>4, <1>6
<1> QED BY <1>5, <1>6 DEF r

\* Taking the first line and moving its key, if it moves one.
LEMMA KeyDownTail ==
    ASSUME NEW q \in Seq(Outgoing), q # <<>>, NEW down, NEW taken, NEW k,
           Moves(Head(q), k) => (k \in taken <=> Head(q).pressed),
           ~Moves(Head(q), k) => (k \in taken <=> k \in down)
    PROVE  KeyDown(Tail(q), taken, k) <=> KeyDown(q, down, k)
<1> DEFINE r == Tail(q)
<1>1. /\ r \in Seq(Outgoing) /\ Len(r) = Len(q) - 1 /\ Len(q) \in Nat \ {0} /\ Head(q) = q[1]
      /\ \A i \in 1..Len(r) : r[i] = q[i + 1]
  OBVIOUS
<1>2. \A i : i \in 1..Len(q) <=> i = 1 \/ (i \in 2..Len(q) /\ i - 1 \in 1..Len(r))
  BY <1>1
<1>3. KeyDown(r, taken, k) <=>
              \/ k \in taken /\ \A i \in 1..Len(r) : ~Moves(r[i], k)
              \/ \E i \in 1..Len(r) :
                    /\ Moves(r[i], k) /\ r[i].pressed
                    /\ \A j \in 1..Len(r) : Moves(r[j], k) => j <= i
  BY <1>1, KeyDownMeans
<1>4. KeyDown(q, down, k) <=>
              \/ k \in down /\ \A i \in 1..Len(q) : ~Moves(q[i], k)
              \/ \E i \in 1..Len(q) :
                    /\ Moves(q[i], k) /\ q[i].pressed
                    /\ \A j \in 1..Len(q) : Moves(q[j], k) => j <= i
  BY KeyDownMeans
<1>5. \A i \in 2..Len(q) : i - 1 \in 1..Len(r) /\ q[i] = r[i - 1]
  BY <1>1
<1>6. \A i \in 1..Len(r) : i + 1 \in 2..Len(q) /\ q[i + 1] = r[i]
  BY <1>1
<1> HIDE DEF r
<1>7. ASSUME \A i \in 1..Len(r) : ~Moves(r[i], k)
      PROVE  KeyDown(r, taken, k) <=> KeyDown(q, down, k)
  <2>1. KeyDown(r, taken, k) <=> k \in taken
    BY <1>3, <1>7
  <2>2. \A i \in 2..Len(q) : ~Moves(q[i], k)
    BY <1>5, <1>7
  <2>3. CASE Moves(Head(q), k)
    <3>1. 1 \in 1..Len(q) /\ Moves(q[1], k) /\ \A j \in 1..Len(q) : Moves(q[j], k) => j = 1
      BY <1>1, <1>2, <2>2, <2>3
    <3>2. KeyDown(q, down, k) <=> q[1].pressed
      BY <3>1, <1>1, <1>4
    <3> QED BY <3>2, <2>1, <2>3, <1>1
  <2>4. CASE ~Moves(Head(q), k)
    <3>1. \A j \in 1..Len(q) : ~Moves(q[j], k)
      BY <1>1, <1>2, <2>2, <2>4
    <3> QED BY <3>1, <1>4, <2>1, <2>4
  <2> QED BY <2>3, <2>4
<1>8. ASSUME \E i \in 1..Len(r) : Moves(r[i], k)
      PROVE  KeyDown(r, taken, k) <=> KeyDown(q, down, k)
  <2>1. KeyDown(r, taken, k) <=>
              \E i \in 1..Len(r) :
                    /\ Moves(r[i], k) /\ r[i].pressed
                    /\ \A j \in 1..Len(r) : Moves(r[j], k) => j <= i
    BY <1>3, <1>8
  <2>2. PICK m \in 2..Len(q) : Moves(q[m], k)
    BY <1>6, <1>8
  <2>3. KeyDown(q, down, k) <=>
              \E i \in 1..Len(q) :
                    /\ Moves(q[i], k) /\ q[i].pressed
                    /\ \A j \in 1..Len(q) : Moves(q[j], k) => j <= i
    BY <1>4, <2>2, <1>1
  <2>4. ASSUME KeyDown(r, taken, k) PROVE KeyDown(q, down, k)
    <3>1. PICK i \in 1..Len(r) : /\ Moves(r[i], k) /\ r[i].pressed
                                 /\ \A j \in 1..Len(r) : Moves(r[j], k) => j <= i
      BY <2>1, <2>4
    <3>2. i + 1 \in 1..Len(q) /\ Moves(q[i + 1], k) /\ q[i + 1].pressed
      BY <3>1, <1>6, <1>1
    <3>3. ASSUME NEW j \in 1..Len(q), Moves(q[j], k) PROVE j <= i + 1
      BY <3>1, <3>3, <1>2, <1>5, <1>1
    <3> QED BY <3>2, <3>3, <2>3
  <2>5. ASSUME KeyDown(q, down, k) PROVE KeyDown(r, taken, k)
    <3>1. PICK i \in 1..Len(q) : /\ Moves(q[i], k) /\ q[i].pressed
                                 /\ \A j \in 1..Len(q) : Moves(q[j], k) => j <= i
      BY <2>3, <2>5
    <3>2. i \in 2..Len(q)
      BY <3>1, <2>2, <1>1
    <3>3. i - 1 \in 1..Len(r) /\ Moves(r[i - 1], k) /\ r[i - 1].pressed
      BY <3>1, <3>2, <1>5
    <3>4. ASSUME NEW j \in 1..Len(r), Moves(r[j], k) PROVE j <= i - 1
      <4>1. j + 1 <= i
        BY <3>1, <3>4, <1>6, <1>1
      <4> QED BY <4>1, <3>2, <1>1
    <3> QED BY <3>3, <3>4, <2>1
  <2> QED BY <2>4, <2>5
<1> QED BY <1>7, <1>8 DEF r

\* A surface without a key down that discards a line does not press one.
LEMMA KeyDownDiscard ==
    ASSUME NEW q \in Seq(Outgoing), q # <<>>, NEW k, KeyDown(Tail(q), {}, k)
    PROVE  KeyDown(q, {}, k)
<1> DEFINE r == Tail(q)
<1>1. /\ r \in Seq(Outgoing) /\ Len(r) = Len(q) - 1 /\ Len(q) \in Nat \ {0}
      /\ \A i \in 1..Len(r) : r[i] = q[i + 1]
  OBVIOUS
<1>5. \A j \in 2..Len(q) : j - 1 \in 1..Len(r) /\ q[j] = r[j - 1]
  BY <1>1
<1>6. KeyDown(r, {}, k) <=>
              \/ k \in {} /\ \A i \in 1..Len(r) : ~Moves(r[i], k)
              \/ \E i \in 1..Len(r) :
                    /\ Moves(r[i], k) /\ r[i].pressed
                    /\ \A j \in 1..Len(r) : Moves(r[j], k) => j <= i
  BY <1>1, KeyDownMeans
<1>7. KeyDown(r, {}, k)
  OBVIOUS
<1>2. PICK i \in 1..Len(r) : /\ Moves(r[i], k) /\ r[i].pressed
                             /\ \A j \in 1..Len(r) : Moves(r[j], k) => j <= i
  <2> HIDE DEF r
  <2> QED BY <1>6, <1>7
<1> HIDE DEF r
<1>3. i + 1 \in 1..Len(q) /\ Moves(q[i + 1], k) /\ q[i + 1].pressed
  BY <1>1, <1>2
<1>4. ASSUME NEW j \in 1..Len(q), Moves(q[j], k) PROVE j <= i + 1
  <2>1. CASE j = 1
    BY <2>1, <1>1
  <2>2. CASE j # 1
    <3>1. j - 1 \in 1..Len(r) /\ r[j - 1] = q[j]
      BY <2>2, <1>1, <1>5
    <3>2. j - 1 <= i
      BY <3>1, <1>2, <1>4
    <3> QED BY <3>1, <3>2, <1>1
  <2> QED BY <2>1, <2>2
<1> QED BY <1>3, <1>4, KeyDownMeans

-----------------------------------------------------------------------------
(* The pipe: what the queue and the socket hold of a session's lines *)

LEMMA PipeType ==
    ASSUME TypeOK
    PROVE  Pipe \in Seq(Outgoing) /\ Pipe' = wireOut' \o out'
BY DEF TypeOK, OutType, WireOutType, Pipe

LEMMA OfferPipe ==
    ASSUME TypeOK, NEW line \in Outgoing, Offer(line), wireOut' = wireOut
    PROVE  Pipe' = IF Accepts THEN Append(Pipe, line) ELSE Pipe
<1>1. wireOut \in Seq(Outgoing) /\ out \in Seq(Outgoing)
  BY DEF TypeOK, OutType, WireOutType
<1>2. \A w, q \in Seq(Outgoing) : w \o Append(q, line) = Append(w \o q, line)
  <2> SUFFICES ASSUME NEW w \in Seq(Outgoing), NEW q \in Seq(Outgoing)
               PROVE  w \o Append(q, line) = Append(w \o q, line)
    OBVIOUS
  <2> DEFINE a == w \o Append(q, line)  b == Append(w \o q, line)
  <2>1. a \in Seq(Outgoing) /\ b \in Seq(Outgoing) /\ Len(a) = Len(b)
    OBVIOUS
  <2>2. \A i \in 1..Len(a) : a[i] = b[i]
    OBVIOUS
  <2> HIDE DEF a, b
  <2>3. a = b
    BY <2>1, <2>2, SeqEqual
  <2> QED BY <2>3 DEF a, b
<1> QED BY <1>1, <1>2 DEF Pipe, Offer

\* Writing a line moves it within the pipe.
LEMMA WritePipe ==
    ASSUME TypeOK, out # <<>>, out' = Tail(out), wireOut' = Append(wireOut, Head(out))
    PROVE  Pipe' = Pipe
<1>1. wireOut \in Seq(Outgoing) /\ out \in Seq(Outgoing)
  BY DEF TypeOK, OutType, WireOutType
<1>2. \A w, q \in Seq(Outgoing) : q # <<>> => Append(w, Head(q)) \o Tail(q) = w \o q
  <2> SUFFICES ASSUME NEW w \in Seq(Outgoing), NEW q \in Seq(Outgoing), q # <<>>
               PROVE  Append(w, Head(q)) \o Tail(q) = w \o q
    OBVIOUS
  <2> DEFINE a == Append(w, Head(q)) \o Tail(q)  b == w \o q
  <2>1. a \in Seq(Outgoing) /\ b \in Seq(Outgoing) /\ Len(a) = Len(b)
    OBVIOUS
  <2>2. \A i \in 1..Len(a) : a[i] = b[i]
    OBVIOUS
  <2> HIDE DEF a, b
  <2>3. a = b
    BY <2>1, <2>2, SeqEqual
  <2> QED BY <2>3 DEF a, b
<1> QED BY <1>1, <1>2 DEF Pipe

\* Companion takes lines from the front of the pipe.
LEMMA TakePipe ==
    ASSUME TypeOK, wireOut # <<>>, wireOut' = Tail(wireOut), out' = out
    PROVE  Pipe # <<>> /\ Head(Pipe) = Head(wireOut) /\ Pipe' = Tail(Pipe)
<1>1. wireOut \in Seq(Outgoing) /\ out \in Seq(Outgoing)
  BY DEF TypeOK, OutType, WireOutType
<1>2. /\ wireOut \o out # <<>> /\ Head(wireOut \o out) = Head(wireOut)
      /\ Tail(wireOut \o out) = Tail(wireOut) \o out
  BY <1>1
<1> QED BY <1>2 DEF Pipe

LEMMA AddAppend ==
    ASSUME NEW q \in Seq(Outgoing), NEW line \in Outgoing
    PROVE  /\ NoAdd(q) => OneAdd(Append(q, line))
           /\ line.cmd # "add-device" /\ NoAdd(q) => NoAdd(Append(q, line))
           /\ line.cmd # "add-device" /\ OneAdd(q) => OneAdd(Append(q, line))
BY DEF NoAdd, OneAdd

LEMMA AddTail ==
    ASSUME NEW q \in Seq(Outgoing), q # <<>>
    PROVE  /\ NoAdd(q) => NoAdd(Tail(q))
           /\ OneAdd(q) => OneAdd(Tail(q))
           /\ OneAdd(q) /\ Head(q).cmd = "add-device" => NoAdd(Tail(q))
BY DEF NoAdd, OneAdd

-----------------------------------------------------------------------------
(* Type correctness *)

\* A connection's step is the press it queues, or leaves the session alone.
LEMMA ClientFrame ==
    ASSUME ClientNext
    PROVE  UNCHANGED sessionVars \/ \E c \in Clients : QueuePress(c)
BY Zenon DEF ClientNext, Deliver, HandlePress, CheckRegistered, Leave, Release, Rejoin

\* Who changes the queue, the wires, Companion's side and the connections.
LEMMA Frames ==
    ASSUME Next
    PROVE  /\ \/ out' = out
              \/ Dial \/ Register \/ Ping \/ WriteLine \/ DrainLine
              \/ (\E i \in Sessions : HandlePing(i)) \/ (\E c \in Clients : QueuePress(c))
           /\ wireOut' = wireOut \/ Dial \/ WriteLine \/ Judge \/ TakePress \/ TakePing
           /\ \/ wireIn' = wireIn \/ Dial \/ Judge \/ TakePing \/ Evict
              \/ (\E i \in Sessions : ReadLine(i))
              \/ (\E line \in {"key-state", "ping"} : Push(line))
           /\ companion' = companion \/ Dial \/ Judge \/ TakePress \/ Evict \/ Vanish
           /\ UNCHANGED heldVars \/ ClientNext
<1>1. CASE ClientNext
  BY <1>1, ClientFrame DEF sessionVars, QueuePress, wires
<1>2. CASE SessionNext /\ UNCHANGED heldVars
  <2>1. CASE \/ Dial \/ Register \/ Accepted \/ Ends \/ RegisterTimeout \/ Reap \/ Flushed
             \/ Return \/ Cancel \/ CancelRead \/ Ping
    BY <1>2, <2>1 DEF Register, Accepted, Ends, RegisterTimeout, Reap, Flushed, Return, Cancel,
                      CancelRead, Ping, Close, conn, wires
  <2>2. CASE WriteLine \/ DrainLine \/ WriterEnds
    BY <1>2, <2>2 DEF WriteLine, DrainLine, WriterEnds, conn, wires
  <2>3. ASSUME NEW i \in Sessions, ReaderStep(i) \/ ReadTimeout(i)
        PROVE  /\ out' = out \/ HandlePing(i)
               /\ wireIn' = wireIn \/ ReadLine(i)
               /\ UNCHANGED <<wireOut, companion>>
    BY <2>3 DEF ReaderStep, ReadLine, ReadFails, ReadTimeout, HandleKeyState, HandlePing,
                RaiseLayout, SignalRegistration, conn, wires
  <2>4. CASE \/ Judge \/ TakePress \/ TakePing \/ Evict \/ Vanish \/ Reset
             \/ (\E line \in {"key-state", "ping"} : Push(line))
    BY <1>2, <2>4 DEF Judge, TakePress, TakePing, Evict, Vanish, Reset, Push, conn, wires
  <2> QED BY <1>2, <2>1, <2>2, <2>3, <2>4 DEF SessionNext, SessionStep, WriterStep, CompanionStep
<1> QED BY <1>1, <1>2 DEF Next

LEMMA ControlStep ==
    ASSUME ControlType, WireInType, SessionInv, Next
    PROVE  ControlType'
<1> USE SessionAssumption DEF ControlType
<1>1. CASE Dial
  BY <1>1 DEF Dial, Sessions
<1>2. CASE Register \/ Accepted \/ Ends \/ RegisterTimeout \/ Reap \/ Flushed \/ Return
  <2>1. UNCHANGED <<stopping, n, layout, reader, writer>>
    BY <1>2 DEF Register, Accepted, Ends, RegisterTimeout, Reap, Flushed, Return
  <2>2. CASE Register \/ Accepted
    BY <2>1, <2>2 DEF Register, Accepted, Close
  <2>3. CASE Ends \/ RegisterTimeout \/ Reap
    BY <2>1, <2>3 DEF Ends, RegisterTimeout, Reap, Close, conn
  <2>4. CASE Flushed \/ Return
    BY <2>1, <2>4 DEF Flushed, Return, conn
  <2> QED BY <1>2, <2>2, <2>3, <2>4
<1>3. CASE Cancel \/ CancelRead \/ Ping \/ WriteLine \/ DrainLine \/ WriterEnds
  <2>1. UNCHANGED <<session, n, layout, reader, accepting, registered, verdict>>
    <3>1. CASE Cancel \/ CancelRead \/ Ping
      BY <3>1 DEF Cancel, CancelRead, Ping, conn
    <3>2. CASE WriteLine \/ DrainLine \/ WriterEnds
      BY <3>2 DEF WriteLine, DrainLine, WriterEnds, conn
    <3> QED BY <1>3, <3>1, <3>2
  <2>2. CASE Cancel \/ CancelRead \/ Ping
    BY <2>1, <2>2 DEF Cancel, CancelRead, Ping
  <2>3. CASE WriteLine \/ DrainLine \/ WriterEnds
    BY <2>1, <2>3 DEF WriteLine, DrainLine, WriterEnds
  <2> QED BY <1>3, <2>2, <2>3
<1>4. ASSUME NEW i \in Sessions, ReadLine(i)
      PROVE  ControlType'
  BY <1>4 DEF ReadLine, Does, WireInType, conn
<1>5. ASSUME NEW i \in Sessions, ReadFails(i) \/ HandleKeyState(i) \/ ReadTimeout(i) \/ HandlePing(i)
      PROVE  ControlType'
  BY <1>5 DEF ReadFails, HandleKeyState, ReadTimeout, HandlePing, Does, conn
<1>6. ASSUME NEW i \in Sessions, RaiseLayout(i)
      PROVE  ControlType'
  <2>1. i \in 0..n
    BY <1>6 DEF RaiseLayout, SessionInv, Sessions
  <2> QED BY <1>6, <2>1 DEF RaiseLayout, Does, conn
<1>7. ASSUME NEW i \in Sessions, SignalRegistration(i)
      PROVE  ControlType'
  BY <1>7 DEF SignalRegistration, Does
<1>8. CASE Judge \/ TakePress \/ TakePing \/ (\E line \in {"key-state", "ping"} : Push(line))
  BY <1>8 DEF Judge, TakePress, TakePing, Push, conn
<1>9. CASE Evict \/ Vanish \/ Reset
  <2>1. /\ UNCHANGED <<session, n, layout, stopping, accepting, registered, verdict,
                        reader, writer>>
        /\ open' \in {open, FALSE}
    <3>1. CASE Evict
      BY <3>1 DEF Evict, conn
    <3>2. CASE Vanish \/ Reset
      BY <3>2 DEF Vanish, Reset, conn
    <3> QED BY <1>9, <3>1, <3>2
  <2> QED BY <2>1
<1>10. CASE ClientNext
  <2>1. ASSUME NEW c \in Clients, QueuePress(c) PROVE ControlType'
    BY <2>1 DEF QueuePress
  <2>2. CASE UNCHANGED sessionVars
    BY <2>2 DEF sessionVars
  <2> QED BY <1>10, <2>1, <2>2, ClientFrame
<1> QED
  BY <1>1, <1>2, <1>3, <1>4, <1>5, <1>6, <1>7, <1>8, <1>9, <1>10
  DEF Next, SessionNext, SessionStep, WriterStep, ReaderStep, CompanionStep

LEMMA OfferType ==
    ASSUME OutType, NEW line \in Outgoing, Offer(line)
    PROVE  OutType'
BY SessionAssumption DEF OutType, Offer, Accepts, Full

LEMMA OutStep ==
    ASSUME OutType, ClientType, Next
    PROVE  OutType'
<1>1. CASE Dial
  BY <1>1, SessionAssumption DEF Dial, OutType
<1>2. CASE Register \/ Ping
  BY <1>2, OfferType, LineFacts DEF Register, Ping
<1>3. CASE WriteLine \/ DrainLine
  BY <1>3, SessionAssumption DEF WriteLine, DrainLine, OutType
<1>4. ASSUME NEW i \in Sessions, HandlePing(i)
      PROVE  OutType'
  BY <1>4, OfferType, LineFacts DEF HandlePing, OutType
<1>5. ASSUME NEW c \in Clients, QueuePress(c)
      PROVE  OutType'
  <2>1. client[c].op.key \in Keys /\ client[c].op.pressed \in BOOLEAN
    BY DEF ClientType, Connection, Ops
  <2> QED BY <1>5, <2>1, OfferType, LineFacts DEF QueuePress, Connection, Steps, Ops
<1>6. CASE out' = out
  BY <1>6 DEF OutType
<1> QED BY <1>1, <1>2, <1>3, <1>4, <1>5, <1>6, Frames

LEMMA WireOutStep ==
    ASSUME WireOutType, OutType, Next
    PROVE  WireOutType'
<1> USE SessionAssumption DEF WireOutType
<1>1. CASE Dial
  BY <1>1 DEF Dial
<1>2. CASE WriteLine
  <2>1. Head(out) \in Outgoing /\ Len(wireOut) \in Nat
    BY <1>2 DEF WriteLine, OutType
  <2>2. CASE Len(wireOut) < WireCap /\ wireOut' = Append(wireOut, Head(out))
    <3>1. Append(wireOut, Head(out)) \in Seq(Outgoing)
      BY <2>1, AppendProperties
    <3>2. Len(Append(wireOut, Head(out))) = Len(wireOut) + 1
      BY <2>1, AppendProperties
    <3> QED BY <2>1, <2>2, <3>1, <3>2
  <2> QED BY <1>2, <2>2 DEF WriteLine
<1>3. CASE Judge \/ TakePress \/ TakePing
  <2>1. wireOut # <<>> /\ wireOut' = Tail(wireOut)
    BY <1>3 DEF Judge, TakePress, TakePing
  <2> QED BY <2>1
<1>4. CASE wireOut' = wireOut
  BY <1>4
<1> QED BY <1>1, <1>2, <1>3, <1>4, Frames

LEMMA WireInStep ==
    ASSUME WireInType, Next
    PROVE  WireInType'
<1> USE SessionAssumption DEF WireInType
<1>1. CASE Dial
  BY <1>1 DEF Dial
<1>2. ASSUME NEW line \in Incoming, Reply(line)
      PROVE  WireInType'
  BY <1>2 DEF Reply
<1>3. CASE wireIn' = wireIn
  BY <1>3
<1>4. CASE Judge \/ TakePing \/ Evict \/ (\E line \in {"key-state", "ping"} : Push(line))
  BY <1>2, <1>3, <1>4 DEF Judge, TakePing, Evict, Push, Incoming
<1>5. ASSUME NEW i \in Sessions, ReadLine(i)
      PROVE  WireInType'
  BY <1>5 DEF ReadLine
<1> QED BY <1>1, <1>3, <1>4, <1>5, Frames

LEMMA PeerStep ==
    ASSUME PeerType, WireOutType, Next
    PROVE  PeerType'
<1> USE DEF PeerType
<1>1. CASE Dial
  BY <1>1 DEF Dial, NoSurface
<1>2. CASE Judge
  BY <1>2 DEF Judge
<1>3. CASE TakePress
  <2>1. Head(wireOut) \in Outgoing /\ Head(wireOut).cmd = "key-press"
    BY <1>3 DEF TakePress, WireOutType
  <2>2. Head(wireOut).key \in Keys
    BY <2>1, LineFacts DEF Outgoing, KeyPress, Line
  <2>3. \A k \in Keys : companion.down \cup {k} \in SUBSET Keys /\ companion.down \ {k} \in SUBSET Keys
    OBVIOUS
  <2> QED BY <1>3, <2>2, <2>3 DEF TakePress
<1>4. CASE Evict
  BY <1>4 DEF Evict
<1>5. CASE Vanish
  BY <1>5 DEF Vanish
<1>6. CASE companion' = companion
  BY <1>6
<1> QED BY <1>1, <1>2, <1>3, <1>4, <1>5, <1>6, Frames

\* The fields of a connection that a step replaces together.
LEMMA ConnectionFields ==
    ASSUME NEW r \in Connection, NEW o \in Ops, NEW h \in SUBSET Keys, NEW t \in SUBSET Keys
    PROVE  /\ [r EXCEPT !.step = "checking", !.op = o, !.held = h] \in Connection
           /\ [r EXCEPT !.step = "checking", !.todo = t, !.op = o] \in Connection
           /\ [r EXCEPT !.leaving = TRUE, !.todo = t, !.held = h] \in Connection
           /\ [r EXCEPT !.step = "idle", !.held = h] \in Connection
BY DEF Connection, Steps

LEMMA ClientStep ==
    ASSUME ClientType, Next
    PROVE  ClientType'
<1> USE DEF ClientType
<1>1. ASSUME NEW c \in Clients, NEW k \in Keys, NEW p \in BOOLEAN, HandlePress(c, k, p)
      PROVE  ClientType'
  <2> DEFINE o == [key |-> k, pressed |-> p]
             h == IF p THEN client[c].held \cup {k} ELSE client[c].held
  <2>1. client' = [client EXCEPT ![c].step = "checking", ![c].op = o, ![c].held = h]
    BY <1>1 DEF HandlePress
  <2>2. client[c] \in Connection /\ o \in Ops /\ h \in SUBSET Keys
    BY DEF Connection, Ops
  <2> HIDE DEF o, h
  <2>3. \A d \in Clients \ {c} : client'[d] = client[d]
    BY <2>1
  <2>4. client'[c] = [client[c] EXCEPT !.step = "checking", !.op = o, !.held = h]
    BY <2>1
  <2>5. [client[c] EXCEPT !.step = "checking", !.op = o, !.held = h] \in Connection
    BY <2>2, ConnectionFields
  <2>6. client'[c] \in Connection
    BY <2>4, <2>5
  <2> QED BY <2>1, <2>3, <2>6
<1>2. ASSUME NEW c \in Clients, CheckRegistered(c)
      PROVE  ClientType'
  BY <1>2 DEF CheckRegistered, Connection, Steps, Ops
<1>3. ASSUME NEW c \in Clients, QueuePress(c)
      PROVE  ClientType'
  <2> DEFINE h == client'[c].held
  <2>1. h \in SUBSET Keys /\ client[c] \in Connection
    BY <1>3 DEF QueuePress, Connection
  <2>2. client' \in [Clients -> {client'[d] : d \in Clients}]
    BY <1>3 DEF QueuePress
  <2>3. \A d \in Clients \ {c} : client'[d] = client[d]
    BY <1>3 DEF QueuePress
  <2>4. client'[c] = [client[c] EXCEPT !.step = "idle", !.held = h]
    BY <1>3 DEF QueuePress, Connection
  <2> HIDE DEF h
  <2>5. [client[c] EXCEPT !.step = "idle", !.held = h] \in Connection
    BY <2>1, <1>3, ConnectionFields DEF Connection
  <2>6. client'[c] \in Connection
    BY <2>4, <2>5
  <2> QED BY <2>2, <2>3, <2>6
<1>4. ASSUME NEW c \in Clients, Leave(c)
      PROVE  ClientType'
  <2> DEFINE h == client[c].held
  <2>1. client' = [client EXCEPT ![c].leaving = TRUE, ![c].todo = h, ![c].held = {}]
    BY <1>4 DEF Leave
  <2>2. client[c] \in Connection /\ h \in SUBSET Keys /\ {} \in SUBSET Keys
    BY DEF Connection
  <2>3. client[c].op \in Ops
    BY DEF Connection
  <2> HIDE DEF h
  <2>4. \A d \in Clients \ {c} : client'[d] = client[d]
    BY <2>1
  <2>5. client'[c] = [client[c] EXCEPT !.leaving = TRUE, !.todo = h, !.held = {}]
    BY <2>1
  <2>6. [client[c] EXCEPT !.leaving = TRUE, !.todo = h, !.held = {}] \in Connection
    BY <2>2, <2>3, ConnectionFields
  <2>7. client'[c] \in Connection
    BY <2>5, <2>6
  <2> QED BY <2>1, <2>4, <2>7
<1>5. ASSUME NEW c \in Clients, NEW k \in Keys, Release(c, k)
      PROVE  ClientType'
  BY <1>5 DEF Release, Connection, Steps, Ops
<1>6. ASSUME NEW c \in Clients, Rejoin(c)
      PROVE  ClientType'
  BY <1>6 DEF Rejoin, Fresh, Some, Connection, Steps, Ops
<1>7. CASE UNCHANGED heldVars
  BY <1>7 DEF heldVars
<1> QED BY <1>1, <1>2, <1>3, <1>4, <1>5, <1>6, <1>7, Frames DEF ClientNext, Deliver

LEMMA CountStep ==
    ASSUME CountType, ClientType, ControlType, SessionInv, Next
    PROVE  CountType'
<1> USE SessionAssumption, PressAssumption DEF CountType
<1>1. CASE ClientNext
  <2>1. ASSUME NEW c \in Clients, NEW k \in Keys, NEW p \in BOOLEAN, HandlePress(c, k, p)
        PROVE  CountType'
    BY <2>1 DEF HandlePress, sessionVars
  <2>2. ASSUME NEW c \in Clients PROVE Refused(c) \subseteq Sessions \X Keys
    <3>1. client[c].op.key \in Keys
      BY DEF ClientType, Connection, Ops
    <3>2. accepting => n \in Sessions
      BY DEF SessionInv, ControlType, Sessions
    <3> QED BY <3>1, <3>2 DEF Refused
  <2>3. ASSUME NEW c \in Clients, CheckRegistered(c)
        PROVE  CountType'
    BY <2>2, <2>3 DEF CheckRegistered, sessionVars
  <2>4. ASSUME NEW c \in Clients, QueuePress(c)
        PROVE  CountType'
    BY <2>2, <2>4 DEF QueuePress, bounds
  <2>5. ASSUME NEW c \in Clients, Leave(c) \/ Rejoin(c) \/ (\E k \in Keys : Release(c, k))
        PROVE  CountType'
    BY <2>5 DEF Leave, Rejoin, Release, sessionVars
  <2> QED BY <1>1, <2>1, <2>3, <2>4, <2>5 DEF ClientNext, Deliver
<1>2. CASE SessionNext /\ UNCHANGED heldVars
  <2>1. presses' = presses /\ dropped' = dropped
    BY <1>2 DEF heldVars
  <2>2. lines' \in 0..MaxLines /\ faults' \in 0..MaxFaults
    <3>1. CASE UNCHANGED bounds
      BY <3>1 DEF bounds
    <3>2. CASE Fault /\ lines' = lines
      BY <3>2 DEF Fault
    <3>3. CASE lines < MaxLines /\ lines' = lines + 1 /\ faults' = faults
      BY <3>3
    <3>4. CASE RegisterTimeout \/ Ping \/ Judge \/ Evict \/ Vanish \/ Reset
               \/ (\E line \in {"key-state", "ping"} : Push(line))
               \/ (\E i \in Sessions : ReadTimeout(i))
      BY <3>2, <3>3, <3>4 DEF RegisterTimeout, Ping, Judge, Evict, Vanish, Reset, Push, ReadTimeout
    <3>5. CASE \/ Dial \/ Register \/ Accepted \/ Ends \/ Reap \/ Flushed \/ Return \/ Cancel
               \/ CancelRead \/ WriteLine \/ DrainLine \/ WriterEnds \/ TakePress \/ TakePing
      BY <3>1, <3>5 DEF Dial, Register, Accepted, Ends, Reap, Flushed, Return, Cancel, CancelRead,
                        WriteLine, DrainLine, WriterEnds, TakePress, TakePing
    <3>6. ASSUME NEW i \in Sessions, ReaderStep(i), ~ReadTimeout(i)
          PROVE  UNCHANGED bounds
      BY <3>6 DEF ReaderStep, ReadLine, ReadFails, HandleKeyState, HandlePing, RaiseLayout,
                  SignalRegistration
    <3> QED BY <1>2, <3>1, <3>4, <3>5, <3>6
        DEF SessionNext, SessionStep, WriterStep, CompanionStep
  <2> QED BY <2>1, <2>2
<1> QED BY <1>1, <1>2 DEF Next

\* Every step keeps the variables of the session and of the connections in range.
LEMMA TypeStep ==
    ASSUME TypeOK, SessionInv, Next
    PROVE  TypeOK'
<1> USE DEF TypeOK
<1>1. ControlType' /\ OutType' /\ WireOutType'
  BY ControlStep, OutStep, WireOutStep
<1>2. WireInType' /\ PeerType' /\ ClientType' /\ CountType'
  BY WireInStep, PeerStep, ClientStep, CountStep
<1> QED BY <1>1, <1>2

-----------------------------------------------------------------------------
(* The teardown order, and what a connection presses it holds *)

LEMMA SessionInvStep ==
    ASSUME TypeOK, SessionInv, Next
    PROVE  SessionInv'
<1> USE DEF SessionInv, TypeOK, ControlType
<1>1. CASE Dial
  BY <1>1 DEF Dial, Sessions
<1>2. CASE Register \/ Accepted \/ Ends \/ RegisterTimeout \/ Reap \/ Flushed \/ Return
  BY <1>2 DEF Register, Accepted, Ends, RegisterTimeout, Reap, Flushed, Return, Close, conn
<1>3. CASE Cancel \/ CancelRead \/ Ping \/ WriteLine \/ DrainLine \/ WriterEnds
  BY <1>3 DEF Cancel, CancelRead, Ping, WriteLine, DrainLine, WriterEnds, conn
<1>4. ASSUME NEW i \in Sessions, ReaderStep(i) \/ ReadTimeout(i)
      PROVE  SessionInv'
  <2>1. reader[i] # "off" /\ \E what : reader' = [reader EXCEPT ![i] = what]
    BY <1>4 DEF ReaderStep, ReadLine, ReadFails, HandleKeyState, ReadTimeout, HandlePing,
                RaiseLayout, SignalRegistration, Does
  <2>2. UNCHANGED <<n, session, writer, accepting>> /\ (open' => open)
    BY <1>4 DEF ReaderStep, ReadLine, ReadFails, HandleKeyState, ReadTimeout, HandlePing,
                RaiseLayout, SignalRegistration, conn
  <2> QED BY <2>1, <2>2
<1>5. CASE Judge \/ TakePress \/ TakePing \/ (\E line \in {"key-state", "ping"} : Push(line))
  BY <1>5 DEF Judge, TakePress, TakePing, Push, conn
<1>6. CASE Evict \/ Vanish \/ Reset
  <2>1. CASE Evict
    <3>1. UNCHANGED <<n, session, writer, accepting, reader, open>>
      BY <2>1 DEF Evict, conn
    <3> QED BY <3>1
  <2>2. CASE Vanish \/ Reset
    <3>1. UNCHANGED <<n, session, writer, accepting, reader>> /\ (open' => open)
      BY <2>2 DEF Vanish, Reset, conn
    <3> QED BY <3>1
  <2> QED BY <1>6, <2>1, <2>2
<1>7. CASE ClientNext
  <2>1. UNCHANGED <<n, session, open, writer, accepting, reader>>
    BY <1>7, ClientFrame DEF QueuePress, sessionVars
  <2> QED BY <2>1
<1> QED
  BY <1>1, <1>2, <1>3, <1>4, <1>5, <1>6, <1>7
  DEF Next, SessionNext, SessionStep, WriterStep, CompanionStep

LEMMA ClientInvStep ==
    ASSUME ClientType, ClientInv, Next
    PROVE  ClientInv'
<1> USE DEF ClientType, ClientInv, Connection, Ops
<1>1. ASSUME NEW c \in Clients, NEW k \in Keys, NEW p \in BOOLEAN, HandlePress(c, k, p)
      PROVE  ClientInv'
  BY <1>1 DEF HandlePress
<1>2. ASSUME NEW c \in Clients, CheckRegistered(c) \/ QueuePress(c)
      PROVE  ClientInv'
  BY <1>2 DEF CheckRegistered, QueuePress
<1>3. ASSUME NEW c \in Clients, Leave(c)
      PROVE  ClientInv'
  BY <1>3 DEF Leave
<1>4. ASSUME NEW c \in Clients, NEW k \in Keys, Release(c, k)
      PROVE  ClientInv'
  BY <1>4 DEF Release
<1>5. ASSUME NEW c \in Clients, Rejoin(c)
      PROVE  ClientInv'
  BY <1>5 DEF Rejoin, Fresh
<1>6. CASE UNCHANGED heldVars
  BY <1>6 DEF heldVars
<1> QED BY <1>1, <1>2, <1>3, <1>4, <1>5, <1>6, Frames DEF ClientNext, Deliver

-----------------------------------------------------------------------------
(* What a step does to the pipe of an open session *)

\* A step that leaves an open session open, its pipe and its surface as they were.
Quiet ==
    /\ open /\ n' = n /\ Pipe' = Pipe
    /\ companion'.device = companion.device /\ companion'.down = companion.down
    /\ session' = session \/ session' # "dialed"

\* A line joins the end of the pipe, or the queue refuses it.
Sent(line) ==
    /\ open /\ n' = n /\ companion' = companion
    /\ Pipe' = IF Accepts THEN Append(Pipe, line) ELSE Pipe

\* Companion takes the first line.
Taken ==
    /\ open /\ n' = n /\ session' = session
    /\ Pipe # <<>> /\ Pipe' = Tail(Pipe)

LEMMA SessionEffects ==
    ASSUME TypeOK, SessionInv, SessionNext, open'
    PROVE  \/ Dial
           \/ Quiet
           \/ Sent(Line("add-device")) /\ session = "dialed" /\ session' = "pending"
           \/ Sent(Line("ping")) /\ session' = session
           \/ Sent(Line("pong")) /\ session' = session
           \/ Taken /\ Head(Pipe).cmd = "add-device" /\ Judge
           \/ Taken /\ Head(Pipe).cmd = "key-press" /\ TakePress
           \/ Taken /\ companion' = companion /\ Head(Pipe).cmd \in {"ping", "pong"}
           \/ Evict /\ Pipe' = Pipe
<1> USE DEF TypeOK
<1>1. CASE Dial
  BY <1>1
<1>2. CASE Register
  <2>1. open /\ n' = n /\ companion' = companion /\ wireOut' = wireOut
        /\ Offer(Line("add-device")) /\ session = "dialed" /\ session' = "pending"
    BY <1>2 DEF Register, Close, wires, ControlType
  <2> QED BY <2>1, OfferPipe, LineFacts DEF Sent
<1>3. CASE Accepted \/ Ends \/ RegisterTimeout \/ Reap \/ Flushed \/ Return
  <2>1. n' = n /\ wireOut' = wireOut /\ out' = out /\ companion' = companion /\ session' # "dialed"
    BY <1>3 DEF Accepted, Ends, RegisterTimeout, Reap, Flushed, Return, Close, conn, wires
  <2>2. open' = open
    BY <1>3 DEF Accepted, Ends, RegisterTimeout, Reap, Flushed, Return, Close
  <2> QED BY <2>1, <2>2 DEF Quiet, Pipe
<1>4. CASE Cancel \/ CancelRead \/ WriterEnds
  <2>1. /\ n' = n /\ wireOut' = wireOut /\ out' = out /\ companion' = companion
        /\ session' = session /\ open
    BY <1>4 DEF Cancel, CancelRead, WriterEnds, conn, wires
  <2> QED BY <2>1 DEF Quiet, Pipe
<1>5. CASE Ping
  <2>1. /\ open /\ n' = n /\ companion' = companion /\ wireOut' = wireOut /\ session' = session
        /\ Offer(Line("ping"))
    BY <1>5 DEF Ping, wires
  <2> QED BY <2>1, OfferPipe, LineFacts DEF Sent
<1>6. CASE WriteLine
  <2>1. /\ open /\ n' = n /\ companion' = companion /\ session' = session
        /\ out # <<>> /\ out' = Tail(out) /\ wireOut' = Append(wireOut, Head(out))
    BY <1>6 DEF WriteLine
  <2> QED BY <2>1, WritePipe DEF Quiet
<1>7. CASE DrainLine
  <2>1. FALSE
    BY <1>7 DEF DrainLine, SessionInv
  <2> QED BY <2>1
<1>8. ASSUME NEW i \in Sessions, ReaderStep(i) \/ ReadTimeout(i), ~HandlePing(i)
      PROVE  Quiet
  <2>1. /\ n' = n /\ wireOut' = wireOut /\ out' = out /\ companion' = companion
        /\ session' = session /\ open
    BY <1>8 DEF ReaderStep, ReadLine, ReadFails, ReadTimeout, HandleKeyState, RaiseLayout,
                SignalRegistration, ControlType, conn, wires
  <2> QED BY <2>1 DEF Quiet, Pipe
<1>9. ASSUME NEW i \in Sessions, HandlePing(i)
      PROVE  Quiet \/ (Sent(Line("pong")) /\ session' = session)
  <2>1. open /\ n' = n /\ companion' = companion /\ wireOut' = wireOut /\ session' = session
    BY <1>9 DEF HandlePing, wires
  <2>2. CASE out' = out
    BY <2>1, <2>2 DEF Quiet, Pipe
  <2>3. CASE Offer(Line("pong"))
    BY <2>1, <2>3, OfferPipe, LineFacts DEF Sent
  <2> QED BY <1>9, <2>2, <2>3 DEF HandlePing
<1>10. CASE Judge \/ TakePress \/ TakePing
  <2>1. /\ open /\ n' = n /\ session' = session /\ out' = out
        /\ wireOut # <<>> /\ wireOut' = Tail(wireOut)
    BY <1>10 DEF Judge, TakePress, TakePing, Listens, conn
  <2>2. Taken /\ Head(Pipe) = Head(wireOut)
    BY <2>1, TakePipe DEF Taken
  <2> QED BY <1>10, <2>2 DEF Judge, TakePress, TakePing
<1>11. CASE Vanish \/ Reset \/ (\E line \in {"key-state", "ping"} : Push(line))
  <2>1. /\ n' = n /\ wireOut' = wireOut /\ out' = out /\ session' = session /\ open
        /\ companion'.device = companion.device /\ companion'.down = companion.down
    BY <1>11 DEF Vanish, Reset, Push, Listens, PeerType, conn, wires
  <2> QED BY <2>1 DEF Quiet, Pipe
<1>12. CASE Evict
  BY <1>12 DEF Evict, Pipe, conn
<1> QED
  BY <1>1, <1>2, <1>3, <1>4, <1>5, <1>6, <1>7, <1>8, <1>9, <1>10, <1>11, <1>12
  DEF SessionNext, SessionStep, WriterStep, CompanionStep, ReaderStep

\* A connection's steps leave the session alone, but for the press it queues.
LEMMA ClientEffects ==
    ASSUME TypeOK, ClientNext
    PROVE  /\ UNCHANGED <<open, n, session, companion, accepting>>
           /\ \/ Pipe' = Pipe
              \/ \E c \in Clients : QueuePress(c)
<1>1. UNCHANGED <<open, n, session, companion, accepting>>
  BY ClientFrame DEF QueuePress, sessionVars
<1>2. (out' = out /\ wireOut' = wireOut) \/ \E c \in Clients : QueuePress(c)
  BY ClientFrame DEF sessionVars
<1>3. out' = out /\ wireOut' = wireOut => Pipe' = Pipe
  BY DEF Pipe
<1> QED BY <1>1, <1>2, <1>3

\* The press that QueuePress queues, if the queue takes it.
LEMMA QueueEffects ==
    ASSUME TypeOK, NEW c \in Clients, QueuePress(c)
    PROVE  /\ KeyPress(client[c].op.key, client[c].op.pressed) \in Outgoing
           /\ Pipe' = IF Accepts
                      THEN Append(Pipe, KeyPress(client[c].op.key, client[c].op.pressed))
                      ELSE Pipe
<1>1. client[c].op.key \in Keys /\ client[c].op.pressed \in BOOLEAN
  BY DEF TypeOK, ClientType, Connection, Ops
<1>2. KeyPress(client[c].op.key, client[c].op.pressed) \in Outgoing
  BY <1>1, LineFacts
<1>3. Offer(KeyPress(client[c].op.key, client[c].op.pressed)) /\ wireOut' = wireOut
  BY DEF QueuePress, wires
<1> QED BY <1>2, <1>3, OfferPipe

-----------------------------------------------------------------------------
(* The device is added once *)

LEMMA AddInvStep ==
    ASSUME TypeOK, SessionInv, AddInv, Next
    PROVE  AddInv'
<1> SUFFICES ASSUME open'
             PROVE  /\ OneAdd(Pipe')
                    /\ session' = "dialed" \/ companion'.device # "none" => NoAdd(Pipe')
                    /\ session' = "dialed" => companion'.device = "none"
                    /\ companion'.device # "added" => companion'.down = {}
  BY DEF AddInv, OneAdd, NoAdd
<1>1. Pipe \in Seq(Outgoing)
  BY PipeType
<1>2. CASE Quiet
  BY <1>2 DEF Quiet, AddInv
<1>3. ASSUME NEW line \in Outgoing, line.cmd # "add-device", Sent(line), session' = session
      PROVE  /\ OneAdd(Pipe')
             /\ session' = "dialed" \/ companion'.device # "none" => NoAdd(Pipe')
             /\ session' = "dialed" => companion'.device = "none"
             /\ companion'.device # "added" => companion'.down = {}
  BY <1>1, <1>3, AddAppend DEF Sent, AddInv
<1>4. CASE SessionNext
  <2>1. CASE Dial
    <3>1. Pipe' = <<>> /\ companion' = NoSurface
      BY <2>1 DEF Dial, Pipe
    <3> QED BY <3>1 DEF OneAdd, NoAdd, NoSurface
  <2>2. CASE Sent(Line("add-device")) /\ session = "dialed" /\ session' = "pending"
    <3>1. NoAdd(Pipe) /\ companion'.device = "none" /\ companion'.down = {}
      BY <2>2 DEF Sent, AddInv
    <3>2. OneAdd(Append(Pipe, Line("add-device")))
      BY <3>1, <1>1, AddAppend, LineFacts
    <3>3. OneAdd(Pipe)
      BY <2>2 DEF Sent, AddInv
    <3> QED BY <2>2, <3>1, <3>2, <3>3 DEF Sent
  <2>3. CASE Sent(Line("ping")) /\ session' = session
    BY <2>3, <1>3, LineFacts
  <2>4. CASE Sent(Line("pong")) /\ session' = session
    BY <2>4, <1>3, LineFacts
  <2>5. ASSUME Taken PROVE OneAdd(Pipe') /\ (NoAdd(Pipe) => NoAdd(Pipe'))
    BY <2>5, <1>1, AddTail DEF Taken, AddInv
  <2>6. CASE Taken /\ Head(Pipe).cmd = "add-device" /\ Judge
    <3>1. NoAdd(Pipe')
      BY <2>6, <1>1, AddTail DEF Taken, AddInv
    <3>2. ~NoAdd(Pipe)
      BY <2>6, <1>1 DEF NoAdd, Taken
    <3>3. companion.device = "none" /\ session # "dialed"
      BY <2>6, <3>2 DEF AddInv, Taken
    <3>4. companion'.down = {}
      BY <2>6, <3>3 DEF Judge, AddInv, Taken, TypeOK, PeerType
    <3> QED BY <2>5, <2>6, <3>1, <3>3, <3>4 DEF Taken
  <2>7. CASE Taken /\ Head(Pipe).cmd = "key-press" /\ TakePress
    <3>1. /\ companion'.device = companion.device
          /\ companion.device # "added" => companion'.down = companion.down
      BY <2>7 DEF TakePress, TypeOK, PeerType
    <3> QED BY <2>5, <2>7, <3>1 DEF AddInv, Taken
  <2>8. CASE Taken /\ companion' = companion /\ Head(Pipe).cmd \in {"ping", "pong"}
    BY <2>5, <2>8 DEF AddInv, Taken
  <2>9. CASE Evict /\ Pipe' = Pipe
    <3>1. /\ companion.device = "added" /\ open /\ session' = session
          /\ companion'.device = "refused" /\ companion'.down = {}
      BY <2>9 DEF Evict, Listens, TypeOK, PeerType
    <3> QED BY <2>9, <3>1 DEF AddInv
  <2> QED BY <1>2, <1>4, <2>1, <2>2, <2>3, <2>4, <2>6, <2>7, <2>8, <2>9, SessionEffects
<1>5. CASE ClientNext
  <2>1. CASE Pipe' = Pipe
    BY <1>5, <2>1, ClientEffects DEF AddInv
  <2>2. ASSUME NEW c \in Clients, QueuePress(c), Accepts
        PROVE  Sent(KeyPress(client[c].op.key, client[c].op.pressed))
    BY <1>5, <2>2, ClientEffects, QueueEffects DEF Sent
  <2>3. ASSUME NEW c \in Clients, QueuePress(c)
        PROVE  \/ Pipe' = Pipe
               \/ \E line \in Outgoing : line.cmd # "add-device" /\ Sent(line)
    BY <2>2, <2>3, QueueEffects, LineFacts
  <2> QED BY <1>3, <1>5, <2>1, <2>3, ClientEffects
<1> QED BY <1>4, <1>5 DEF Next

-----------------------------------------------------------------------------
(* Every key that is or will be down is answered for *)

\* Answerable, of the given connections.
Answers(cl, k) ==
    \E c \in Clients :
        \/ k \in cl[c].held \cup cl[c].todo
        \/ cl[c].leaving /\ cl[c].step # "idle" /\ cl[c].op.key = k

LEMMA HoldMeans ==
    /\ HoldInv <=>
          (open => \A k \in Keys : KeyDown(Pipe, companion.down, k) =>
                                      Answers(client, k) \/ <<n, k>> \in dropped)
    /\ HoldInv' <=>
          (open' => \A k \in Keys : KeyDown(Pipe', companion'.down, k) =>
                                       Answers(client', k) \/ <<n', k>> \in dropped')
BY DEF HoldInv, WillBeDown, KeyDown, Pipe, Answerable, Answers

\* A step of the session that leaves no key down that was not going to be.
LEMMA HoldKept ==
    ASSUME HoldInv, open, n' = n, UNCHANGED heldVars,
           \A k \in Keys : KeyDown(Pipe', companion'.down, k) => KeyDown(Pipe, companion.down, k)
    PROVE  HoldInv'
<1>1. client' = client /\ dropped' = dropped
  BY DEF heldVars
<1> QED BY <1>1, HoldMeans

LEMMA HoldSessionStep ==
    ASSUME TypeOK, SessionInv, AddInv, HoldInv, SessionNext, UNCHANGED heldVars
    PROVE  HoldInv'
<1> SUFFICES ASSUME open' PROVE HoldInv'
  BY HoldMeans
<1>1. Pipe \in Seq(Outgoing)
  BY PipeType
<1>2. CASE Dial
  <2>1. \A k : ~KeyDown(<<>>, {}, k)
    BY DEF KeyDown
  <2>2. Pipe' = <<>> /\ companion'.down = {}
    BY <1>2 DEF Dial, Pipe, NoSurface
  <2> QED BY <2>1, <2>2, HoldMeans
<1>3. CASE Quiet
  BY <1>3, HoldKept DEF Quiet
<1>4. ASSUME NEW line \in Outgoing, line.cmd # "key-press", Sent(line)
      PROVE  HoldInv'
  <2>1. \A k : ~Moves(line, k)
    BY <1>4 DEF Moves
  <2>2. \A k : KeyDown(Append(Pipe, line), companion.down, k) <=> KeyDown(Pipe, companion.down, k)
    BY <1>1, <2>1, KeyDownAppend
  <2> QED BY <1>4, <2>2, HoldKept DEF Sent
<1>5. CASE Taken /\ Head(Pipe).cmd # "key-press" /\ companion'.down = companion.down
  <2>1. \A k : ~Moves(Head(Pipe), k)
    BY <1>5 DEF Moves
  <2>2. \A k : KeyDown(Tail(Pipe), companion.down, k) <=> KeyDown(Pipe, companion.down, k)
    BY <1>1, <1>5, <2>1, KeyDownTail DEF Taken
  <2> QED BY <1>5, <2>2, HoldKept DEF Taken
<1>6. CASE Taken /\ Head(Pipe).cmd = "add-device" /\ Judge
  BY <1>5, <1>6 DEF Judge, TypeOK, PeerType
<1>7. CASE Taken /\ companion' = companion /\ Head(Pipe).cmd \in {"ping", "pong"}
  BY <1>5, <1>7
<1>8. CASE Taken /\ Head(Pipe).cmd = "key-press" /\ TakePress
  <2>1. Head(wireOut) = Head(Pipe)
    BY <1>8, TakePipe DEF TakePress, conn
  <2>2. CASE companion.device = "added"
    <3>1. ASSUME NEW k
          PROVE  /\ Moves(Head(Pipe), k) => (k \in companion'.down <=> Head(Pipe).pressed)
                 /\ ~Moves(Head(Pipe), k) => (k \in companion'.down <=> k \in companion.down)
      BY <1>8, <2>1, <2>2 DEF TakePress, Moves, TypeOK, PeerType
    <3>2. \A k : KeyDown(Tail(Pipe), companion'.down, k) <=> KeyDown(Pipe, companion.down, k)
      BY <1>1, <1>8, <3>1, KeyDownTail DEF Taken
    <3> QED BY <1>8, <3>2, HoldKept DEF Taken
  <2>3. CASE companion.device # "added"
    <3>1. companion' = companion /\ companion.down = {}
      BY <1>8, <2>3 DEF TakePress, AddInv, Taken
    <3>2. \A k : KeyDown(Tail(Pipe), {}, k) => KeyDown(Pipe, {}, k)
      BY <1>1, <1>8, KeyDownDiscard DEF Taken
    <3> QED BY <1>8, <3>1, <3>2, HoldKept DEF Taken
  <2> QED BY <2>2, <2>3
<1>9. CASE Evict /\ Pipe' = Pipe
  <2>1. open /\ n' = n /\ companion'.down = {}
    BY <1>9 DEF Evict, Listens, TypeOK, PeerType
  <2>2. \A k : KeyDown(Pipe, {}, k) => KeyDown(Pipe, companion.down, k)
    BY <1>1, KeyDownMeans
  <2> QED BY <1>9, <2>1, <2>2, HoldKept
<1> QED
  BY <1>2, <1>3, <1>4, <1>6, <1>7, <1>8, <1>9, SessionEffects, LineFacts

LEMMA HoldClientStep ==
    ASSUME TypeOK, SessionInv, ClientInv, HoldInv, ClientNext
    PROVE  HoldInv'
<1> USE DEF TypeOK, ClientType, Connection, Ops
<1> SUFFICES ASSUME open', NEW k \in Keys, KeyDown(Pipe', companion'.down, k)
             PROVE  Answers(client', k) \/ <<n', k>> \in dropped'
  BY HoldMeans
<1>1. open /\ accepting /\ n' = n /\ companion' = companion
  BY ClientEffects DEF SessionInv
<1>2. KeyDown(Pipe, companion.down, k) => Answers(client, k) \/ <<n, k>> \in dropped
  BY <1>1, HoldMeans
<1>3. ASSUME NEW c \in Clients, NEW x \in Keys, NEW p \in BOOLEAN, HandlePress(c, x, p)
      PROVE  Answers(client, k) => Answers(client', k)
  BY <1>3 DEF HandlePress, Answers
<1>4. ASSUME NEW c \in Clients, CheckRegistered(c)
      PROVE  Answers(client, k) => Answers(client', k) \/ <<n, k>> \in dropped'
  BY <1>1, <1>4 DEF CheckRegistered, Refused, Answers
<1>5. ASSUME NEW c \in Clients, Leave(c)
      PROVE  Answers(client, k) => Answers(client', k)
  BY <1>5 DEF Leave, Answers
<1>6. ASSUME NEW c \in Clients, NEW x \in Keys, Release(c, x)
      PROVE  Answers(client, k) => Answers(client', k)
  BY <1>6 DEF Release, Answers, ClientInv
<1>7. ASSUME NEW c \in Clients, Rejoin(c)
      PROVE  Answers(client, k) => Answers(client', k)
  BY <1>7 DEF Rejoin, Answers, ClientInv
<1>8. ASSUME NEW c \in Clients, QueuePress(c)
      PROVE  Answers(client', k) \/ <<n, k>> \in dropped'
  <2> DEFINE op == client[c].op  line == KeyPress(op.key, op.pressed)
  <2>1. CASE ~Accepts
    <3>1. Pipe' = Pipe
      BY <1>1, <1>8, <2>1, QueueEffects
    <3>2. Answers(client, k) \/ <<n, k>> \in dropped
      BY <1>1, <1>2, <3>1
    <3>3. dropped' = Refused(c)
      BY <1>8, <2>1 DEF QueuePress
    <3>4. <<n, k>> \in dropped => <<n, k>> \in dropped'
      BY <3>3 DEF Refused
    <3>5. client' = [client EXCEPT ![c].step = "idle", ![c].held = client[c].held]
      BY <1>8, <2>1 DEF QueuePress
    <3> QED BY <1>1, <1>8, <3>2, <3>3, <3>4, <3>5 DEF QueuePress, Refused, Answers
  <2>2. CASE Accepts /\ op.key = k
    <3>1. Moves(line, k) /\ line.pressed = op.pressed
      BY <2>2, LineFacts DEF Moves
    <3>2. line \in Outgoing /\ KeyDown(Append(Pipe, line), companion.down, k)
      BY <1>1, <1>8, <2>2, QueueEffects
    <3> HIDE DEF line
    <3>3. KeyDown(Append(Pipe, line), companion.down, k) <=> line.pressed
      BY <3>1, <3>2, PipeType, KeyDownAppend
    <3>4. op.pressed
      BY <3>1, <3>2, <3>3
    <3>5. k \in client'[c].held
      BY <1>8, <2>2, <3>4 DEF QueuePress, ClientInv
    <3> QED BY <3>5 DEF Answers
  <2>3. CASE Accepts /\ op.key # k
    <3>1. ~Moves(line, k)
      BY <2>3, LineFacts DEF Moves
    <3>2. KeyDown(Pipe, companion.down, k)
      BY <1>1, <1>8, <2>3, <3>1, PipeType, KeyDownAppend, QueueEffects
    <3>3. Answers(client, k) => Answers(client', k)
      BY <1>8, <2>3 DEF QueuePress, Answers
    <3>4. <<n, k>> \in dropped => <<n, k>> \in dropped'
      BY <1>8, <2>3 DEF QueuePress
    <3> QED BY <1>2, <3>2, <3>3, <3>4
  <2> QED BY <2>1, <2>2, <2>3
<1>9. ASSUME ~\E c \in Clients : QueuePress(c)
      PROVE  Pipe' = Pipe /\ KeyDown(Pipe, companion.down, k)
  BY <1>1, <1>9, ClientEffects
<1>10. ASSUME ~\E c \in Clients : QueuePress(c)
       PROVE  <<n, k>> \in dropped => <<n, k>> \in dropped'
  BY <1>10 DEF ClientNext, Deliver, HandlePress, CheckRegistered, Refused, Leave, Release, Rejoin
<1> QED
  BY <1>1, <1>2, <1>3, <1>4, <1>5, <1>6, <1>7, <1>8, <1>9, <1>10 DEF ClientNext, Deliver

LEMMA HoldInvStep ==
    ASSUME IInv, Next
    PROVE  HoldInv'
<1>1. CASE ClientNext
  BY <1>1, HoldClientStep DEF IInv
<1>2. CASE SessionNext /\ UNCHANGED heldVars
  BY <1>2, HoldSessionStep DEF IInv
<1> QED BY <1>1, <1>2 DEF Next

-----------------------------------------------------------------------------
(* The theorems *)

LEMMA IInvInit == InitAll => IInv
<1> SUFFICES ASSUME InitAll PROVE IInv
  OBVIOUS
<1> USE SessionAssumption, PressAssumption DEF InitAll, Init, HeldInit
<1>1. TypeOK
  <2>1. Fresh \in Connection
    BY DEF Fresh, Connection, Steps, Ops, Some
  <2>2. ControlType
    <3>1. n \in 0..MaxSessions /\ layout \in 0..n
      OBVIOUS
    <3>2. reader \in [Sessions -> Incoming \cup {"off", "reading", "accepted", "ended"}]
      OBVIOUS
    <3> QED BY <3>1, <3>2 DEF ControlType
  <2>3. OutType /\ WireOutType /\ WireInType
    BY DEF OutType, WireOutType, WireInType
  <2>4. PeerType
    BY DEF PeerType, NoSurface
  <2>5. ClientType /\ CountType
    BY <2>1 DEF ClientType, CountType
  <2> QED BY <2>2, <2>3, <2>4, <2>5 DEF TypeOK
<1>2. SessionInv /\ AddInv /\ HoldInv
  BY DEF SessionInv, AddInv, HoldInv
<1>3. ClientInv
  BY DEF ClientInv, Fresh
<1> QED BY <1>1, <1>2, <1>3 DEF IInv

LEMMA IInvStep == IInv /\ [Next]_vars => IInv'
<1> SUFFICES ASSUME IInv, [Next]_vars PROVE IInv'
  OBVIOUS
<1> USE DEF IInv
<1>1. CASE Next
  <2>1. TypeOK' /\ SessionInv'
    BY <1>1, TypeStep, SessionInvStep
  <2>2. AddInv' /\ ClientInv'
    BY <1>1, AddInvStep, ClientInvStep DEF TypeOK
  <2>3. HoldInv'
    BY <1>1, HoldInvStep
  <2> QED BY <2>1, <2>2, <2>3
<1>2. CASE UNCHANGED vars
  <2> USE <1>2 DEF vars, sessionVars, heldVars
  <2>1. TypeOK'
    BY DEF TypeOK, ControlType, OutType, WireOutType, WireInType, PeerType, ClientType, CountType
  <2>2. SessionInv' /\ ClientInv'
    BY DEF SessionInv, ClientInv
  <2>3. AddInv'
    BY DEF AddInv, OneAdd, NoAdd, Pipe
  <2>4. HoldInv'
    BY HoldMeans DEF Pipe
  <2> QED BY <2>1, <2>2, <2>3, <2>4
<1> QED BY <1>1, <1>2

THEOREM Invariance == Spec => []IInv
BY IInvInit, IInvStep, PTL DEF Spec

\* Every variable keeps its type: in particular neither the session's queue nor
\* the socket ever holds more lines than it has room for (Satellite.enqueue).
THEOREM TypeCorrect == Spec => []TypeOK
<1>1. IInv => TypeOK
  BY DEF IInv
<1> QED BY <1>1, Invariance, PTL

\* On a live surface every key that is or will be down is held by a connection,
\* about to be released by one that is ending, or was refused to it: for every
\* number of tablets and keys (handleSurfacePress, releaseHeldSurfaceKeys).
THEOREM Covered == Spec => []HoldCovered
<1>1. IInv => HoldCovered
  BY DEF IInv, HoldInv, HoldCovered
<1> QED BY <1>1, Invariance, PTL

-----------------------------------------------------------------------------
(* The answers *)

LEMMA AppendAnswer ==
    ASSUME NEW q \in Seq(Incoming), NEW x \in Incoming
    PROVE  /\ \A a : Coming(Append(q, x), a) <=> Coming(q, a) \/ x = a
           /\ \A a, b : NoneAfter(q, a, b) /\ (x = b => ~Coming(q, a)) => NoneAfter(Append(q, x), a, b)
           /\ \A a, b : OnlyAfter(q, a, b) /\ (x = b => Coming(q, a)) => OnlyAfter(Append(q, x), a, b)
<1> DEFINE r == Append(q, x)
<1>1. /\ Len(q) \in Nat /\ Len(r) = Len(q) + 1 /\ r[Len(q) + 1] = x
      /\ \A i \in 1..Len(q) : r[i] = q[i]
  OBVIOUS
<1> HIDE DEF r
<1>2. \A i \in 1..Len(r) : i \in 1..Len(q) \/ i = Len(q) + 1
  BY <1>1
<1>3. \A i \in 1..Len(q) : i \in 1..Len(r) /\ i < Len(q) + 1
  BY <1>1
<1>4. Len(q) + 1 \in 1..Len(r)
  BY <1>1
<1>5. ASSUME NEW a PROVE Coming(r, a) <=> Coming(q, a) \/ x = a
  BY <1>1, <1>2, <1>3, <1>4 DEF Coming
<1>6. ASSUME NEW a, NEW b, NoneAfter(q, a, b), x = b => ~Coming(q, a) PROVE NoneAfter(r, a, b)
  <2> SUFFICES ASSUME NEW i \in 1..Len(r), NEW j \in 1..Len(r), i < j, r[i] = a, r[j] = b PROVE FALSE
    BY DEF NoneAfter
  <2>1. i \in 1..Len(q)
    BY <1>1
  <2>2. CASE j \in 1..Len(q)
    BY <1>1, <1>6, <2>1, <2>2 DEF NoneAfter
  <2>3. CASE j = Len(q) + 1
    BY <1>1, <1>6, <2>1, <2>3 DEF Coming
  <2> QED BY <1>2, <2>2, <2>3
<1>7. ASSUME NEW a, NEW b, OnlyAfter(q, a, b), x = b => Coming(q, a) PROVE OnlyAfter(r, a, b)
  <2> SUFFICES ASSUME NEW j \in 1..Len(r), r[j] = b PROVE \E i \in 1..Len(r) : i < j /\ r[i] = a
    BY DEF OnlyAfter
  <2>1. CASE j \in 1..Len(q)
    <3>1. PICK i \in 1..Len(q) : i < j /\ q[i] = a
      BY <1>1, <1>7, <2>1 DEF OnlyAfter
    <3> QED BY <1>1, <1>3, <3>1
  <2>2. CASE j = Len(q) + 1
    <3>1. PICK i \in 1..Len(q) : q[i] = a
      BY <1>1, <1>7, <2>2 DEF Coming
    <3> QED BY <1>1, <1>3, <2>2, <3>1
  <2> QED BY <1>2, <2>1, <2>2
<1> QED BY <1>5, <1>6, <1>7 DEF r

LEMMA TailAnswer ==
    ASSUME NEW q \in Seq(Incoming), q # <<>>
    PROVE  /\ \A a : Coming(q, a) <=> Head(q) = a \/ Coming(Tail(q), a)
           /\ \A a, b : NoneAfter(q, a, b) =>
                 NoneAfter(Tail(q), a, b) /\ (Head(q) = a => ~Coming(Tail(q), b))
           /\ \A a, b : OnlyAfter(q, a, b) /\ a # b =>
                 Head(q) # b /\ (Head(q) = a \/ OnlyAfter(Tail(q), a, b))
<1> DEFINE r == Tail(q)
<1>1. /\ Len(q) \in Nat \ {0} /\ Len(r) = Len(q) - 1 /\ Head(q) = q[1]
      /\ \A i \in 1..Len(r) : r[i] = q[i + 1]
  OBVIOUS
<1> HIDE DEF r
<1>2. \A i \in 1..Len(r) : i + 1 \in 1..Len(q) /\ 1 < i + 1
  BY <1>1
<1>3. \A i \in 1..Len(q) : i = 1 \/ i - 1 \in 1..Len(r)
  BY <1>1
<1>4. \A i \in 2..Len(q) : q[i] = r[i - 1]
  BY <1>1
<1>5. 1 \in 1..Len(q)
  BY <1>1
<1>6. ASSUME NEW a PROVE Coming(q, a) <=> Head(q) = a \/ Coming(r, a)
  BY <1>1, <1>2, <1>3, <1>4, <1>5 DEF Coming
<1>7. ASSUME NEW a, NEW b, NoneAfter(q, a, b)
      PROVE  NoneAfter(r, a, b) /\ (Head(q) = a => ~Coming(r, b))
  <2>1. NoneAfter(r, a, b)
    <3> SUFFICES ASSUME NEW i \in 1..Len(r), NEW j \in 1..Len(r), i < j, r[i] = a, r[j] = b PROVE FALSE
      BY DEF NoneAfter
    <3>1. i + 1 \in 1..Len(q) /\ j + 1 \in 1..Len(q) /\ i + 1 < j + 1
      BY <1>2
    <3> QED BY <1>1, <1>7, <3>1 DEF NoneAfter
  <2>2. ASSUME Head(q) = a, NEW j \in 1..Len(r), r[j] = b PROVE FALSE
    BY <1>1, <1>2, <1>5, <1>7, <2>2 DEF NoneAfter
  <2> QED BY <2>1, <2>2 DEF Coming
<1>8. ASSUME NEW a, NEW b, OnlyAfter(q, a, b), a # b
      PROVE  Head(q) # b /\ (Head(q) = a \/ OnlyAfter(r, a, b))
  <2>1. Head(q) # b
    BY <1>1, <1>5, <1>8 DEF OnlyAfter
  <2>2. ASSUME Head(q) # a, NEW j \in 1..Len(r), r[j] = b
        PROVE  \E i \in 1..Len(r) : i < j /\ r[i] = a
    <3>1. PICK i \in 1..Len(q) : i < j + 1 /\ q[i] = a
      BY <1>1, <1>2, <1>8, <2>2 DEF OnlyAfter
    <3>2. i # 1 /\ i - 1 \in 1..Len(r) /\ i - 1 < j /\ r[i - 1] = a
      BY <1>1, <1>3, <1>4, <2>2, <3>1
    <3> QED BY <3>2
  <2> QED BY <2>1, <2>2 DEF OnlyAfter
<1> QED BY <1>6, <1>7, <1>8 DEF r

\* Actions that concern neither the answers nor who reads them.
LEMMA AnswersKept ==
    ASSUME Next, TypeOK
    PROVE  \/ UNCHANGED <<n, registered, layout, reader, wireIn>> /\ companion'.device = companion.device
           \/ Dial \/ Reap \/ Judge \/ TakePing \/ Evict
           \/ (\E line \in {"key-state", "ping"} : Push(line))
           \/ (\E i \in Sessions : ReaderStep(i) \/ ReadTimeout(i))
<1> USE DEF conn, wires, bounds
<1>1. CASE ClientNext
  <2>1. ASSUME NEW c \in Clients, QueuePress(c)
        PROVE  UNCHANGED <<n, registered, layout, reader, wireIn, companion>>
    BY <2>1 DEF QueuePress
  <2>2. CASE UNCHANGED sessionVars
    BY <2>2 DEF sessionVars
  <2>3. UNCHANGED sessionVars \/ \E c \in Clients : QueuePress(c)
    BY <1>1, ClientFrame
  <2> QED BY <2>1, <2>2, <2>3
<1>2. CASE SessionStep \/ RegisterTimeout \/ Cancel \/ Ping
  BY <1>2 DEF SessionStep, Register, Accepted, Ends, RegisterTimeout, Flushed, Return, CancelRead,
     Cancel, Ping
<1>3. CASE WriterStep
  BY <1>3 DEF WriterStep, WriteLine, DrainLine, WriterEnds
<1>4. CASE TakePress \/ Vanish \/ Reset
  BY <1>4 DEF TakePress, Vanish, Reset, TypeOK, PeerType
<1> QED BY <1>1, <1>2, <1>3, <1>4 DEF Next, SessionNext, CompanionStep

LEMMA ReaderInvStep ==
    ASSUME TypeOK, SessionInv, ReaderInv, Next
    PROVE  ReaderInv'
<1> USE DEF ReaderInv, SessionInv, TypeOK, ControlType
<1>1. CASE Dial
  BY <1>1, SessionAssumption DEF Dial
<1>2. CASE Reap
  BY <1>2 DEF Reap
<1>3. ASSUME NEW i \in Sessions, ReaderStep(i) \/ ReadTimeout(i) PROVE ReaderInv'
  <2>1. /\ reader[i] \notin {"off", "ended"} /\ UNCHANGED <<n, session>>
        /\ \E what : reader' = [reader EXCEPT ![i] = what]
    BY <1>3 DEF ReaderStep, ReadLine, ReadFails, ReadTimeout, HandleKeyState, HandlePing, RaiseLayout,
       SignalRegistration, Does
  <2>2. i = n
    BY <2>1, SessionAssumption DEF Sessions
  <2>3. session \notin {"flushing", "backoff", "over"} /\ n > 0
    BY <2>1, <2>2 DEF Sessions
  <2> QED BY <2>1, <2>2, <2>3
<1>4. CASE UNCHANGED <<n, registered, reader>>
  <2>1. session' = session \/ session' \in {"dialed", "pending", "live", "reaping"}
        \/ session \in {"flushing", "backoff"} \/ Reap
    <3>1. CASE ClientNext
      <4>1. UNCHANGED sessionVars \/ \E c \in Clients : QueuePress(c)
        BY <3>1, ClientFrame
      <4> QED BY <4>1 DEF sessionVars, QueuePress
    <3>2. CASE SessionStep \/ RegisterTimeout \/ Cancel \/ Ping
      BY <3>2 DEF SessionStep, Dial, Register, Accepted, Ends, RegisterTimeout, Flushed, Return,
         CancelRead, Cancel, Ping, Close
    <3>3. CASE WriterStep \/ CompanionStep \/ Evict \/ Vanish \/ Reset
               \/ \E line \in {"key-state", "ping"} : Push(line)
      BY <3>3 DEF WriterStep, WriteLine, DrainLine, WriterEnds, CompanionStep, Judge, TakePress,
         TakePing, Push, Evict, Vanish, Reset
    <3>4. ASSUME NEW i \in Sessions, ReaderStep(i) \/ ReadTimeout(i) PROVE session' = session
      BY <3>4 DEF ReaderStep, ReadLine, ReadFails, ReadTimeout, HandleKeyState, HandlePing,
         RaiseLayout, SignalRegistration
    <3> QED BY <3>1, <3>2, <3>3, <3>4 DEF Next, SessionNext
  <2> QED BY <1>2, <1>4, <2>1
<1> QED BY <1>1, <1>2, <1>3, <1>4, AnswersKept DEF Judge, TakePing, Evict, Push, conn

\* What an answer of Companion's, at the end of the wire, does.
LEMMA ReplyAppend ==
    ASSUME TypeOK, ReplyInv, n > 0, NEW x \in Incoming, wireIn' = Append(wireIn, x),
           UNCHANGED <<n, registered, layout, reader>>,
           \/ x \in {"ping", "pong"} /\ companion'.device = companion.device
           \/ x = "key-state" /\ companion.device = "added" /\ companion'.device = "added"
           \/ x = "ok" /\ companion.device = "none" /\ companion'.device = "added"
           \/ x = "error" /\ companion.device \in {"none", "added"} /\ companion'.device = "refused"
    PROVE  ReplyInv'
<1>1. /\ \A a : Coming(wireIn', a) <=> Coming(wireIn, a) \/ x = a
      /\ \A a, b : NoneAfter(wireIn, a, b) /\ (x = b => ~Coming(wireIn, a)) => NoneAfter(wireIn', a, b)
      /\ \A a, b : OnlyAfter(wireIn, a, b) /\ (x = b => Coming(wireIn, a)) => OnlyAfter(wireIn', a, b)
  BY AppendAnswer DEF TypeOK, WireInType
<1>2. \A a : Arrives(a)' <=> Arrives(a) \/ x = a
  BY <1>1 DEF Arrives
<1>3. x = "ok" => ~Arrives("ok") /\ ~Arrives("error") /\ layout # n
  BY DEF ReplyInv
<1>4. x = "key-state" /\ layout # n => reader[n] = "ok" \/ Coming(wireIn, "ok")
  BY DEF ReplyInv, Arrives
<1>5. NoneAfter(wireIn, "ok", "ok")' /\ NoneAfter(wireIn, "error", "ok")'
  BY <1>1, <1>3 DEF ReplyInv, Arrives
<1>6. layout # n => reader[n] = "ok" \/ OnlyAfter(wireIn, "ok", "key-state")'
  BY <1>1, <1>4 DEF ReplyInv
<1>7. reader[n] \in {"ok", "error"} => ~Coming(wireIn, "ok")'
  BY <1>1, <1>3 DEF ReplyInv, Arrives
<1>8. layout = n => ~Arrives("ok")'
  BY <1>2, <1>3 DEF ReplyInv
<1>9. companion'.device = "none" => companion.device = "none" /\ x \in {"ping", "pong"}
  OBVIOUS
<1>10. companion'.device = "none" =>
          layout # n /\ ~Arrives("ok")' /\ ~Arrives("error")' /\ ~Arrives("key-state")'
  BY <1>2, <1>9 DEF ReplyInv
<1>11. companion'.device = "added" => ~Arrives("error")' /\ (layout = n \/ Arrives("ok")')
  <2>1. companion'.device = "added" =>
           \/ companion.device = "added" /\ x \in {"ping", "pong", "key-state"}
           \/ companion.device = "none" /\ x = "ok"
    OBVIOUS
  <2> QED BY <1>2, <2>1 DEF ReplyInv
<1>12. companion'.device = "refused" =>
          (registered \/ reader[n] = "accepted" \/ Arrives("ok")' => Arrives("error")')
  <2>1. CASE x = "error"
    BY <1>2, <2>1
  <2>2. CASE x # "error" /\ companion'.device = "refused"
    <3>1. companion.device = "refused" /\ x # "ok"
      BY <2>2
    <3> QED BY <1>2, <3>1 DEF ReplyInv
  <2> QED BY <2>1, <2>2
<1>13. layout # n => ~registered /\ reader[n] \notin {"accepted", "key-state"}
  BY DEF ReplyInv
<1> QED BY <1>5, <1>6, <1>7, <1>8, <1>10, <1>11, <1>12, <1>13 DEF ReplyInv

\* The reader takes the next answer.
LEMMA ReplyTaken ==
    ASSUME TypeOK, ReplyInv, n \in Sessions, reader[n] = "reading", wireIn # <<>>,
           reader' = [reader EXCEPT ![n] = Head(wireIn)], wireIn' = Tail(wireIn),
           UNCHANGED <<n, registered, layout, companion>>
    PROVE  ReplyInv'
<1>1. /\ \A a : Coming(wireIn, a) <=> Head(wireIn) = a \/ Coming(wireIn', a)
      /\ \A a, b : NoneAfter(wireIn, a, b) =>
            NoneAfter(wireIn', a, b) /\ (Head(wireIn) = a => ~Coming(wireIn', b))
      /\ \A a, b : OnlyAfter(wireIn, a, b) /\ a # b =>
            Head(wireIn) # b /\ (Head(wireIn) = a \/ OnlyAfter(wireIn', a, b))
  BY TailAnswer DEF TypeOK, WireInType
<1>2. /\ reader'[n] = Head(wireIn) /\ Head(wireIn) \in Incoming
  BY DEF TypeOK, WireInType, ControlType
<1>3. \A a \in Incoming : Arrives(a)' <=> Arrives(a)
  BY <1>1, <1>2 DEF Arrives, Incoming
<1>4. reader'[n] # "accepted" /\ {"ok", "error", "key-state"} \subseteq Incoming
  BY <1>2 DEF Incoming
<1>5. n > 0
  BY DEF Sessions
<1>6. layout # n => reader'[n] # "key-state" /\ (reader'[n] = "ok" \/ OnlyAfter(wireIn, "ok", "key-state")')
  BY <1>1, <1>2, <1>5 DEF ReplyInv
<1>7. NoneAfter(wireIn, "ok", "ok")' /\ NoneAfter(wireIn, "error", "ok")'
      /\ (reader'[n] \in {"ok", "error"} => ~Coming(wireIn, "ok")')
  BY <1>1, <1>2, <1>5 DEF ReplyInv
<1> QED BY <1>3, <1>4, <1>5, <1>6, <1>7 DEF ReplyInv

\* The reader is done with what it had in hand.
LEMMA ReplyHandled ==
    ASSUME TypeOK, ReplyInv, n \in Sessions, UNCHANGED <<n, wireIn, companion>>,
           NEW what, reader' = [reader EXCEPT ![n] = what],
           \/ /\ reader[n] \in {"key-state", "ping", "pong", "reading"} /\ what \in {"reading", "ended"}
              /\ UNCHANGED <<registered, layout>>
           \/ reader[n] = "ok" /\ what = "accepted" /\ layout' = n /\ registered' = registered
           \/ /\ reader[n] \in {"accepted", "error"} /\ what = "reading"
              /\ registered' = (reader[n] = "accepted") /\ layout' = layout
    PROVE  ReplyInv'
<1>1. reader'[n] = what /\ n > 0
  BY DEF TypeOK, ControlType, Sessions
<1>2. \A a : Coming(wireIn, a)' <=> Coming(wireIn, a)
  OBVIOUS
<1>3. CASE /\ reader[n] \in {"key-state", "ping", "pong", "reading"} /\ what \in {"reading", "ended"}
           /\ UNCHANGED <<registered, layout>>
  BY <1>1, <1>2, <1>3 DEF ReplyInv, Arrives
<1>4. CASE reader[n] = "ok" /\ what = "accepted" /\ layout' = n /\ registered' = registered
  BY <1>1, <1>2, <1>4 DEF ReplyInv, Arrives
<1>5. CASE /\ reader[n] \in {"accepted", "error"} /\ what = "reading"
           /\ registered' = (reader[n] = "accepted") /\ layout' = layout
  BY <1>1, <1>2, <1>5 DEF ReplyInv, Arrives
<1> QED BY <1>3, <1>4, <1>5

LEMMA ReplyInvStep ==
    ASSUME IInv, ReaderInv, ReplyInv, Next
    PROVE  ReplyInv'
<1> USE DEF IInv
<1>1. CASE UNCHANGED <<n, registered, layout, reader, wireIn>> /\ companion'.device = companion.device
  BY <1>1 DEF ReplyInv, Arrives
<1>2. CASE Dial
  <2>1. /\ n' = n + 1 /\ n \in Nat /\ n + 1 \in Sessions /\ layout \in 0..n /\ layout' = layout
        /\ ~registered' /\ wireIn' = <<>> /\ reader'[n'] = "reading" /\ companion'.device = "none"
    BY <1>2, SessionAssumption DEF Dial, ReaderInv, TypeOK, ControlType, NoSurface, Sessions
  <2>2. layout' # n' /\ \A a : ~Coming(wireIn', a)
    BY <2>1 DEF Coming
  <2>3. \A a, b : NoneAfter(wireIn', a, b) /\ OnlyAfter(wireIn', a, b)
    BY <2>1 DEF NoneAfter, OnlyAfter
  <2> QED BY <2>1, <2>2, <2>3 DEF ReplyInv, Arrives
<1>3. CASE Reap
  BY <1>3 DEF Reap, wires, ReplyInv, Arrives
<1>4. CASE Judge \/ TakePing \/ Evict \/ \E line \in {"key-state", "ping"} : Push(line)
  <2>1. UNCHANGED <<n, registered, layout, reader>> /\ open /\ n > 0
    BY <1>4 DEF Judge, TakePing, Evict, Push, Listens, conn, SessionInv, TypeOK, ControlType
  <2>2. CASE Judge
    <3>1. companion.device = "none"
      <4>1. Pipe # <<>> /\ Head(Pipe).cmd = "add-device"
        BY <2>2, TakePipe DEF Judge, conn
      <4>2. 1 \in 1..Len(Pipe) /\ Pipe[1] = Head(Pipe)
        BY <4>1, PipeType
      <4> QED BY <2>1, <4>1, <4>2 DEF AddInv, NoAdd
    <3>2. \/ wireIn' = Append(wireIn, "ok") /\ companion'.device = "added"
          \/ wireIn' = Append(wireIn, "error") /\ companion'.device = "refused"
      BY <2>2 DEF Judge, Reply, TypeOK, PeerType
    <3> QED BY <2>1, <3>1, <3>2, ReplyAppend DEF Incoming
  <2>3. CASE TakePing
    <3>1. companion' = companion /\ (wireIn' = wireIn \/ wireIn' = Append(wireIn, "pong"))
      BY <2>3 DEF TakePing, Reply
    <3> QED BY <1>1, <2>1, <3>1, ReplyAppend DEF Incoming
  <2>4. CASE Evict
    <3>1. companion.device = "added" /\ companion'.device = "refused" /\ wireIn' = Append(wireIn, "error")
      BY <2>4 DEF Evict, Reply, TypeOK, PeerType
    <3> QED BY <2>1, <3>1, ReplyAppend DEF Incoming
  <2>5. ASSUME NEW line \in {"key-state", "ping"}, Push(line) PROVE ReplyInv'
    <3>1. companion' = companion /\ wireIn' = Append(wireIn, line)
          /\ (line = "key-state" => companion.device = "added")
      BY <2>5 DEF Push, Reply
    <3> QED BY <2>1, <3>1, ReplyAppend DEF Incoming
  <2> QED BY <1>4, <2>2, <2>3, <2>4, <2>5
<1>5. ASSUME NEW i \in Sessions, ReaderStep(i) \/ ReadTimeout(i) PROVE ReplyInv'
  <2>1. reader[i] \notin {"off", "ended"} /\ UNCHANGED <<n, companion>>
    BY <1>5 DEF ReaderStep, ReadLine, ReadFails, ReadTimeout, HandleKeyState, HandlePing, RaiseLayout,
       SignalRegistration
  <2>2. i = n
    BY <2>1, SessionAssumption DEF ReaderInv, SessionInv, TypeOK, ControlType, Sessions
  <2>3. CASE ReadLine(n)
    BY <2>1, <2>2, <2>3, ReplyTaken DEF ReadLine, Does, conn
  <2>4. CASE ReadFails(n) \/ ReadTimeout(n) \/ HandleKeyState(n) \/ HandlePing(n)
    <3>1. /\ UNCHANGED <<wireIn, registered, layout>>
          /\ reader[n] \in {"key-state", "ping", "pong", "reading"}
          /\ \E what \in {"reading", "ended"} : reader' = [reader EXCEPT ![n] = what]
      BY <2>4 DEF ReadFails, ReadTimeout, HandleKeyState, HandlePing, Does, conn, wires
    <3> QED BY <2>1, <2>2, <3>1, ReplyHandled
  <2>5. CASE RaiseLayout(n)
    BY <2>1, <2>2, <2>5, ReplyHandled DEF RaiseLayout, Does, conn, wires
  <2>6. CASE SignalRegistration(n)
    BY <2>1, <2>2, <2>6, ReplyHandled DEF SignalRegistration, Does, wires
  <2> QED BY <1>5, <2>2, <2>3, <2>4, <2>5, <2>6 DEF ReaderStep
<1> QED BY <1>1, <1>2, <1>3, <1>4, <1>5, AnswersKept

\* The flag of a registration, and the rejection that is on its way.
THEOREM AnswersInvariance == Spec => []SInv
<1>1. InitAll => SInv
  BY IInvInit DEF InitAll, Init, SInv, ReaderInv, ReplyInv, Sessions
<1>2. SInv /\ [Next]_vars => SInv'
  <2> SUFFICES ASSUME SInv, [Next]_vars PROVE SInv'
    OBVIOUS
  <2>1. CASE Next
    BY <2>1, IInvStep, ReaderInvStep, ReplyInvStep DEF SInv, IInv
  <2>2. CASE UNCHANGED vars
    BY <2>2, IInvStep DEF SInv, ReaderInv, ReplyInv, Arrives, vars, sessionVars
  <2> QED BY <2>1, <2>2
<1> QED BY <1>1, <1>2, PTL DEF Spec

\* The server believes its surface registered only if Companion accepted it in
\* this session, and has not been told otherwise (signalRegistration, session's
\* teardown).
THEOREM Known == Spec => []RegistrationKnown
<1>1. SInv => RegistrationKnown
  <2> SUFFICES ASSUME SInv, registered PROVE RegistrationKnown
    BY DEF RegistrationKnown
  <2>1. n > 0
    BY DEF SInv, IInv, SessionInv, ReaderInv, TypeOK, ControlType
  <2>2. companion.device \in {"none", "added", "refused"}
    BY DEF SInv, IInv, TypeOK, PeerType
  <2> QED BY <2>1, <2>2 DEF SInv, ReplyInv, Arrives, Coming, Rejected, RegistrationKnown
<1> QED BY <1>1, AnswersInvariance, PTL

\* The surface manager hears one session at a time, its layout before its key
\* states and only once (surfaceManager, handleLine).
THEOREM Ordered == Spec => RaisedInOrder
<1> DEFINE A == \A i \in Sessions :
                   /\ reader[i] = "key-state" /\ reader'[i] # "key-state" => layout = i
                   /\ reader[i] = "ok" /\ reader'[i] # "ok" => layout < i
<1>1. SInv => A
  <2> SUFFICES ASSUME SInv, NEW i \in Sessions, reader[i] \in {"key-state", "ok"}
               PROVE  /\ reader[i] = "key-state" => layout = i
                      /\ reader[i] = "ok" => layout < i
    OBVIOUS
  <2>1. i = n /\ layout \in 0..n /\ n > 0 /\ n \in Nat
    BY DEF SInv, IInv, SessionInv, ReaderInv, TypeOK, ControlType, Sessions
  <2>2. reader[n] = "ok" => layout # n
    BY <2>1 DEF SInv, ReplyInv, Arrives
  <2>3. reader[n] = "key-state" => layout = n
    BY <2>1 DEF SInv, ReplyInv
  <2> QED BY <2>1, <2>2, <2>3
<1>2. SInv /\ [Next]_vars => [A]_vars
  BY <1>1
<1> QED BY <1>2, AnswersInvariance, PTL DEF Spec, RaisedInOrder
=============================================================================
