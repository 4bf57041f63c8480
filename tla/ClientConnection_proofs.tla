---------------------- MODULE ClientConnection_proofs ----------------------
(***************************************************************************)
(* "Connected" is a live channel, no socket is left to itself and a stop   *)
(* is silent: for any number of calls, sockets and faults.                 *)
(***************************************************************************)
EXTENDS ClientConnection, TLAPS

Elems(q)  == {q[i] : i \in 1..Len(q)}
Here      == Elems(micro)
Asleep(f) == Elems(waiting[f])

\* k is to be resumed, or runs next.
Pending(k) == k \in Here \/ \E f \in Futures : k \in Asleep(f)

Carried(k) ==
    /\ k.socket <= Len(sockets) /\ k.gen <= generation
    /\ ~IsStop(k) => k.socket # Null

\* The types, and what the continuations carry.
Shape ==
    /\ TypeOK /\ timer <= generation
    /\ \A k \in Continuations : Pending(k) => Carried(k)

-----------------------------------------------------------------------------
(* Queues *)

LEMMA ElemsEmpty == Elems(<<>>) = {}
BY DEF Elems

LEMMA ElemsAppend ==
    ASSUME NEW q \in Seq(Continuations), NEW k \in Continuations
    PROVE  Append(q, k) \in Seq(Continuations) /\ Elems(Append(q, k)) = Elems(q) \cup {k}
<1>1. Append(q, k) \in Seq(Continuations) /\ Len(Append(q, k)) = Len(q) + 1
  OBVIOUS
<1>2. \A i \in 1..Len(q) : Append(q, k)[i] = q[i]
  OBVIOUS
<1>3. Append(q, k)[Len(q) + 1] = k
  OBVIOUS
<1>4. Elems(Append(q, k)) \subseteq Elems(q) \cup {k}
  BY <1>1, <1>2, <1>3 DEF Elems
<1>5. Elems(q) \subseteq Elems(Append(q, k))
  BY <1>1, <1>2 DEF Elems
<1>6. k \in Elems(Append(q, k))
  BY <1>1, <1>3 DEF Elems
<1> QED BY <1>1, <1>4, <1>5, <1>6

LEMMA ElemsTail ==
    ASSUME NEW q \in Seq(Continuations), q # <<>>
    PROVE  /\ Head(q) \in Continuations /\ Tail(q) \in Seq(Continuations)
           /\ Elems(q) = Elems(Tail(q)) \cup {Head(q)}
<1>1. /\ Head(q) \in Continuations /\ Tail(q) \in Seq(Continuations)
      /\ Len(q) \in Nat \ {0} /\ Len(Tail(q)) = Len(q) - 1
  OBVIOUS
<1>2. Head(q) = q[1] /\ \A i \in 1..Len(Tail(q)) : Tail(q)[i] = q[i + 1]
  OBVIOUS
<1>3. Elems(q) \subseteq Elems(Tail(q)) \cup {Head(q)}
  <2> SUFFICES ASSUME NEW i \in 1..Len(q), q[i] # Head(q)
               PROVE  q[i] \in Elems(Tail(q))
    BY DEF Elems
  <2>1. i - 1 \in 1..Len(Tail(q)) /\ Tail(q)[i - 1] = q[i]
    BY <1>1, <1>2
  <2> QED BY <2>1 DEF Elems
<1>4. Elems(Tail(q)) \subseteq Elems(q)
  BY <1>1, <1>2 DEF Elems
<1>5. Head(q) \in Elems(q)
  BY <1>1, <1>2 DEF Elems
<1> QED BY <1>1, <1>3, <1>4, <1>5

LEMMA ElemsTyped ==
    ASSUME NEW q \in Seq(Continuations)
    PROVE  Elems(q) \subseteq Continuations /\ (Elems(q) = {} <=> q = <<>>)
BY DEF Elems

-----------------------------------------------------------------------------
(* Types *)

LEMMA CallType ==
    ASSUME NEW then \in {"cancelled", "closed"}, NEW goal \in Goals
    PROVE  /\ Call(then, goal) \in Continuations /\ IsStop(Call(then, goal))
           /\ Call(then, goal).then = then /\ Call(then, goal).goal = goal
           /\ Call(then, goal).socket = 0 /\ Call(then, goal).gen = 0
BY ConnectionAssumption DEF Call, Continuations, IsStop, Null, ConnectionAssumption

LEMMA OpenType ==
    ASSUME NEW then \in {"ready", "failed"}, NEW g \in Nat, NEW s \in Sockets
    PROVE  /\ Open(then, g, s) \in Continuations /\ ~IsStop(Open(then, g, s))
           /\ Open(then, g, s).then = then
           /\ Open(then, g, s).gen = g /\ Open(then, g, s).socket = s
BY ConnectionAssumption
DEF Open, Continuations, IsStop, Null, Sockets, Goals, ConnectionAssumption

LEMMA FutureType ==
    ASSUME NEW what \in {"ready", "close", "cancel"}, NEW s \in Sockets \cup {Null}
    PROVE  /\ s \in Sockets => Future(what, s) \in Futures
           /\ Future(what, s).what = what /\ Future(what, s).socket = s
BY DEF Future, Futures

\* What `await` makes of the queues.
LEMMA AwaitEffect ==
    ASSUME TypeOK, NEW k \in Continuations, NEW q \in Seq(Continuations),
           NEW what \in {"ready", "close", "cancel"}, NEW s \in Sockets \cup {Null},
           Await(k, Future(what, s), q)
    PROVE  /\ micro' \in Seq(Continuations) /\ waiting' \in [Futures -> Seq(Continuations)]
           /\ \/ /\ s = Null \/ Future(what, s) \in completed
                 /\ micro' = Append(q, k) /\ Here' = Elems(q) \cup {k}
                 /\ waiting' = waiting
              \/ /\ s # Null /\ Future(what, s) \in Futures \ completed
                 /\ micro' = q /\ Here' = Elems(q)
                 /\ waiting' = [waiting EXCEPT ![Future(what, s)] = Append(@, k)]
                 /\ Asleep(Future(what, s))' = Asleep(Future(what, s)) \cup {k}
                 /\ \A f \in Futures \ {Future(what, s)} : Asleep(f)' = Asleep(f)
<1>1. waiting \in [Futures -> Seq(Continuations)]
  BY DEF TypeOK
<1>2. Future(what, s).socket = s
  BY FutureType
<1>3. CASE s = Null \/ Future(what, s) \in completed
  BY <1>1, <1>2, <1>3, ElemsAppend DEF Await, Here
<1>4. CASE ~(s = Null \/ Future(what, s) \in completed)
  <2>1. Future(what, s) \in Futures
    BY <1>4, FutureType
  <2>2. micro' = q /\ waiting' = [waiting EXCEPT ![Future(what, s)] = Append(@, k)]
    BY <1>2, <1>4 DEF Await
  <2>3. Append(waiting[Future(what, s)], k) \in Seq(Continuations)
    BY <1>1, <2>1
  <2>4. waiting' \in [Futures -> Seq(Continuations)]
    BY <1>1, <2>2, <2>3
  <2>5. waiting'[Future(what, s)] = Append(waiting[Future(what, s)], k)
    BY <1>1, <2>1, <2>2
  <2>6. \A f \in Futures \ {Future(what, s)} : waiting'[f] = waiting[f]
    BY <1>1, <2>2
  <2>7. waiting[Future(what, s)] \in Seq(Continuations)
    BY <1>1, <2>1
  <2>8. Asleep(Future(what, s))' = Asleep(Future(what, s)) \cup {k}
    BY <2>5, <2>7, ElemsAppend DEF Asleep
  <2>9. \A f \in Futures \ {Future(what, s)} : Asleep(f)' = Asleep(f)
    BY <2>6 DEF Asleep
  <2> QED BY <1>4, <2>1, <2>2, <2>4, <2>8, <2>9 DEF Here
<1> QED BY <1>3, <1>4

\* What a future leaves as it completes.
LEMMA CompleteEffect ==
    ASSUME TypeOK, NEW f \in Futures, Complete(f)
    PROVE  /\ micro = <<>> /\ Here = {}
           /\ micro' \in Seq(Continuations) /\ waiting' \in [Futures -> Seq(Continuations)]
           /\ completed' = completed \cup {f} /\ f \notin completed
           /\ micro' = waiting[f] /\ Here' = Asleep(f)
           /\ waiting'[f] = <<>> /\ Asleep(f)' = {}
           /\ \A g \in Futures \ {f} : waiting'[g] = waiting[g] /\ Asleep(g)' = Asleep(g)
<1>1. waiting \in [Futures -> Seq(Continuations)]
  BY DEF TypeOK
<1>2. waiting' = [waiting EXCEPT ![f] = <<>>]
  BY DEF Complete
<1>3. /\ waiting' \in [Futures -> Seq(Continuations)] /\ waiting'[f] = <<>>
      /\ \A g \in Futures \ {f} : waiting'[g] = waiting[g]
  BY <1>1, <1>2
<1>4. Asleep(f)' = {} /\ \A g \in Futures \ {f} : Asleep(g)' = Asleep(g)
  BY <1>3, ElemsEmpty DEF Asleep
<1>5. /\ micro = <<>> /\ micro' = waiting[f]
      /\ completed' = completed \cup {f} /\ f \notin completed
  BY DEF Complete
<1>6. Here = {} /\ Here' = Asleep(f)
  BY <1>5, ElemsEmpty DEF Here, Asleep
<1> QED BY <1>1, <1>3, <1>4, <1>5, <1>6

\* The running continuation and the rest of its queue.
LEMMA HeadEffect ==
    ASSUME TypeOK, ~Idle
    PROVE  /\ Head(micro) \in Continuations /\ Rest \in Seq(Continuations)
           /\ Head(micro) \in Here /\ Here = Elems(Rest) \cup {Head(micro)}
BY ElemsTail DEF TypeOK, Idle, Rest, Here

\* What every turn does to the attempt and to the queues.
Turn ==
    /\ stopRequested' \in BOOLEAN /\ state' \in States
    /\ generation' \in Nat /\ generation' >= generation
    /\ timer' \in Nat /\ timer' <= generation'
    /\ calls' \in 0..MaxCalls /\ crossed' \in BOOLEAN
    /\ micro' \in Seq(Continuations) /\ waiting' \in [Futures -> Seq(Continuations)]
    /\ \A k \in Continuations : Pending(k)' => Pending(k) \/ Carried(k)'

\* And to the sockets.
Wire ==
    /\ sockets' \in Seq({"opening", "open", "dead"})
    /\ Len(sockets') <= MaxSockets /\ Len(sockets') >= Len(sockets)
    /\ channel' \in 0..Len(sockets') /\ subscription' \in 0..Len(sockets')
    /\ closing' \subseteq 1..Len(sockets') /\ listening' \subseteq 1..Len(sockets')
    /\ completed' \subseteq Futures /\ fired' \subseteq 0..generation
    /\ target' \in BOOLEAN /\ disposed' \in BOOLEAN /\ faults' \in 0..MaxFaults

LEMMA ShapeFrom == Shape /\ Turn /\ Wire => Shape'
<1> SUFFICES ASSUME Shape, Turn, Wire PROVE Shape'
  OBVIOUS
<1>1. TypeOK' /\ timer' <= generation'
  <2>1. fired' \in SUBSET (0..generation')
    BY DEF Shape, TypeOK, Turn, Wire
  <2>2. closing' \subseteq 1..Len(sockets') /\ listening' \subseteq 1..Len(sockets')
    BY DEF Wire
  <2>3. /\ stopRequested' \in BOOLEAN /\ state' \in States /\ generation' \in Nat
        /\ timer' \in Nat /\ timer' <= generation'
        /\ calls' \in 0..MaxCalls /\ crossed' \in BOOLEAN
        /\ micro' \in Seq(Continuations) /\ waiting' \in [Futures -> Seq(Continuations)]
    BY DEF Turn
  <2>4. /\ sockets' \in Seq({"opening", "open", "dead"}) /\ Len(sockets') <= MaxSockets
        /\ channel' \in 0..Len(sockets') /\ subscription' \in 0..Len(sockets')
        /\ completed' \subseteq Futures
        /\ target' \in BOOLEAN /\ disposed' \in BOOLEAN /\ faults' \in 0..MaxFaults
    BY DEF Wire
  <2> QED BY <2>1, <2>2, <2>3, <2>4 DEF TypeOK, Known
<1>2. /\ Len(sockets') \in Nat /\ Len(sockets) \in Nat /\ Len(sockets') >= Len(sockets)
      /\ generation' \in Nat /\ generation \in Nat /\ generation' >= generation
  <2>1. sockets \in Seq({"opening", "open", "dead"}) /\ generation \in Nat
    BY DEF Shape, TypeOK
  <2>2. /\ sockets' \in Seq({"opening", "open", "dead"}) /\ Len(sockets') >= Len(sockets)
        /\ generation' \in Nat /\ generation' >= generation
    BY DEF Turn, Wire
  <2> QED BY <2>1, <2>2
<1>3. ASSUME NEW k \in Continuations, Pending(k)' PROVE Carried(k)'
  <2>1. CASE Carried(k)'
    BY <2>1
  <2>2. CASE Pending(k)
    <3>1. Carried(k) /\ k.socket \in Nat /\ k.gen \in Nat
      BY <2>2 DEF Shape, Continuations
    <3> QED BY <1>2, <3>1 DEF Carried
  <2> QED BY <1>3, <2>1, <2>2 DEF Turn
<1> QED BY <1>1, <1>3 DEF Shape

LEMMA ElemsType ==
    ASSUME TypeOK
    PROVE  Here \subseteq Continuations /\ \A f \in Futures : Asleep(f) \subseteq Continuations
BY ElemsTyped DEF TypeOK, Here, Asleep

LEMMA StopTurn ==
    ASSUME Shape, NEW goal \in Goals, NEW g \in Nat, g >= generation,
           NEW feed \in Sockets \cup {Null}, NEW q \in Seq(Continuations),
           Elems(q) \subseteq Here, Stop(goal, g, feed, q), state' \in States,
           Len(sockets') \in Nat
    PROVE  Turn
<1> DEFINE c == Call("cancelled", goal)
           w == Future("cancel", feed)
<1>1. /\ c \in Continuations /\ IsStop(c) /\ c.socket = 0 /\ c.gen = 0
  BY CallType
<1>2. Carried(c)'
  BY <1>1 DEF Carried, Stop
<1>3. Await(c, w, q)
  BY DEF Stop
<1>4. /\ micro' \in Seq(Continuations) /\ waiting' \in [Futures -> Seq(Continuations)]
      /\ \/ waiting' = waiting /\ Here' = Elems(q) \cup {c}
         \/ /\ Here' = Elems(q) /\ w \in Futures
            /\ Asleep(w)' = Asleep(w) \cup {c}
            /\ \A f \in Futures \ {w} : Asleep(f)' = Asleep(f)
  <2> HIDE DEF c
  <2> QED BY <1>1, <1>3, AwaitEffect DEF Shape
<1>5. \A k \in Continuations : Pending(k)' => Pending(k) \/ k = c
  <2> HIDE DEF c, w
  <2>1. CASE waiting' = waiting /\ Here' = Elems(q) \cup {c}
    BY <2>1 DEF Pending, Asleep
  <2>2. CASE ~(waiting' = waiting /\ Here' = Elems(q) \cup {c})
    BY <1>4, <2>2 DEF Pending
  <2> QED BY <2>1, <2>2
<1>6. /\ stopRequested' = TRUE /\ generation' = g + 1 /\ timer' = 0
      /\ calls' \in 0..MaxCalls /\ crossed' \in BOOLEAN
  BY ConnectionAssumption DEF Stop, Shape, TypeOK, Null, ConnectionAssumption
<1> QED BY <1>2, <1>4, <1>5, <1>6 DEF Turn, Shape, TypeOK

LEMMA ReportTurn ==
    ASSUME Shape, NEW stop \in BOOLEAN, NEW g \in Nat, g >= generation,
           NEW feed \in Sockets \cup {Null}, NEW q \in Seq(Continuations),
           Elems(q) \subseteq Here, ReportError(stop, g, feed, q), Len(sockets') \in Nat
    PROVE  Turn
<1>1. CASE state' = "error" /\ Stop("disconnect", g, feed, q)
  BY <1>1, StopTurn DEF Goals, States
<1>2. CASE /\ ScheduleReconnect(stop, g)
           /\ stopRequested' = stop /\ micro' = q /\ UNCHANGED <<waiting, calls, crossed>>
  <2>1. /\ timer' \in Nat /\ generation' \in Nat /\ generation' >= generation
        /\ timer' <= generation' /\ state' \in States
    BY <1>2 DEF ScheduleReconnect, Shape, TypeOK, States
  <2>2. \A k \in Continuations : Pending(k)' => Pending(k)
    BY <1>2 DEF Pending, Asleep, Here
  <2>3. /\ stopRequested' \in BOOLEAN /\ calls' \in 0..MaxCalls /\ crossed' \in BOOLEAN
        /\ micro' \in Seq(Continuations) /\ waiting' \in [Futures -> Seq(Continuations)]
    BY <1>2 DEF Shape, TypeOK
  <2> QED BY <2>1, <2>2, <2>3 DEF Turn
<1> QED BY <1>1, <1>2 DEF ReportError

LEMMA Numbers ==
    ASSUME Shape
    PROVE  /\ Len(sockets) \in Nat /\ generation \in Nat
           /\ channel \in Sockets \cup {Null} /\ subscription \in Sockets \cup {Null}
           /\ \A k \in Here : ~IsStop(k) => k.socket \in Known /\ k.socket \in Sockets
<1>1. /\ Len(sockets) \in Nat /\ generation \in Nat /\ MaxSockets \in Nat
      /\ Len(sockets) <= MaxSockets
      /\ channel \in 0..Len(sockets) /\ subscription \in 0..Len(sockets)
  <2>1. /\ sockets \in Seq({"opening", "open", "dead"}) /\ Len(sockets) <= MaxSockets
        /\ generation \in Nat
        /\ channel \in 0..Len(sockets) /\ subscription \in 0..Len(sockets)
    BY DEF Shape, TypeOK
  <2> QED BY <2>1, ConnectionAssumption DEF ConnectionAssumption
<1>2. ASSUME NEW k \in Here, ~IsStop(k) PROVE k.socket \in Known /\ k.socket \in Sockets
  <2>1. k \in Continuations /\ Pending(k)
    BY ElemsType DEF Shape, Pending
  <2>2. Carried(k) /\ k.socket \in Nat
    BY <2>1 DEF Shape, Continuations
  <2> QED BY <1>1, <1>2, <2>2 DEF Carried, Known, Sockets, Null
<1> QED BY <1>1, <1>2 DEF Sockets, Null

-----------------------------------------------------------------------------
(* Every step keeps the types *)

\* The queues as they are.
LEMMA QueuesKept ==
    ASSUME Shape, UNCHANGED <<waiting, micro>>, Len(sockets') \in Nat
    PROVE  \A k \in Continuations : Pending(k)' => Pending(k)
BY DEF Pending, Asleep, Here

\* The head of the queue has run.
LEMMA QueuesShift ==
    ASSUME TypeOK, ~Idle, micro' = Rest, waiting' = waiting
    PROVE  /\ micro' \in Seq(Continuations) /\ waiting' \in [Futures -> Seq(Continuations)]
           /\ \A k \in Continuations : Pending(k)' => Pending(k)
<1>1. /\ Rest \in Seq(Continuations) /\ Here = Elems(Rest) \cup {Head(micro)}
  BY HeadEffect
<1>2. Here' = Elems(Rest) /\ \A f \in Futures : Asleep(f)' = Asleep(f)
  BY DEF Here, Asleep
<1> QED BY <1>1, <1>2 DEF Pending, TypeOK

LEMMA DropWire ==
    ASSUME Shape, NEW held \in {Null, channel}, Drop(held)
    PROVE  subscription' = Null /\ closing' \subseteq Known /\ listening' \subseteq Known
BY DEF Drop, Shape, TypeOK, Known, Null

LEMMA DialShape ==
    ASSUME Shape, NEW g \in Nat, g >= generation, NEW held \in {Null, channel},
           NEW q \in Seq(Continuations), Elems(q) \subseteq Here, Dial(g, held, q),
           fired' \subseteq fired, target' \in BOOLEAN
    PROVE  Shape'
<1>0. Len(sockets) \in Nat
  BY Numbers
<1> PICK s \in Nat : s = Len(sockets) + 1
  BY <1>0
<1> DEFINE c == Open("ready", g, s)
           w == Future("ready", s)
<1>1. /\ subscription' = Null /\ closing' \subseteq Known /\ listening' \subseteq Known
      /\ completed' = completed /\ disposed' = disposed
  BY DropWire DEF Dial
<1>2. /\ sockets \in Seq({"opening", "open", "dead"}) /\ Len(sockets) \in Nat
      /\ Len(sockets) <= MaxSockets /\ fired' \subseteq 0..generation
      /\ completed' \subseteq Futures /\ disposed' \in BOOLEAN
  BY <1>1 DEF Shape, TypeOK
<1>3. CASE /\ s \in Sockets /\ sockets' = Append(sockets, "opening")
           /\ channel' = s /\ state' = "connecting"
           /\ stopRequested' = FALSE /\ generation' = g
           /\ Await(c, w, q)
           /\ UNCHANGED <<timer, crossed, calls, faults>>
  <2>1. /\ sockets' \in Seq({"opening", "open", "dead"}) /\ Len(sockets') = s
        /\ s \in Nat \ {0} /\ s <= MaxSockets
    BY <1>2, <1>3 DEF Sockets
  <2>2. Wire
    <3>1. channel' \in 0..Len(sockets') /\ subscription' \in 0..Len(sockets')
      BY <1>1, <1>3, <2>1 DEF Null
    <3>2. closing' \subseteq 1..Len(sockets') /\ listening' \subseteq 1..Len(sockets')
      BY <1>1, <1>2, <2>1 DEF Known
    <3>3. faults' \in 0..MaxFaults
      BY <1>3 DEF Shape, TypeOK
    <3>4. Len(sockets') <= MaxSockets /\ Len(sockets') >= Len(sockets)
      BY <1>2, <2>1
    <3> QED BY <1>2, <2>1, <3>1, <3>2, <3>3, <3>4 DEF Wire
  <2>3. /\ c \in Continuations /\ ~IsStop(c) /\ c.socket = s /\ c.gen = g
    BY <1>3, OpenType
  <2>4. Carried(c)'
    <3>1. generation' = g /\ s \in Nat \ {0} /\ Len(sockets') = s
      BY <1>3, <2>1
    <3> HIDE DEF c
    <3> QED BY <2>3, <3>1 DEF Carried, Null
  <2>5. /\ micro' \in Seq(Continuations) /\ waiting' \in [Futures -> Seq(Continuations)]
        /\ \/ waiting' = waiting /\ Here' = Elems(q) \cup {c}
           \/ /\ Here' = Elems(q) /\ w \in Futures
              /\ Asleep(w)' = Asleep(w) \cup {c}
              /\ \A f \in Futures \ {w} : Asleep(f)' = Asleep(f)
    <3>1. s \in Sockets \cup {Null} /\ Await(c, w, q) /\ TypeOK
      BY <1>3 DEF Shape
    <3> HIDE DEF c
    <3> QED BY <2>3, <3>1, AwaitEffect
  <2>6. \A k \in Continuations : Pending(k)' => Pending(k) \/ k = c
    <3> HIDE DEF c, w
    <3>1. CASE waiting' = waiting /\ Here' = Elems(q) \cup {c}
      BY <3>1 DEF Pending, Asleep
    <3>2. CASE ~(waiting' = waiting /\ Here' = Elems(q) \cup {c})
      BY <2>5, <3>2 DEF Pending
    <3> QED BY <3>1, <3>2
  <2>7. /\ timer' = timer /\ calls' = calls /\ crossed' = crossed
        /\ stopRequested' = FALSE /\ state' = "connecting" /\ generation' = g
    BY <1>3
  <2>8. /\ timer \in Nat /\ generation \in Nat /\ timer <= generation
        /\ calls \in 0..MaxCalls /\ crossed \in BOOLEAN
    BY DEF Shape, TypeOK
  <2>9. /\ timer' \in Nat /\ timer' <= generation'
        /\ generation' \in Nat /\ generation' >= generation
    BY <2>7, <2>8
  <2>10. /\ stopRequested' \in BOOLEAN /\ state' \in States
         /\ calls' \in 0..MaxCalls /\ crossed' \in BOOLEAN
    BY <2>7, <2>8 DEF States
  <2>11. Turn
    BY <2>4, <2>5, <2>6, <2>9, <2>10 DEF Turn
  <2> QED BY <2>2, <2>11, ShapeFrom
<1>4. CASE Fault /\ channel' = Null /\ ReportError(FALSE, g, Null, q) /\ UNCHANGED sockets
  <2>1. Turn
    BY <1>2, <1>4, ReportTurn
  <2>2. faults' \in 0..MaxFaults
    BY <1>4, ConnectionAssumption DEF Fault, Shape, TypeOK, ConnectionAssumption
  <2>3. Wire
    BY <1>1, <1>2, <1>4, <2>2 DEF Wire, Known, Null
  <2> QED BY <2>1, <2>3, ShapeFrom
<1> QED BY <1>3, <1>4 DEF Dial

\* The plain facts of Shape.
LEMMA Typed ==
    ASSUME Shape
    PROVE  /\ stopRequested \in BOOLEAN /\ generation \in Nat /\ timer \in Nat
           /\ timer <= generation /\ fired \subseteq 0..generation
           /\ channel \in 0..Len(sockets) /\ subscription \in 0..Len(sockets)
           /\ state \in States
           /\ sockets \in Seq({"opening", "open", "dead"}) /\ Len(sockets) <= MaxSockets
           /\ Len(sockets) \in Nat
           /\ closing \subseteq Known /\ listening \subseteq Known /\ Known = 1..Len(sockets)
           /\ completed \subseteq Futures
           /\ waiting \in [Futures -> Seq(Continuations)]
           /\ micro \in Seq(Continuations)
           /\ target \in BOOLEAN /\ crossed \in BOOLEAN /\ disposed \in BOOLEAN
           /\ calls \in 0..MaxCalls /\ faults \in 0..MaxFaults /\ faults \in Nat
           /\ MaxFaults \in Nat /\ MaxSockets \in Nat \ {0}
BY ConnectionAssumption DEF Shape, TypeOK, Known, ConnectionAssumption

\* A step that leaves the attempt and the queues as they are.
LEMMA TurnKept ==
    ASSUME Shape, UNCHANGED <<stopRequested, generation, timer, calls, crossed>>,
           UNCHANGED <<waiting, micro>>, state' \in States, Len(sockets') \in Nat
    PROVE  Turn
BY Typed, QueuesKept DEF Turn

\* A microtask that awaits nothing.
LEMMA TurnShift ==
    ASSUME Shape, ~Idle, micro' = Rest, waiting' = waiting, state' \in States,
           UNCHANGED <<generation, timer, calls, crossed>>,
           stopRequested' \in BOOLEAN
    PROVE  Turn
<1>1. TypeOK
  BY DEF Shape
<1> QED BY <1>1, Typed, QueuesShift DEF Turn

\* A future completes.
LEMMA TurnComplete ==
    ASSUME Shape, NEW f \in Futures, Complete(f), state' = state,
           UNCHANGED <<stopRequested, generation, timer, calls, crossed>>
    PROVE  Turn
<1>1. TypeOK
  BY DEF Shape
<1>2. /\ micro' \in Seq(Continuations) /\ waiting' \in [Futures -> Seq(Continuations)]
      /\ Here' = Asleep(f) /\ Asleep(f)' = {}
      /\ \A g \in Futures \ {f} : Asleep(g)' = Asleep(g)
  BY <1>1, CompleteEffect
<1>3. \A k \in Continuations : Pending(k)' => Pending(k)
  BY <1>2 DEF Pending
<1> QED BY <1>2, <1>3, Typed DEF Turn

\* A microtask that goes to sleep again, or back to the queue, as c.
LEMMA TurnAwait ==
    ASSUME Shape, ~Idle, NEW c \in Continuations, Carried(c),
           NEW what \in {"ready", "close", "cancel"}, NEW s \in Sockets \cup {Null},
           Await(c, Future(what, s), Rest), UNCHANGED <<state, sockets>>,
           UNCHANGED <<stopRequested, generation, timer, calls, crossed>>
    PROVE  Turn
<1> DEFINE w == Future(what, s)
<1>1. TypeOK
  BY DEF Shape
<1>2. Rest \in Seq(Continuations) /\ Here = Elems(Rest) \cup {Head(micro)}
  BY <1>1, HeadEffect
<1>3. /\ micro' \in Seq(Continuations) /\ waiting' \in [Futures -> Seq(Continuations)]
      /\ \/ waiting' = waiting /\ Here' = Elems(Rest) \cup {c}
         \/ /\ Here' = Elems(Rest) /\ w \in Futures
            /\ Asleep(w)' = Asleep(w) \cup {c}
            /\ \A f \in Futures \ {w} : Asleep(f)' = Asleep(f)
  BY <1>1, <1>2, AwaitEffect
<1>4. \A k \in Continuations : Pending(k)' => Pending(k) \/ k = c
  <2> HIDE DEF w
  <2>1. CASE waiting' = waiting /\ Here' = Elems(Rest) \cup {c}
    BY <1>2, <2>1 DEF Pending, Asleep
  <2>2. CASE ~(waiting' = waiting /\ Here' = Elems(Rest) \cup {c})
    BY <1>2, <1>3, <2>2 DEF Pending
  <2> QED BY <2>1, <2>2
<1>5. Carried(c)'
  BY DEF Carried
<1> QED BY <1>3, <1>4, <1>5, Typed DEF Turn

LEMMA BeginShape == ASSUME Shape, NEW goal \in Goals, Begin(goal) PROVE Shape'
<1>1. /\ Stop(goal, generation, subscription, <<>>) /\ listening' \subseteq listening
      /\ UNCHANGED <<fired, channel, subscription, state, sockets, closing, completed,
                     target, disposed, faults>>
  BY DEF Begin
<1>2. Turn
  <2>1. Elems(<<>>) \subseteq Here /\ <<>> \in Seq(Continuations)
    BY ElemsEmpty
  <2>2. /\ generation \in Nat /\ generation >= generation
        /\ subscription \in Sockets \cup {Null}
        /\ state' \in States /\ Len(sockets') \in Nat
    BY <1>1, Typed, Numbers
  <2> QED BY <1>1, <2>1, <2>2, StopTurn
<1>3. Wire
  BY <1>1, Typed DEF Wire
<1> QED BY <1>2, <1>3, ShapeFrom

LEMMA CancelledShape == Shape /\ Cancelled => Shape'
<1> SUFFICES ASSUME Shape, Cancelled PROVE Shape'
  OBVIOUS
<1>1. PICK goal \in Goals : goal = Head(micro).goal
  <2>1. Head(micro) \in Continuations
    BY HeadEffect DEF Shape, Cancelled
  <2> QED BY <2>1 DEF Continuations
<1> DEFINE c == Call("closed", goal)
<1>2. /\ ~Idle /\ subscription' = Null /\ closing' = closing \cup ({channel} \ {Null})
      /\ Await(c, Future("close", channel), Rest)
      /\ UNCHANGED <<fired, channel, state, sockets, listening, completed, target, crossed,
                     disposed, calls, faults, stopRequested, generation, timer>>
  BY <1>1 DEF Cancelled, history, token
<1>3. c \in Continuations /\ Carried(c)
  <2>1. c \in Continuations /\ IsStop(c) /\ c.socket = 0 /\ c.gen = 0
    BY CallType
  <2> HIDE DEF c
  <2> QED BY <2>1, Typed DEF Carried
<1>4. Turn
  <2> HIDE DEF c
  <2> QED BY <1>2, <1>3, TurnAwait, Numbers
<1>5. Wire
  BY <1>2, Typed DEF Wire, Null
<1> QED BY <1>4, <1>5, ShapeFrom

LEMMA ClosedShape == Shape /\ Closed => Shape'
<1> SUFFICES ASSUME Shape, Closed PROVE Shape'
  OBVIOUS
<1>1. /\ ~Idle /\ channel' = Null /\ state' = "disconnected" /\ micro' = Rest
      /\ UNCHANGED <<fired, subscription, sockets, closing, listening, completed, waiting,
                     target, crossed, disposed, calls, faults,
                     stopRequested, generation, timer>>
  BY DEF Closed, history, token
<1>2. Turn
  BY <1>1, TurnShift, Typed DEF States
<1>3. Wire
  BY <1>1, Typed DEF Wire, Null
<1> QED BY <1>2, <1>3, ShapeFrom

LEMMA ConnectShape == Shape /\ Connect => Shape'
<1> SUFFICES ASSUME Shape, Connect PROVE Shape'
  OBVIOUS
<1>1. ~Idle /\ target' \in BOOLEAN /\ fired' = fired
  BY DEF Connect
<1>2. Rest \in Seq(Continuations) /\ Elems(Rest) \subseteq Here
  BY <1>1, HeadEffect DEF Shape
<1>3. CASE Dial(generation + 1, Null, Rest)
  <2>1. generation + 1 \in Nat /\ generation + 1 >= generation
    BY Typed
  <2> QED BY <1>1, <1>2, <1>3, <2>1, DialShape
<1>4. CASE /\ stopRequested' = FALSE /\ state' = "error" /\ micro' = Rest
           /\ channel' = Null
           /\ UNCHANGED <<generation, timer, subscription, sockets, closing, listening,
                          completed, waiting, crossed, disposed, calls, faults>>
  <2>1. Turn
    BY <1>1, <1>4, TurnShift DEF States
  <2>2. Wire
    BY <1>1, <1>4, Typed DEF Wire, Null
  <2> QED BY <2>1, <2>2, ShapeFrom
<1> QED BY <1>3, <1>4 DEF Connect

LEMMA FireShape == Shape /\ Fire => Shape'
<1> SUFFICES ASSUME Shape, Fire PROVE Shape'
  OBVIOUS
<1>1. /\ fired' = fired \cup {timer} /\ timer' = 0
      /\ UNCHANGED <<stopRequested, generation, channel, subscription, state, sockets,
                     closing, listening, target, crossed, disposed, calls, faults,
                     completed, waiting, micro>>
  BY DEF Fire, history, queue, Null
<1>2. Turn
  BY <1>1, Typed, QueuesKept DEF Turn
<1>3. Wire
  BY <1>1, Typed DEF Wire
<1> QED BY <1>2, <1>3, ShapeFrom

LEMMA ReopenShape == ASSUME Shape, NEW g \in fired, Reopen(g) PROVE Shape'
<1>1. fired' \subseteq fired /\ target' = target
  BY DEF Reopen
<1>2. CASE Stale(g)
  <2>1. /\ UNCHANGED <<channel, subscription, state, sockets, closing, listening,
                       crossed, calls, disposed, faults, stopRequested, generation, timer,
                       completed, waiting, micro>>
    BY <1>2 DEF Reopen, token, queue
  <2>2. Turn
    BY <2>1, TurnKept, Typed
  <2>3. Wire
    BY <1>1, <2>1, Typed DEF Wire
  <2> QED BY <2>2, <2>3, ShapeFrom
<1>3. CASE ~Stale(g)
  <2>1. Dial(generation, channel, <<>>)
    BY <1>3 DEF Reopen
  <2>2. Elems(<<>>) \subseteq Here /\ <<>> \in Seq(Continuations)
    BY ElemsEmpty
  <2>3. generation \in Nat /\ generation >= generation /\ target' \in BOOLEAN
    BY <1>1, Typed
  <2> QED BY <1>1, <2>1, <2>2, <2>3, DialShape
<1> QED BY <1>2, <1>3

LEMMA OpenedShape == Shape /\ Opened => Shape'
<1> SUFFICES ASSUME Shape, Opened PROVE Shape'
  OBVIOUS
<1>1. /\ ~Idle /\ Head(micro).then = "ready" /\ micro' = Rest
      /\ UNCHANGED <<fired, channel, sockets, completed, waiting, target, crossed, disposed,
                     calls, faults, stopRequested, generation, timer>>
  BY DEF Opened, history, token
<1>2. Head(micro).socket \in Known
  <2>1. Head(micro) \in Here /\ ~IsStop(Head(micro))
    BY <1>1, HeadEffect DEF Shape, IsStop
  <2> QED BY <2>1, Numbers
<1>3. /\ subscription' \in {subscription, Head(micro).socket}
      /\ closing' \subseteq closing \cup {Head(micro).socket}
      /\ listening' \subseteq listening \cup {Head(micro).socket}
      /\ state' \in {state, "connected"}
  BY DEF Opened
<1>4. Turn
  <2>1. state' \in States
    BY <1>3, Typed DEF States
  <2> QED BY <1>1, <2>1, TurnShift, Typed
<1>5. Wire
  <2>1. /\ closing' \subseteq 1..Len(sockets') /\ listening' \subseteq 1..Len(sockets')
        /\ subscription' \in 0..Len(sockets')
    BY <1>1, <1>2, <1>3, Typed
  <2> QED BY <1>1, <2>1, Typed DEF Wire
<1> QED BY <1>4, <1>5, ShapeFrom

LEMMA RefusedShape == Shape /\ Refused => Shape'
<1> SUFFICES ASSUME Shape, Refused PROVE Shape'
  OBVIOUS
<1> DEFINE k == Head(micro)
<1>1. /\ ~Idle /\ k.then = "ready" /\ closing' = closing \cup {k.socket}
      /\ UNCHANGED <<fired, subscription, state, sockets, listening, completed, target,
                     crossed, disposed, calls, faults, stopRequested, generation, timer>>
  BY DEF Refused, history, token
<1>2. k \in Continuations /\ Carried(k) /\ k.socket \in Known /\ k.socket \in Sockets
  <2>1. k \in Here /\ k \in Continuations /\ ~IsStop(k)
    BY <1>1, HeadEffect DEF Shape, IsStop
  <2>2. Carried(k)
    BY <2>1 DEF Shape, Pending
  <2> QED BY <2>1, <2>2, Numbers
<1>3. PICK s \in Sockets, g \in Nat : s = k.socket /\ g = k.gen
  BY <1>2 DEF Continuations
<1>4. Turn /\ channel' \in {channel, 0}
  <2>1. CASE Stale(k.gen)
    <3>1. micro' = Rest /\ channel' = channel /\ waiting' = waiting
      BY <2>1 DEF Refused
    <3> QED BY <1>1, <3>1, TurnShift, Typed
  <2>2. CASE ~Stale(k.gen)
    <3> DEFINE c == Open("failed", g, s)
    <3>1. channel' = 0 /\ Await(c, Future("close", s), Rest)
      BY <1>3, <2>2 DEF Refused, Null
    <3>2. c \in Continuations /\ Carried(c)
      <4>1. c \in Continuations /\ c.socket = s /\ c.gen = g /\ ~IsStop(c)
        BY OpenType
      <4>2. s <= Len(sockets) /\ g <= generation /\ s # Null
        BY <1>2, <1>3 DEF Carried, Sockets, Null
      <4> HIDE DEF c
      <4> QED BY <4>1, <4>2 DEF Carried
    <3> HIDE DEF c
    <3> QED BY <1>1, <3>1, <3>2, TurnAwait
  <2> QED BY <2>1, <2>2
<1>5. Wire
  <2> HIDE DEF k
  <2> QED BY <1>1, <1>2, <1>4, Typed DEF Wire
<1> QED BY <1>4, <1>5, ShapeFrom

LEMMA ReportShape == Shape /\ Report => Shape'
<1> SUFFICES ASSUME Shape, Report PROVE Shape'
  OBVIOUS
<1>1. /\ ~Idle /\ ReportError(stopRequested, generation, subscription, Rest)
      /\ listening' \subseteq listening
      /\ UNCHANGED <<fired, channel, subscription, sockets, closing, completed, target,
                     disposed, faults>>
  BY DEF Report, StillHeard
<1>2. Rest \in Seq(Continuations) /\ Elems(Rest) \subseteq Here
  BY <1>1, HeadEffect DEF Shape
<1>3. Turn
  <2>1. /\ generation \in Nat /\ generation >= generation /\ stopRequested \in BOOLEAN
        /\ subscription \in Sockets \cup {Null} /\ Len(sockets') \in Nat
    BY <1>1, Typed, Numbers
  <2> QED BY <1>1, <1>2, <2>1, ReportTurn
<1>4. Wire
  BY <1>1, Typed DEF Wire
<1> QED BY <1>3, <1>4, ShapeFrom

LEMMA SocketShape ==
    ASSUME Shape, NEW s \in Known,
           SocketOpens(s) \/ SocketFails(s) \/ SocketCloses(s) \/ CancelCompletes(s)
    PROVE  Shape'
<1>1. /\ UNCHANGED <<fired, channel, subscription, state, closing, listening, target,
                     crossed, disposed, calls, stopRequested, generation, timer>>
      /\ \/ sockets' = sockets
         \/ \E v \in {"open", "dead"} : sockets' = [sockets EXCEPT ![s] = v]
  BY DEF SocketOpens, SocketFails, SocketCloses, CancelCompletes, history, token
<1>2. PICK what \in {"ready", "close", "cancel"} : Complete(Future(what, s))
  BY DEF SocketOpens, SocketFails, SocketCloses, CancelCompletes
<1>3. Future(what, s) \in Futures /\ completed' = completed \cup {Future(what, s)}
  <2>1. s \in Sockets
    BY Typed DEF Sockets
  <2> QED BY <1>2, <2>1, FutureType DEF Complete
<1>4. Turn
  <2>1. PICK f \in Futures : Complete(f)
    BY <1>2, <1>3
  <2> QED BY <1>1, <2>1, TurnComplete
<1>5. faults' \in 0..MaxFaults
  <2>1. CASE SocketFails(s)
    <3>1. IF s \in closing THEN faults' = faults ELSE Fault
      BY <2>1 DEF SocketFails
    <3> QED BY <3>1, Typed DEF Fault
  <2>2. CASE SocketOpens(s) \/ SocketCloses(s) \/ CancelCompletes(s)
    <3>1. faults' = faults
      BY <2>2 DEF SocketOpens, SocketCloses, CancelCompletes
    <3> QED BY <3>1, Typed
  <2> QED BY <2>1, <2>2
<1>6. sockets' \in Seq({"opening", "open", "dead"}) /\ Len(sockets') = Len(sockets)
  <2>1. ASSUME NEW v \in {"open", "dead"}, sockets' = [sockets EXCEPT ![s] = v]
        PROVE  sockets' \in Seq({"opening", "open", "dead"}) /\ Len(sockets') = Len(sockets)
    BY <2>1, Typed
  <2> QED BY <1>1, <2>1, Typed
<1>7. Wire
  BY <1>1, <1>3, <1>5, <1>6, Typed DEF Wire
<1> QED BY <1>4, <1>7, ShapeFrom

LEMMA PeerDropsShape == ASSUME Shape, NEW s \in Known, PeerDrops(s) PROVE Shape'
<1>1. /\ Idle /\ sockets' = [sockets EXCEPT ![s] = "dead"]
      /\ listening' \subseteq listening
      /\ UNCHANGED <<fired, channel, subscription, closing, completed, target, disposed>>
  BY DEF PeerDrops, StillHeard
<1>2. sockets' \in Seq({"opening", "open", "dead"}) /\ Len(sockets') = Len(sockets)
  BY <1>1, Typed
<1>3. Turn
  <2>1. CASE stopRequested
    <3>1. UNCHANGED <<stopRequested, generation, timer, calls, crossed, waiting, micro, state>>
      BY <2>1 DEF PeerDrops, token
    <3> QED BY <1>2, <3>1, TurnKept, Typed
  <2>2. CASE ~stopRequested
    <3>1. ReportError(stopRequested, generation, subscription, <<>>)
      BY <2>2 DEF PeerDrops
    <3>2. Elems(<<>>) \subseteq Here /\ <<>> \in Seq(Continuations)
      BY ElemsEmpty
    <3>3. /\ generation \in Nat /\ generation >= generation /\ stopRequested \in BOOLEAN
          /\ subscription \in Sockets \cup {Null} /\ Len(sockets') \in Nat
      BY <1>2, Typed, Numbers
    <3> QED BY <3>1, <3>2, <3>3, ReportTurn
  <2> QED BY <2>1, <2>2
<1>4. faults' \in 0..MaxFaults
  <2>1. faults' = faults \/ Fault
    BY DEF PeerDrops
  <2> QED BY <2>1, Typed DEF Fault
<1>5. Wire
  BY <1>1, <1>2, <1>4, Typed DEF Wire
<1> QED BY <1>3, <1>5, ShapeFrom

LEMMA DisposeShape == Shape /\ Dispose => Shape'
<1> SUFFICES ASSUME Shape, Dispose PROVE Shape'
  OBVIOUS
<1>1. /\ disposed' = TRUE /\ stopRequested' = TRUE /\ generation' = generation + 1
      /\ timer' = 0 /\ Drop(channel) /\ channel' = 0
      /\ UNCHANGED <<fired, state, sockets, target, crossed, calls, faults, completed,
                     waiting, micro>>
  BY DEF Dispose, history, queue, Null
<1>2. subscription' = 0 /\ closing' \subseteq Known /\ listening' \subseteq Known
  BY <1>1, DropWire DEF Null
<1>3. Turn
  BY <1>1, Typed, QueuesKept DEF Turn
<1>4. Wire
  BY <1>1, <1>2, Typed DEF Wire
<1> QED BY <1>3, <1>4, ShapeFrom

LEMMA ShapeInit == Init => Shape
<1> SUFFICES ASSUME Init PROVE Shape
  OBVIOUS
<1>1. /\ stopRequested = FALSE /\ generation = 0 /\ timer = 0 /\ fired = {}
      /\ channel = 0 /\ subscription = 0 /\ state = "disconnected"
      /\ sockets = <<>> /\ closing = {} /\ listening = {}
      /\ completed = {} /\ waiting = [f \in Futures |-> <<>>] /\ micro = <<>>
      /\ target = FALSE /\ crossed = FALSE /\ disposed = FALSE /\ calls = 0 /\ faults = 0
  BY DEF Init, Null
<1>2. TypeOK
  <2>1. /\ Len(sockets) = 0 /\ sockets \in Seq({"opening", "open", "dead"})
        /\ micro \in Seq(Continuations)
    BY <1>1
  <2>2. waiting \in [Futures -> Seq(Continuations)]
    BY <1>1
  <2>3. MaxCalls \in Nat /\ MaxSockets \in Nat /\ MaxFaults \in Nat
    BY ConnectionAssumption DEF ConnectionAssumption
  <2>4. /\ fired \in SUBSET (0..generation)
        /\ channel \in 0..Len(sockets) /\ subscription \in 0..Len(sockets)
        /\ generation \in Nat /\ timer \in Nat /\ Len(sockets) <= MaxSockets
        /\ calls \in 0..MaxCalls /\ faults \in 0..MaxFaults
    BY <1>1, <2>1, <2>3
  <2> QED BY <1>1, <2>1, <2>2, <2>4 DEF TypeOK, States, Known
<1>3. Here = {} /\ \A f \in Futures : Asleep(f) = {}
  BY <1>1, ElemsEmpty DEF Here, Asleep
<1> QED BY <1>1, <1>2, <1>3 DEF Shape, Pending

LEMMA ShapeStep == Shape /\ [Next]_vars => Shape'
<1> SUFFICES ASSUME Shape, [Next]_vars PROVE Shape'
  OBVIOUS
<1>1. CASE UNCHANGED vars
  BY <1>1 DEF Shape, TypeOK, Known, Pending, Carried, Here, Asleep, vars
<1>2. CASE Microtask
  BY <1>2, CancelledShape, ClosedShape, ConnectShape, OpenedShape, RefusedShape, ReportShape
  DEF Microtask
<1>3. CASE Next /\ ~Microtask
  BY <1>3, FireShape, DisposeShape, BeginShape, ReopenShape, SocketShape, PeerDropsShape
  DEF Next
<1> QED BY <1>1, <1>2, <1>3

\* The types, and that nothing is remembered of a socket before it exists.
THEOREM Typing == Spec => []TypeOK
<1>1. Shape => TypeOK
  BY DEF Shape
<1> QED BY <1>1, ShapeInit, ShapeStep, PTL DEF Spec

-----------------------------------------------------------------------------
(* What holds as long as no stop was requested behind a connect still to dial *)

\* Who waits for a future waits for one that is to complete; an attempt waits alone,
\* and a failed one for a socket that was given up.
Waits ==
    \A f \in Futures : \A k \in Asleep(f) :
        /\ f \notin completed /\ f.socket \in Known
        /\ k.then = "cancelled" => f.what = "cancel"
        /\ k.then = "closed" => f.what = "close"
        /\ k.then = "ready" => f = Future("ready", k.socket)
        /\ k.then = "failed" => f = Future("close", k.socket) /\ k.socket # channel
        /\ ~IsStop(k) => waiting[f] = <<k>>

\* An attempt also runs alone.
Runs ==
    /\ \A f \in completed : f.socket \in Known
    /\ \A k \in Here : /\ k.then = "ready" => Future("ready", k.socket) \in completed
                       /\ ~IsStop(k) => micro = <<k>>

\* a may stand before b in a queue: those that cancelled before those that closed,
\* and no other stop behind a connect.
Before(a, b) ==
    /\ a.then = "closed" /\ IsStop(b) => b.then = "closed"
    /\ IsStop(a) /\ b.then = a.then /\ a.goal = "connect" => b.goal = "connect"

Ordered(q) == \A i, j \in 1..Len(q) : i < j => Before(q[i], q[j])

Queues == Ordered(micro) /\ \A f \in Futures : Ordered(waiting[f])

\* The stops that wait for a subscription are the only stops there are.
Cancels ==
    \A f \in Futures : \A k \in Asleep(f) : k.then = "cancelled" =>
        /\ \A j \in Here : ~IsStop(j)
        /\ \A g \in Futures : \A j \in Asleep(g) : IsStop(j) => g = f
        /\ ~disposed => f.socket = subscription

\* The stops that wait for a socket wait for the channel, and all of them do.
Closes ==
    /\ \A f \in Futures : \A k \in Asleep(f) : k.then = "closed" =>
          /\ \A j \in Here : j.then # "closed"
          /\ \A g \in Futures : \A j \in Asleep(g) : j.then = "closed" => g = f
          /\ ~disposed => f.socket = channel
          /\ disposed => \A j \in Here : j.then # "cancelled"
    /\ \A k, j \in Here : k.then = "cancelled" /\ j.then = "closed" =>
          channel = Null \/ Future("close", channel) \in completed

\* A connect that has closed the channel leaves no other stop behind.
GoalOrder ==
    \A k, j \in Continuations :
        Pending(k) /\ Pending(j) /\ k.then = "closed" /\ k.goal = "connect"
            /\ j.then = "cancelled" => j.goal = "connect"

\* What a stop has silenced, at each of its stages.
Stopping ==
    /\ \A k \in Continuations : Pending(k) /\ k.then = "cancelled" => stopRequested
    /\ \A f \in Futures : \A k \in Asleep(f) : k.then = "closed" => stopRequested
    /\ \A k \in Continuations : Pending(k) /\ k.then = "closed" => subscription = Null
    /\ listening \subseteq {subscription}
    /\ stopRequested => timer = Null /\ listening = {}
    /\ stopRequested /\ disposed => channel = Null
    /\ stopRequested /\ ~disposed =>
          \/ \E k \in Continuations : Pending(k) /\ IsStop(k)
          \/ channel = Null /\ state \in {"disconnected", "error"}

\* An attempt will still see what became of the socket.
Sought(s) == \E k \in Continuations : Pending(k) /\ k.then = "ready" /\ k.socket = s

\* The attempt of the newest token owns the channel, and no timer has its token.
Attempt ==
    /\ \A k \in Continuations : Pending(k) /\ k.then = "ready" /\ k.gen = generation =>
          /\ ~stopRequested /\ state # "connected"
          /\ k.socket = channel /\ channel \notin closing /\ listening = {}
          /\ timer # generation /\ generation \notin fired
          /\ \A j \in Here : j.then = "closed" => j.goal = "connect"
    /\ \A k \in Continuations : Pending(k) /\ k.then = "closed" =>
          channel = Null \/ channel \in closing \/ Sought(channel)
    /\ ~(timer = generation /\ generation \in fired) /\ Null \notin fired

Live == state = "connected" /\ ~stopRequested => channel # Null /\ channel \in listening

Owned == \A s \in Known : sockets[s] # "dead" /\ s \notin closing => s = channel \/ Sought(s)

Core ==
    /\ Waits /\ Runs /\ Queues
    /\ Cancels /\ Closes /\ GoalOrder /\ Stopping
    /\ Attempt /\ Live /\ Owned

ConnInv == Shape /\ (~crossed => Core)

LEMMA OrderedShort == Ordered(<<>>) /\ \A k \in Continuations : Ordered(<<k>>)
BY DEF Ordered

LEMMA OrderedAppend ==
    ASSUME NEW q \in Seq(Continuations), NEW k \in Continuations, Ordered(q),
           \A a \in Elems(q) : Before(a, k)
    PROVE  Ordered(Append(q, k))
<1>1. Len(Append(q, k)) = Len(q) + 1 /\ Len(q) \in Nat /\ Append(q, k)[Len(q) + 1] = k
  OBVIOUS
<1>2. \A i \in 1..Len(q) : Append(q, k)[i] = q[i]
  OBVIOUS
<1> SUFFICES ASSUME NEW i \in 1..Len(Append(q, k)), NEW j \in 1..Len(Append(q, k)), i < j
             PROVE  Before(Append(q, k)[i], Append(q, k)[j])
  BY DEF Ordered
<1>3. i \in 1..Len(q)
  BY <1>1
<1>4. CASE j = Len(q) + 1
  BY <1>1, <1>2, <1>3, <1>4 DEF Elems
<1>5. CASE j \in 1..Len(q)
  BY <1>2, <1>3, <1>5 DEF Ordered
<1> QED BY <1>1, <1>4, <1>5

LEMMA OrderedTail ==
    ASSUME NEW q \in Seq(Continuations), q # <<>>, Ordered(q)
    PROVE  Ordered(Tail(q)) /\ \A a \in Elems(Tail(q)) : Before(Head(q), a)
<1>1. /\ Len(q) \in Nat \ {0} /\ Len(Tail(q)) = Len(q) - 1 /\ Head(q) = q[1]
      /\ \A i \in 1..Len(Tail(q)) : Tail(q)[i] = q[i + 1] /\ i + 1 \in 1..Len(q)
  OBVIOUS
<1>2. Ordered(Tail(q))
  <2> SUFFICES ASSUME NEW i \in 1..Len(Tail(q)), NEW j \in 1..Len(Tail(q)), i < j
               PROVE  Before(Tail(q)[i], Tail(q)[j])
    BY DEF Ordered
  <2>1. i + 1 < j + 1
    BY <1>1
  <2> QED BY <1>1, <2>1 DEF Ordered
<1>3. ASSUME NEW i \in 1..Len(Tail(q)) PROVE Before(Head(q), Tail(q)[i])
  <2>1. 1 \in 1..Len(q) /\ 1 < i + 1
    BY <1>1
  <2> QED BY <1>1, <2>1 DEF Ordered
<1> QED BY <1>2, <1>3 DEF Elems

\* The part of Core that is about the queues.
Lines == Waits /\ Runs /\ Queues /\ Cancels /\ Closes /\ GoalOrder

-----------------------------------------------------------------------------
(* The queues, step by step *)

\* They stay as they are; a channel or a subscription is given up by dispose,
\* or when no stop waits.
LEMMA LinesKept ==
    ASSUME Shape, Lines, UNCHANGED <<micro, waiting, completed>>, Known \subseteq Known',
           disposed => disposed', disposed' => disposed \/ Here = {},
           \/ disposed' \/ UNCHANGED <<channel, subscription>>
           \/ \A f \in Futures : \A k \in Asleep(f) : ~IsStop(k),
           channel' \in {channel, 0}
    PROVE  Lines'
<1>1. Here' = Here /\ \A f \in Futures : Asleep(f)' = Asleep(f)
  BY DEF Here, Asleep
<1>2. \A f \in Futures : \A k \in Asleep(f) : k.then = "failed" => k.socket # 0
  BY ElemsType DEF Shape, Pending, Carried, IsStop, Null
<1>3. Waits'
  BY <1>1, <1>2 DEF Lines, Waits, IsStop
<1>4. Runs'
  BY <1>1 DEF Lines, Runs
<1>5. Queues'
  BY DEF Lines, Queues
<1>6. Cancels'
  BY <1>1 DEF Lines, Cancels, IsStop
<1>7. Closes'
  BY <1>1 DEF Lines, Closes, Null, IsStop
<1>8. GoalOrder'
  BY <1>1 DEF Lines, GoalOrder, Pending
<1> QED BY <1>3, <1>4, <1>5, <1>6, <1>7, <1>8 DEF Lines

\* The head of the queue has run.
LEMMA LinesShift ==
    ASSUME Shape, Lines, ~Idle, micro' = Rest, UNCHANGED <<waiting, completed, disposed>>,
           Known \subseteq Known',
           \/ subscription' = subscription
           \/ \A f \in Futures : \A k \in Asleep(f) : k.then # "cancelled",
           \/ channel' = channel
           \/ channel' = 0 /\ \A f \in Futures : \A k \in Asleep(f) : k.then # "closed"
    PROVE  Lines'
<1>1. /\ Here' = Elems(Rest) /\ Here = Elems(Rest) \cup {Head(micro)}
      /\ Rest \in Seq(Continuations)
      /\ \A f \in Futures : Asleep(f)' = Asleep(f)
  BY HeadEffect DEF Shape, Here, Asleep
<1>2. \A f \in Futures : \A k \in Asleep(f) : k.then = "failed" => k.socket # 0
  BY ElemsType DEF Shape, Pending, Carried, IsStop, Null
<1>3. Waits'
  BY <1>1, <1>2 DEF Lines, Waits, IsStop
<1>4. Runs'
  <2>1. ASSUME NEW k \in Here', ~IsStop(k) PROVE FALSE
    <3>1. k \in Here /\ micro = <<k>>
      BY <1>1, <2>1 DEF Lines, Runs
    <3>2. Rest = <<>>
      BY <3>1 DEF Rest
    <3> QED BY <1>1, <2>1, <3>2, ElemsEmpty
  <2> QED BY <2>1 DEF Lines, Runs, IsStop
<1>5. Queues'
  <2>1. micro \in Seq(Continuations) /\ micro # <<>>
    BY Typed DEF Idle
  <2>2. Ordered(Rest)
    BY <2>1, OrderedTail DEF Lines, Queues, Rest
  <2> QED BY <2>2 DEF Lines, Queues
<1>6. Cancels'
  BY <1>1 DEF Lines, Cancels
<1>7. Closes'
  BY <1>1 DEF Lines, Closes, Null
<1>8. GoalOrder'
  BY <1>1 DEF Lines, GoalOrder, Pending
<1> QED BY <1>3, <1>4, <1>5, <1>6, <1>7, <1>8 DEF Lines

\* A future has completed.
LEMMA LinesComplete ==
    ASSUME Shape, Lines, NEW f \in Futures, f.socket \in Known, Complete(f),
           UNCHANGED <<channel, subscription, disposed>>, Known \subseteq Known'
    PROVE  Lines'
<1>1. /\ Here = {} /\ completed' = completed \cup {f}
      /\ micro' = waiting[f] /\ Here' = Asleep(f)
      /\ waiting'[f] = <<>> /\ Asleep(f)' = {}
      /\ \A g \in Futures \ {f} : waiting'[g] = waiting[g] /\ Asleep(g)' = Asleep(g)
  BY CompleteEffect DEF Shape
<1>2. Waits'
  BY <1>1 DEF Lines, Waits, IsStop
<1>3. Runs'
  <2>1. \A g \in completed' : g.socket \in Known'
    BY <1>1 DEF Lines, Runs
  <2>2. ASSUME NEW k \in Asleep(f)
        PROVE  /\ k.then = "ready" => Future("ready", k.socket) \in completed'
               /\ ~IsStop(k) => micro' = <<k>>
    BY <1>1 DEF Lines, Waits
  <2> QED BY <1>1, <2>1, <2>2 DEF Runs, IsStop
<1>4. Queues'
  <2>1. ASSUME NEW g \in Futures PROVE Ordered(waiting'[g])
    BY <1>1, OrderedShort DEF Lines, Queues
  <2> QED BY <1>1, <2>1 DEF Lines, Queues
<1>5. Cancels'
  <2>1. ASSUME NEW g \in Futures, NEW k \in Asleep(g)', k.then = "cancelled"
        PROVE  /\ \A j \in Here' : ~IsStop(j)
               /\ \A e \in Futures : \A j \in Asleep(e)' : IsStop(j) => e = g
               /\ ~disposed => g.socket = subscription
    <3>1. g # f /\ k \in Asleep(g)
      BY <1>1, <2>1
    <3> QED BY <1>1, <2>1, <3>1 DEF Lines, Cancels
  <2> QED BY <2>1 DEF Cancels, IsStop
<1>6. Closes'
  <2>1. ASSUME NEW g \in Futures, NEW k \in Asleep(g)', k.then = "closed"
        PROVE  /\ \A j \in Here' : j.then # "closed"
               /\ \A e \in Futures : \A j \in Asleep(e)' : j.then = "closed" => e = g
               /\ ~disposed => g.socket = channel
               /\ \A j \in Here' : j.then # "cancelled"
    <3>1. g # f /\ k \in Asleep(g) /\ IsStop(k)
      BY <1>1, <2>1 DEF IsStop
    <3>2. \A j \in Asleep(f) : j.then # "cancelled"
      BY <3>1 DEF Lines, Cancels
    <3> QED BY <1>1, <2>1, <3>1, <3>2 DEF Lines, Closes
  <2>2. \A k, j \in Here' : ~(k.then = "cancelled" /\ j.then = "closed")
    BY <1>1 DEF Lines, Waits
  <2> QED BY <2>1, <2>2 DEF Closes
<1>7. GoalOrder'
  <2>1. \A k \in Continuations : Pending(k)' => Pending(k)
    BY <1>1 DEF Pending
  <2> QED BY <2>1 DEF Lines, GoalOrder
<1> QED BY <1>2, <1>3, <1>4, <1>5, <1>6, <1>7 DEF Lines

LEMMA FutureIs ==
    \A f \in Futures : f = Future(f.what, f.socket) /\ f.socket \in Sockets
BY DEF Futures, Future

LEMMA FutureDiffers ==
    ASSUME NEW s, NEW t
    PROVE  /\ Future("cancel", s) # Future("ready", t)
           /\ Future("cancel", s) # Future("close", t)
           /\ Future("close", s) # Future("ready", t)
<1>1. \A what, u : Future(what, u).what = what
  BY DEF Future
<1> QED BY <1>1

LEMMA Kinds == \A k \in Continuations : k.then \in {"cancelled", "closed", "ready", "failed"}
BY DEF Continuations

\* A connect that sleeps is still to dial.
LEMMA DialAsleep ==
    ASSUME Shape, NEW f \in Futures, NEW k \in Asleep(f), IsDial(k), NEW q
    PROVE  DialPending(q)
BY DEF DialPending, Asleep, Elems

\* A stop is requested in a turn that leaves nothing else to run.
LEMMA LinesStop ==
    ASSUME Shape, Lines, NEW goal \in Goals, NEW g \in Nat, NEW feed \in Known \cup {Null},
           Stop(goal, g, feed, <<>>), ~crossed',
           UNCHANGED <<completed, disposed>>, Known \subseteq Known',
           subscription' = feed,
           \A f \in Futures : \A k \in Asleep(f) : k.then = "closed" => feed = Null,
           \/ UNCHANGED <<channel, subscription>>
           \/ channel' = 0 /\ \A f \in Futures : \A k \in Asleep(f) : ~IsStop(k)
    PROVE  /\ Lines'
           /\ \A k \in Continuations : Pending(k)' =>
                 k = Call("cancelled", goal) \/ \E f \in Futures : k \in Asleep(f)
           /\ Pending(Call("cancelled", goal))'
           /\ \A f \in Futures : \A k \in Asleep(f) : Pending(k)'
<1> DEFINE c == Call("cancelled", goal)
           w == Future("cancel", feed)
<1>1. /\ c \in Continuations /\ IsStop(c) /\ c.then = "cancelled" /\ c.goal = goal
  BY CallType
<1>2. /\ w.what = "cancel" /\ w.socket = feed /\ (feed # Null => w \in Futures)
      /\ feed \in Sockets \cup {Null}
  <2>1. feed \in Sockets \cup {Null}
    BY Typed DEF Sockets
  <2> QED BY <2>1, FutureType
<1>3. /\ <<>> \in Seq(Continuations) /\ Elems(<<>>) = {}
      /\ \/ /\ feed = Null \/ w \in completed
            /\ micro' = Append(<<>>, c) /\ Here' = {c}
            /\ waiting' = waiting
         \/ /\ feed # Null /\ w \in Futures \ completed
            /\ micro' = <<>> /\ Here' = {}
            /\ waiting' = [waiting EXCEPT ![w] = Append(@, c)]
            /\ Asleep(w)' = Asleep(w) \cup {c}
            /\ \A f \in Futures \ {w} : Asleep(f)' = Asleep(f)
  <2>1. Await(c, w, <<>>) /\ TypeOK
    BY DEF Stop, Shape
  <2>2. <<>> \in Seq(Continuations) /\ Elems(<<>>) = {}
    BY ElemsEmpty
  <2> HIDE DEF c
  <2>3. \/ /\ feed = Null \/ w \in completed
           /\ micro' = Append(<<>>, c) /\ Here' = Elems(<<>>) \cup {c}
           /\ waiting' = waiting
        \/ /\ feed # Null /\ w \in Futures \ completed
           /\ micro' = <<>> /\ Here' = Elems(<<>>)
           /\ waiting' = [waiting EXCEPT ![w] = Append(@, c)]
           /\ Asleep(w)' = Asleep(w) \cup {c}
           /\ \A f \in Futures \ {w} : Asleep(f)' = Asleep(f)
    <3>1. feed \in Sockets \cup {Null}
      BY <1>2
    <3> QED BY <1>1, <3>1, <2>1, <2>2, AwaitEffect
  <2> HIDE DEF w
  <2> QED BY <2>2, <2>3
<1>4. ~disposed
  BY DEF Stop
<1>5. \A f \in Futures : \A k \in Asleep(f) : IsDial(k) => goal = "connect"
  <2>1. goal # "connect" => ~DialPending(<<>>)
    BY DEF Stop
  <2> QED BY <2>1, DialAsleep
<1>6. \A f \in Futures : \A k \in Asleep(f) : k.then = "cancelled" => f = w /\ feed # Null
  <2> SUFFICES ASSUME NEW f \in Futures, NEW k \in Asleep(f), k.then = "cancelled"
               PROVE  f = w /\ feed # Null
    OBVIOUS
  <2>1. f.what = "cancel" /\ f.socket = subscription /\ f.socket \in Known
    BY <1>4 DEF Lines, Waits, Cancels
  <2>2. subscription = feed
    BY DEF IsStop
  <2> QED BY <2>1, <2>2, FutureIs, Typed DEF Null
<1>7. \A f \in Futures : \A k \in Asleep(f) : k.then = "failed" => k.socket # 0
  BY ElemsType DEF Shape, Pending, Carried, IsStop, Null
<1>8. \A f \in Futures : Asleep(f) \subseteq Continuations
  BY ElemsType DEF Shape
<1> HIDE DEF c, w
<1>9. CASE waiting' = waiting /\ Here' = {c} /\ micro' = Append(<<>>, c)
           /\ (feed = Null \/ w \in completed)
  <2>1. \A f \in Futures : Asleep(f)' = Asleep(f)
    BY <1>9 DEF Asleep
  <2>2. Waits'
    BY <1>7, <1>9, <2>1 DEF Lines, Waits, IsStop
  <2>3. Runs'
    BY <1>1, <1>9 DEF Lines, Runs, IsStop
  <2>4. Queues'
    <3>1. micro' = <<c>>
      BY <1>9
    <3>2. Ordered(micro')
      BY <1>1, <3>1, OrderedShort
    <3> QED BY <1>9, <3>2 DEF Lines, Queues
  <2>5. \A f \in Futures : \A k \in Asleep(f) : k.then # "cancelled"
    BY <1>6, <1>9 DEF Lines, Waits
  <2>6. Cancels'
    BY <2>1, <2>5 DEF Cancels
  <2>7. Closes'
    <3>1. \A j \in Here' : j.then # "closed"
      BY <1>1, <1>9
    <3>2. ~disposed'
      BY <1>4
    <3>3. \A f \in Futures : \A k \in Asleep(f) : k.then = "closed" => channel' = channel
      BY DEF IsStop
    <3> QED BY <1>4, <2>1, <3>1, <3>2, <3>3 DEF Lines, Closes
  <2>8. GoalOrder'
    <3>1. \A k \in Continuations : Pending(k)' => k = c \/ \E f \in Futures : k \in Asleep(f)
      BY <1>9, <2>1 DEF Pending
    <3> QED BY <1>1, <1>5, <2>5, <3>1 DEF GoalOrder, IsDial, IsStop
  <2>9. \A k \in Continuations : Pending(k)' => k = c \/ \E f \in Futures : k \in Asleep(f)
    BY <1>9, <2>1 DEF Pending
  <2>10. Pending(c)' /\ \A f \in Futures : \A k \in Asleep(f) : Pending(k)'
    BY <1>9, <2>1 DEF Pending
  <2> QED BY <2>2, <2>3, <2>4, <2>6, <2>7, <2>8, <2>9, <2>10 DEF Lines, c
<1>10. CASE ~(waiting' = waiting /\ Here' = {c} /\ micro' = Append(<<>>, c)
              /\ (feed = Null \/ w \in completed))
  <2>1. /\ feed # Null /\ w \in Futures \ completed
        /\ micro' = <<>> /\ Here' = {}
        /\ waiting' = [waiting EXCEPT ![w] = Append(@, c)]
        /\ Asleep(w)' = Asleep(w) \cup {c}
        /\ \A f \in Futures \ {w} : Asleep(f)' = Asleep(f)
    BY <1>3, <1>10
  <2>2. /\ waiting'[w] = Append(waiting[w], c) /\ waiting[w] \in Seq(Continuations)
        /\ \A f \in Futures \ {w} : waiting'[f] = waiting[f]
    BY <2>1, Typed
  <2>3. \A k \in Asleep(w) : k.then = "cancelled"
    <3>1. \A k \in Asleep(w) : k.then \in {"cancelled", "closed", "ready", "failed"}
      BY <1>8, <2>1, Kinds
    <3>2. \A s : w # Future("ready", s) /\ w # Future("close", s)
      BY FutureDiffers DEF w
    <3> QED BY <1>2, <2>1, <3>1, <3>2 DEF Lines, Waits
  <2>4. \A f \in Futures : \A k \in Asleep(f) : k.then # "closed"
    BY <2>1
  <2>5. Waits'
    <3>1. ASSUME NEW f \in Futures, f # w, NEW k \in Asleep(f)'
          PROVE  /\ f \notin completed' /\ f.socket \in Known'
                 /\ k.then = "cancelled" => f.what = "cancel"
                 /\ k.then = "closed" => f.what = "close"
                 /\ k.then = "ready" => f = Future("ready", k.socket)
                 /\ k.then = "failed" => f = Future("close", k.socket) /\ k.socket # channel'
                 /\ ~IsStop(k) => waiting'[f] = <<k>>
      <4>1. k \in Asleep(f) /\ waiting'[f] = waiting[f]
        BY <2>1, <2>2, <3>1
      <4> QED BY <1>7, <4>1 DEF Lines, Waits
    <3>2. /\ w \notin completed' /\ w.socket \in Known'
          /\ \A k \in Asleep(w)' : k.then = "cancelled" /\ w.what = "cancel" /\ IsStop(k)
      BY <1>1, <1>2, <2>1, <2>3 DEF IsStop
    <3> QED BY <3>1, <3>2 DEF Waits, IsStop
  <2>6. Runs'
    BY <2>1 DEF Lines, Runs
  <2>7. Queues'
    <3>1. \A a \in Asleep(w) : Before(a, c)
      BY <1>1, <1>5, <2>1, <2>3 DEF Before, IsDial, IsStop
    <3>2. Ordered(waiting'[w])
      BY <1>1, <2>1, <2>2, <3>1, OrderedAppend DEF Lines, Queues, Asleep
    <3>3. Ordered(micro')
      BY <2>1, OrderedShort
    <3> QED BY <2>2, <3>2, <3>3 DEF Lines, Queues
  <2>8. Cancels'
    <3>1. \A f \in Futures : \A k \in Asleep(f)' : IsStop(k) => f = w
      BY <1>6, <2>1, <2>4 DEF IsStop
    <3>2. w.socket = subscription'
      BY <1>2
    <3> QED BY <2>1, <3>1, <3>2 DEF Cancels, IsStop
  <2>9. \A f \in Futures : \A k \in Asleep(f)' : k.then # "closed"
    BY <1>1, <2>1, <2>4
  <2>10. Closes'
    BY <2>1, <2>9 DEF Closes
  <2>11. GoalOrder'
    BY <2>1, <2>9 DEF GoalOrder, Pending
  <2>12. \A k \in Continuations : Pending(k)' => k = c \/ \E f \in Futures : k \in Asleep(f)
    BY <2>1 DEF Pending
  <2>13. Pending(c)' /\ \A f \in Futures : \A k \in Asleep(f) : Pending(k)'
    BY <2>1 DEF Pending
  <2> QED BY <2>5, <2>6, <2>7, <2>8, <2>10, <2>11, <2>12, <2>13 DEF Lines, c
<1> QED BY <1>9, <1>10

\* A stop's subscription is cancelled: it goes on to close the channel.
LEMMA LinesCancelled ==
    ASSUME Shape, Lines, Cancelled, disposed => channel = Null,
           NEW goal \in Goals, goal = Head(micro).goal
    PROVE  /\ Lines'
           /\ \A k \in Continuations : Pending(k)' => Pending(k) \/ k = Call("closed", goal)
           /\ Pending(Call("closed", goal))'
           /\ \A f \in Futures : \A k \in Asleep(f)' : k.then # "cancelled"
           /\ \A k \in Continuations : Pending(k) /\ ~IsStop(k) => Pending(k)'
<1> DEFINE h == Head(micro)
           c == Call("closed", goal)
<1> PICK s \in Sockets \cup {Null} : s = channel
  BY Numbers
<1> DEFINE w == Future("close", s)
<1>1. /\ c \in Continuations /\ IsStop(c) /\ c.then = "closed" /\ c.goal = goal
  BY CallType
<1>2. /\ ~Idle /\ h.then = "cancelled" /\ subscription' = Null /\ Await(c, w, Rest)
      /\ UNCHANGED <<channel, sockets, completed, disposed>>
  BY DEF Cancelled
<1>3. /\ h \in Here /\ h \in Continuations /\ Here = Elems(Rest) \cup {h}
      /\ Rest \in Seq(Continuations)
  BY <1>2, HeadEffect DEF Shape
<1>4. /\ w.what = "close" /\ w.socket = s /\ (s # Null => w \in Futures)
  BY FutureType
<1>5. \/ /\ s = Null \/ w \in completed
         /\ micro' = Append(Rest, c) /\ Here' = Elems(Rest) \cup {c}
         /\ waiting' = waiting
      \/ /\ s # Null /\ w \in Futures \ completed
         /\ micro' = Rest /\ Here' = Elems(Rest)
         /\ waiting' = [waiting EXCEPT ![w] = Append(@, c)]
         /\ Asleep(w)' = Asleep(w) \cup {c}
         /\ \A f \in Futures \ {w} : Asleep(f)' = Asleep(f)
  <2>1. TypeOK
    BY DEF Shape
  <2> HIDE DEF c
  <2> QED BY <1>1, <1>2, <1>3, <2>1, AwaitEffect
<1> HIDE DEF h, c, w
<1>6. \A f \in Futures : \A k \in Asleep(f) : k.then # "cancelled"
  BY <1>2, <1>3 DEF Lines, Cancels, IsStop
<1>7. \A k \in Here : IsStop(k)
  <2> SUFFICES ASSUME NEW k \in Here, ~IsStop(k) PROVE FALSE
    OBVIOUS
  <2>1. micro = <<k>>
    BY DEF Lines, Runs
  <2>2. h = k
    BY <2>1 DEF h
  <2> QED BY <1>2, <2>2 DEF IsStop
<1>8. \A f \in Futures : \A k \in Asleep(f) : k.then = "closed" =>
         ~disposed /\ f = w /\ s # Null
  <2> SUFFICES ASSUME NEW f \in Futures, NEW k \in Asleep(f), k.then = "closed"
               PROVE  ~disposed /\ f = w /\ s # Null
    OBVIOUS
  <2>1. ~disposed
    BY <1>2, <1>3 DEF Lines, Closes
  <2>2. f.socket = channel /\ f.what = "close" /\ f.socket \in Known
    BY <2>1 DEF Lines, Closes, Waits
  <2> QED BY <2>1, <2>2, FutureIs, Typed DEF Null, w
<1>9. Ordered(Rest) /\ \A a \in Elems(Rest) : Before(h, a)
  <2>1. micro \in Seq(Continuations) /\ micro # <<>>
    BY <1>2, Typed DEF Idle
  <2> QED BY <2>1, OrderedTail DEF Lines, Queues, Rest, h
<1>10. \A k \in Continuations : Pending(k) /\ k.then = "closed" /\ k.goal = "connect"
          => goal = "connect"
  BY <1>2, <1>3 DEF Lines, GoalOrder, Pending, h
<1>11. \A k \in Elems(Rest) : k.then = "cancelled" /\ goal = "connect" => k.goal = "connect"
  BY <1>2, <1>9 DEF Before, IsStop, h
<1>12. CASE /\ s = Null \/ w \in completed
            /\ micro' = Append(Rest, c) /\ Here' = Elems(Rest) \cup {c}
            /\ waiting' = waiting
  <2>1. \A f \in Futures : Asleep(f)' = Asleep(f)
    BY <1>12 DEF Asleep
  <2>2. \A f \in Futures : \A k \in Asleep(f) : k.then # "closed"
    BY <1>8, <1>12 DEF Lines, Waits
  <2>3. Waits'
    BY <1>2, <1>12, <2>1 DEF Lines, Waits, IsStop, Known
  <2>4. Runs'
    BY <1>1, <1>2, <1>3, <1>7, <1>12 DEF Lines, Runs, IsStop, Known
  <2>5. Queues'
    <3>1. \A a \in Elems(Rest) : Before(a, c)
      BY <1>1, <1>3, <1>10, ElemsType DEF Before, Pending, Shape
    <3>2. Ordered(micro')
      BY <1>1, <1>3, <1>9, <1>12, <3>1, OrderedAppend
    <3> QED BY <1>12, <3>2 DEF Lines, Queues
  <2>6. Cancels'
    BY <1>6, <2>1 DEF Cancels
  <2>7. Closes'
    <3>1. channel' = s /\ completed' = completed
      BY <1>2
    <3> QED BY <1>12, <2>1, <2>2, <3>1 DEF Closes, w
  <2>8. \A k \in Continuations : Pending(k)' => Pending(k) \/ k = c
    BY <1>3, <1>12, <2>1 DEF Pending
  <2>9. GoalOrder'
    <3>1. ASSUME NEW k \in Continuations, NEW j \in Continuations, Pending(k)', Pending(j)',
                 k.then = "closed", k.goal = "connect", j.then = "cancelled"
          PROVE  j.goal = "connect"
      <4>1. j \in Elems(Rest)
        BY <1>1, <1>6, <1>12, <2>1, <3>1 DEF Pending
      <4>2. goal = "connect"
        BY <1>1, <1>10, <2>8, <3>1
      <4> QED BY <1>11, <3>1, <4>1, <4>2
    <3> QED BY <3>1 DEF GoalOrder
  <2>10. Pending(c)' /\ \A k \in Continuations : Pending(k) /\ ~IsStop(k) => Pending(k)'
    BY <1>7, <1>12, <2>1 DEF Pending
  <2> QED BY <1>6, <2>1, <2>3, <2>4, <2>5, <2>6, <2>7, <2>8, <2>9, <2>10 DEF Lines, c
<1>13. CASE ~(/\ s = Null \/ w \in completed
              /\ micro' = Append(Rest, c) /\ Here' = Elems(Rest) \cup {c}
              /\ waiting' = waiting)
  <2>1. /\ s # Null /\ w \in Futures \ completed
        /\ micro' = Rest /\ Here' = Elems(Rest)
        /\ waiting' = [waiting EXCEPT ![w] = Append(@, c)]
        /\ Asleep(w)' = Asleep(w) \cup {c}
        /\ \A f \in Futures \ {w} : Asleep(f)' = Asleep(f)
    BY <1>5, <1>13
  <2>2. /\ waiting'[w] = Append(waiting[w], c) /\ waiting[w] \in Seq(Continuations)
        /\ \A f \in Futures \ {w} : waiting'[f] = waiting[f]
    BY <2>1, Typed
  <2>3. ~disposed
    BY <2>1
  <2>4. \A k \in Here : k.then # "closed"
    BY <1>2, <1>3, <2>1 DEF Lines, Closes, w
  <2>5. \A k \in Asleep(w) : k.then = "closed"
    <3>1. \A k \in Asleep(w) : k.then \in {"cancelled", "closed", "ready", "failed"}
      BY <2>1, ElemsType, Kinds DEF Shape
    <3>2. \A t : w # Future("ready", t) /\ (w = Future("close", t) => t = channel)
      <4>1. \A t : Future("close", t).socket = t
        BY DEF Future
      <4> QED BY <1>4, <4>1, FutureDiffers DEF w
    <3> QED BY <1>6, <2>1, <3>1, <3>2 DEF Lines, Waits
  <2>6. \A f \in Futures : \A k \in Asleep(f)' : k.then # "cancelled"
    BY <1>1, <1>6, <2>1
  <2>7. Waits'
    <3>1. ASSUME NEW f \in Futures, f # w, NEW k \in Asleep(f)'
          PROVE  /\ f \notin completed' /\ f.socket \in Known'
                 /\ k.then = "cancelled" => f.what = "cancel"
                 /\ k.then = "closed" => f.what = "close"
                 /\ k.then = "ready" => f = Future("ready", k.socket)
                 /\ k.then = "failed" => f = Future("close", k.socket) /\ k.socket # channel'
                 /\ ~IsStop(k) => waiting'[f] = <<k>>
      <4>1. k \in Asleep(f) /\ waiting'[f] = waiting[f]
        BY <2>1, <2>2, <3>1
      <4>2. Known' = Known /\ completed' = completed /\ channel' = channel
        BY <1>2 DEF Known
      <4> QED BY <4>1, <4>2 DEF Lines, Waits
    <3>2. /\ w \notin completed' /\ w.socket \in Known'
          /\ \A k \in Asleep(w)' : k.then = "closed" /\ w.what = "close" /\ IsStop(k)
      BY <1>1, <1>2, <1>4, <2>1, <2>5, Typed DEF IsStop, Known, Null
    <3> QED BY <3>1, <3>2 DEF Waits, IsStop
  <2>8. Runs'
    BY <1>2, <1>3, <1>7, <2>1 DEF Lines, Runs, IsStop, Known
  <2>9. Queues'
    <3>1. \A a \in Asleep(w) : Before(a, c)
      BY <1>1, <1>10, <2>1, <2>5, ElemsType DEF Before, IsStop, Pending, Shape
    <3>2. Ordered(waiting'[w])
      BY <1>1, <2>1, <2>2, <3>1, OrderedAppend DEF Lines, Queues, Asleep
    <3> QED BY <1>9, <2>1, <2>2, <3>2 DEF Lines, Queues
  <2>10. Cancels'
    BY <2>6 DEF Cancels
  <2>11. Closes'
    <3>1. \A f \in Futures : \A k \in Asleep(f)' : k.then = "closed" => f = w
      BY <1>8, <2>1
    <3>2. \A k \in Here' : k.then # "closed"
      BY <1>3, <2>1, <2>4
    <3>3. disposed' = disposed /\ w.socket = channel'
      BY <1>2, <1>4
    <3> QED BY <2>1, <2>3, <3>1, <3>2, <3>3 DEF Closes
  <2>12. \A k \in Continuations : Pending(k)' => Pending(k) \/ k = c
    BY <1>3, <2>1 DEF Pending
  <2>13. GoalOrder'
    <3>1. ASSUME NEW k \in Continuations, NEW j \in Continuations, Pending(k)', Pending(j)',
                 k.then = "closed", k.goal = "connect", j.then = "cancelled"
          PROVE  j.goal = "connect"
      <4>1. j \in Elems(Rest)
        BY <2>1, <2>6, <3>1 DEF Pending
      <4>2. goal = "connect"
        BY <1>1, <1>10, <2>12, <3>1
      <4> QED BY <1>11, <3>1, <4>1, <4>2
    <3> QED BY <3>1 DEF GoalOrder
  <2>14. Pending(c)' /\ \A k \in Continuations : Pending(k) /\ ~IsStop(k) => Pending(k)'
    BY <1>7, <2>1 DEF Pending
  <2> QED BY <2>6, <2>7, <2>8, <2>9, <2>10, <2>11, <2>12, <2>13, <2>14 DEF Lines, c
<1> QED BY <1>12, <1>13

\* The attempt failed: it waits for its socket to close.
LEMMA LinesRefused ==
    ASSUME Shape, Lines, ~Idle, NEW k, k = Head(micro), k.then = "ready",
           NEW s \in Known, s = channel, channel' = 0,
           NEW g \in Nat, Await(Open("failed", g, s), Future("close", s), Rest),
           UNCHANGED <<sockets, completed, disposed>>,
           \A f \in Futures : \A j \in Asleep(f) : ~IsStop(j)
    PROVE  /\ Lines'
           /\ \A j \in Continuations : Pending(j)' =>
                 j = Open("failed", g, s) \/ \E f \in Futures : j \in Asleep(f)
           /\ \A f \in Futures : \A j \in Asleep(f) : Pending(j)'
<1> DEFINE c == Open("failed", g, s)
           w == Future("close", s)
<1>1. s \in Sockets /\ s # 0
  BY Typed DEF Sockets
<1>2. /\ c \in Continuations /\ ~IsStop(c) /\ c.then = "failed" /\ c.socket = s
  BY <1>1, OpenType
<1>3. w \in Futures /\ w.what = "close" /\ w.socket = s
  BY <1>1, FutureType
<1>4. micro = <<k>> /\ Rest = <<>> /\ <<>> \in Seq(Continuations)
  <2>1. k \in Here /\ ~IsStop(k)
    BY HeadEffect DEF Shape, IsStop
  <2>2. micro = <<k>>
    BY <2>1 DEF Lines, Runs
  <2> QED BY <2>2 DEF Rest
<1>5. \/ /\ micro' = Append(<<>>, c) /\ Here' = Elems(<<>>) \cup {c}
         /\ waiting' = waiting
      \/ /\ w \in Futures \ completed
         /\ micro' = <<>> /\ Here' = Elems(<<>>)
         /\ waiting' = [waiting EXCEPT ![w] = Append(@, c)]
         /\ Asleep(w)' = Asleep(w) \cup {c}
         /\ \A f \in Futures \ {w} : Asleep(f)' = Asleep(f)
  <2>1. TypeOK /\ Await(c, w, <<>>) /\ s \in Sockets \cup {Null}
    BY <1>1, <1>4 DEF Shape
  <2> HIDE DEF c
  <2> QED BY <1>2, <1>4, <2>1, AwaitEffect
<1>6. \A f \in Futures : \A j \in Asleep(f) : j.then = "failed" => j.socket # 0 /\ f # w
  <2>1. ASSUME NEW f \in Futures, NEW j \in Asleep(f), j.then = "failed"
        PROVE  j.socket # 0 /\ f # w
    <3>1. j.socket # 0
      BY <2>1, ElemsType DEF Shape, Pending, Carried, IsStop, Null
    <3>2. f = Future("close", j.socket) /\ j.socket # channel
      BY <2>1 DEF Lines, Waits
    <3>3. Future("close", j.socket).socket = j.socket
      BY DEF Future
    <3> QED BY <1>3, <3>1, <3>2, <3>3
  <2> QED BY <2>1
<1> HIDE DEF c, w
<1>7. Known' = Known /\ completed' = completed
  BY DEF Known
<1>8. CASE micro' = Append(<<>>, c) /\ Here' = Elems(<<>>) \cup {c} /\ waiting' = waiting
  <2>1. Here' = {c} /\ micro' = <<c>> /\ \A f \in Futures : Asleep(f)' = Asleep(f)
    BY <1>8, ElemsEmpty DEF Asleep
  <2>2. Waits'
    BY <1>6, <1>7, <1>8, <2>1 DEF Lines, Waits, IsStop
  <2>3. Runs'
    BY <1>2, <1>7, <2>1 DEF Lines, Runs, IsStop
  <2>4. Queues'
    BY <1>2, <1>8, <2>1, OrderedShort DEF Lines, Queues
  <2>5. \A j \in Continuations : Pending(j)' => j = c \/ \E f \in Futures : j \in Asleep(f)
    BY <2>1 DEF Pending
  <2>6. \A j \in Continuations : Pending(j)' => ~IsStop(j)
    BY <1>2, <2>5
  <2>7. Cancels' /\ Closes' /\ GoalOrder'
    BY <1>2, <2>1, <2>6 DEF Cancels, Closes, GoalOrder, IsStop
  <2>8. \A f \in Futures : \A j \in Asleep(f) : Pending(j)'
    BY <2>1 DEF Pending
  <2> QED BY <2>2, <2>3, <2>4, <2>5, <2>7, <2>8 DEF Lines, c
<1>9. CASE /\ w \in Futures \ completed
           /\ micro' = <<>> /\ Here' = Elems(<<>>)
           /\ waiting' = [waiting EXCEPT ![w] = Append(@, c)]
           /\ Asleep(w)' = Asleep(w) \cup {c}
           /\ \A f \in Futures \ {w} : Asleep(f)' = Asleep(f)
  <2>1. Asleep(w) = {}
    <3>1. \A j \in Asleep(w) : j.then \in {"cancelled", "closed", "ready", "failed"}
      BY <1>3, ElemsType, Kinds DEF Shape
    <3>2. \A t : w # Future("ready", t)
      BY FutureDiffers DEF w
    <3> QED BY <1>3, <1>6, <3>1, <3>2 DEF Lines, Waits, IsStop
  <2>2. waiting'[w] = <<c>> /\ \A f \in Futures \ {w} : waiting'[f] = waiting[f]
    <3>1. waiting[w] \in Seq(Continuations) /\ waiting \in [Futures -> Seq(Continuations)]
      BY <1>3, Typed
    <3>2. waiting[w] = <<>>
      BY <2>1, <3>1, ElemsTyped DEF Asleep
    <3> QED BY <1>3, <1>9, <3>1, <3>2
  <2>3. Here' = {} /\ Asleep(w)' = {c}
    BY <1>9, <2>1, ElemsEmpty
  <2>4. Waits'
    <3>1. ASSUME NEW f \in Futures, f # w, NEW j \in Asleep(f)'
          PROVE  /\ f \notin completed' /\ f.socket \in Known'
                 /\ j.then = "cancelled" => f.what = "cancel"
                 /\ j.then = "closed" => f.what = "close"
                 /\ j.then = "ready" => f = Future("ready", j.socket)
                 /\ j.then = "failed" => f = Future("close", j.socket) /\ j.socket # channel'
                 /\ ~IsStop(j) => waiting'[f] = <<j>>
      <4>1. j \in Asleep(f) /\ waiting'[f] = waiting[f]
        BY <1>9, <2>2, <3>1
      <4> QED BY <1>6, <1>7, <4>1 DEF Lines, Waits
    <3>2. /\ w \notin completed' /\ w.socket \in Known' /\ w = Future("close", c.socket)
          /\ c.socket # channel' /\ c.then = "failed" /\ waiting'[w] = <<c>>
      BY <1>1, <1>2, <1>3, <1>7, <1>9, <2>2 DEF w
    <3> QED BY <2>3, <3>1, <3>2 DEF Waits, IsStop
  <2>5. Runs'
    BY <1>7, <2>3 DEF Lines, Runs
  <2>6. Queues'
    <3>1. \A f \in Futures : Ordered(waiting'[f])
      BY <1>2, <2>2, OrderedShort DEF Lines, Queues
    <3> QED BY <1>9, <3>1, OrderedShort DEF Queues
  <2>7. \A j \in Continuations : Pending(j)' => j = c \/ \E f \in Futures : j \in Asleep(f)
    BY <1>9, <2>3 DEF Pending
  <2>8. \A f \in Futures : \A j \in Asleep(f)' : ~IsStop(j)
    BY <1>2, <1>9, <2>3
  <2>9. Cancels' /\ Closes' /\ GoalOrder'
    BY <2>3, <2>8 DEF Cancels, Closes, GoalOrder, IsStop, Pending
  <2>10. \A f \in Futures : \A j \in Asleep(f) : Pending(j)'
    BY <1>9, <2>1 DEF Pending
  <2> QED BY <2>4, <2>5, <2>6, <2>7, <2>9, <2>10 DEF Lines, c
<1> QED BY <1>5, <1>8, <1>9

\* An attempt begins: it waits for its socket to be ready.
LEMMA LinesDial ==
    ASSUME Shape, Lines, NEW q \in Seq(Continuations), Ordered(q),
           \A j \in Elems(q) : j.then = "closed",
           \A f \in Futures : \A j \in Asleep(f) : ~IsStop(j),
           NEW g \in Nat, NEW s \in Sockets, s = Len(sockets) + 1,
           Known' = Known \cup {s}, channel' = s,
           Await(Open("ready", g, s), Future("ready", s), q),
           UNCHANGED <<completed, disposed>>
    PROVE  /\ Lines' /\ Here' = Elems(q)
           /\ \A j \in Continuations : Pending(j)' =>
                 \/ j = Open("ready", g, s) \/ j \in Elems(q)
                 \/ \E f \in Futures : j \in Asleep(f)
           /\ Pending(Open("ready", g, s))'
           /\ \A f \in Futures : \A j \in Asleep(f) : Pending(j)'
           /\ \A f \in Futures : \A j \in Asleep(f)' : ~IsStop(j)
<1> DEFINE c == Open("ready", g, s)
           w == Future("ready", s)
<1>1. s # 0 /\ s \notin Known /\ s \in Sockets \cup {Null}
  BY Typed DEF Sockets
<1>2. /\ c \in Continuations /\ ~IsStop(c) /\ c.then = "ready" /\ c.socket = s
  BY OpenType
<1>3. w \in Futures /\ w.socket = s /\ w.what = "ready"
  BY FutureType
<1>4. w \notin completed /\ Asleep(w) = {}
  BY <1>1, <1>3 DEF Lines, Runs, Waits
<1>5. \/ /\ s = Null \/ w \in completed
         /\ micro' = Append(q, c) /\ Here' = Elems(q) \cup {c}
         /\ waiting' = waiting
      \/ /\ s # Null /\ w \in Futures \ completed
         /\ micro' = q /\ Here' = Elems(q)
         /\ waiting' = [waiting EXCEPT ![w] = Append(@, c)]
         /\ Asleep(w)' = Asleep(w) \cup {c}
         /\ \A f \in Futures \ {w} : Asleep(f)' = Asleep(f)
  <2>1. TypeOK /\ Await(c, w, q)
    BY DEF Shape
  <2> HIDE DEF c
  <2> QED BY <1>1, <1>2, <2>1, AwaitEffect
<1>6. \A f \in Futures : \A j \in Asleep(f) : j.then = "failed" => j.socket # s
  <2>1. ASSUME NEW f \in Futures, NEW j \in Asleep(f), j.then = "failed"
        PROVE  j.socket # s
    <3>1. j \in Continuations /\ Pending(j)
      BY ElemsType DEF Shape, Pending
    <3>2. j.socket <= Len(sockets) /\ j.socket \in Nat
      BY <3>1 DEF Shape, Carried, Continuations
    <3> QED BY <3>2, Typed
  <2> QED BY <2>1
<1> HIDE DEF c, w
<1>7. /\ micro' = q /\ Here' = Elems(q) /\ Asleep(w)' = {c}
      /\ waiting' = [waiting EXCEPT ![w] = Append(@, c)]
      /\ \A f \in Futures \ {w} : Asleep(f)' = Asleep(f)
  BY <1>1, <1>4, <1>5 DEF Null
<1>8. waiting'[w] = <<c>> /\ \A f \in Futures \ {w} : waiting'[f] = waiting[f]
  <2>1. waiting[w] \in Seq(Continuations) /\ waiting \in [Futures -> Seq(Continuations)]
    BY <1>3, Typed
  <2>2. waiting[w] = <<>>
    BY <1>4, <2>1, ElemsTyped DEF Asleep
  <2> QED BY <1>3, <1>7, <2>1, <2>2
<1>9. Waits'
  <2>1. ASSUME NEW f \in Futures, f # w, NEW j \in Asleep(f)'
        PROVE  /\ f \notin completed' /\ f.socket \in Known'
               /\ j.then = "cancelled" => f.what = "cancel"
               /\ j.then = "closed" => f.what = "close"
               /\ j.then = "ready" => f = Future("ready", j.socket)
               /\ j.then = "failed" => f = Future("close", j.socket) /\ j.socket # channel'
               /\ ~IsStop(j) => waiting'[f] = <<j>>
    <3>1. j \in Asleep(f) /\ waiting'[f] = waiting[f]
      BY <1>7, <1>8, <2>1
    <3> QED BY <1>6, <3>1 DEF Lines, Waits
  <2>2. /\ w \notin completed' /\ w.socket \in Known' /\ w = Future("ready", c.socket)
        /\ c.then = "ready" /\ waiting'[w] = <<c>>
    BY <1>2, <1>3, <1>4, <1>8 DEF w
  <2> QED BY <1>7, <2>1, <2>2 DEF Waits, IsStop
<1>10. Runs'
  BY <1>7 DEF Lines, Runs, IsStop
<1>11. Queues'
  <2>1. \A f \in Futures : Ordered(waiting'[f])
    BY <1>2, <1>8, OrderedShort DEF Lines, Queues
  <2> QED BY <1>7, <2>1 DEF Queues
<1>12. \A j \in Continuations : Pending(j)' =>
          j = c \/ j \in Elems(q) \/ \E f \in Futures : j \in Asleep(f)
  BY <1>7 DEF Pending
<1>13. \A f \in Futures : \A j \in Asleep(f)' : ~IsStop(j)
  BY <1>2, <1>7
<1>14. Cancels' /\ Closes' /\ GoalOrder'
  BY <1>7, <1>13 DEF Cancels, Closes, GoalOrder, IsStop, Pending
<1>15. Pending(c)' /\ \A f \in Futures : \A j \in Asleep(f) : Pending(j)'
  BY <1>3, <1>4, <1>7 DEF Pending
<1> QED BY <1>7, <1>9, <1>10, <1>11, <1>12, <1>13, <1>14, <1>15 DEF Lines, c

-----------------------------------------------------------------------------
(* The core, step by step *)

Flags == Stopping /\ Attempt /\ Live /\ Owned

LEMMA CoreParts == Core <=> Lines /\ Flags
BY DEF Core, Lines, Flags

\* A socket stays owned: the channel is given up only when it is closed, or when an
\* attempt will see it, and an attempt ends only with its socket closed or listened to.
LEMMA OwnedKept ==
    ASSUME Owned, closing \subseteq closing', Known' \subseteq Known \cup {channel'},
           \A s \in Known : sockets[s] = "dead" => sockets'[s] = "dead",
           \A s \in Known : s = channel => s = channel' \/ s \in closing' \/ Sought(s),
           \A k \in Continuations : Pending(k) /\ k.then = "ready" =>
               Pending(k)' \/ k.socket \in closing' \/ k.socket = channel'
    PROVE  Owned'
<1>1. \A s : Sought(s) => Sought(s)' \/ s \in closing' \/ s = channel'
  BY DEF Sought
<1> QED BY <1>1 DEF Owned

\* Every pending attempt has an older token than g.
LEMMA Younger ==
    ASSUME Shape, NEW g \in Nat, g > generation
    PROVE  /\ \A k \in Continuations : Pending(k) => k.gen # g
           /\ g \notin fired /\ g # 0 /\ timer # g
<1>1. ASSUME NEW k \in Continuations, Pending(k) PROVE k.gen # g
  <2>1. k.gen \in Nat /\ k.gen <= generation
    BY <1>1 DEF Shape, Carried, Continuations
  <2> QED BY <2>1, Typed
<1> QED BY <1>1, Typed

LEMMA NothingHere ==
    ASSUME Shape
    PROVE  Here = {} <=> Idle
BY Typed, ElemsTyped DEF Here, Idle

\* A stop that is requested in a turn that leaves the channel and the subscription.
LEMMA StopCore ==
    ASSUME Shape, Core, NEW goal \in Goals, Stop(goal, generation, subscription, <<>>),
           ~crossed', \A k \in Here : k.then = "failed",
           UNCHANGED <<completed, disposed, channel, subscription, fired, closing>>,
           Len(sockets') = Len(sockets),
           \A s \in Known : sockets[s] = "dead" => sockets'[s] = "dead",
           listening' \subseteq listening \ {subscription}
    PROVE  Core'
<1> DEFINE c == Call("cancelled", goal)
<1>1. Known' = Known
  BY DEF Known
<1>2. \A f \in Futures : \A k \in Asleep(f) : k.then = "closed" => subscription = Null
  BY ElemsType DEF Core, Stopping, Pending, Shape
<1>3. subscription \in Known \cup {Null}
  BY Typed DEF Null
<1>4. /\ Lines'
      /\ \A k \in Continuations : Pending(k)' => k = c \/ \E f \in Futures : k \in Asleep(f)
      /\ Pending(c)' /\ \A f \in Futures : \A k \in Asleep(f) : Pending(k)'
  <2>1. generation \in Nat
    BY Typed
  <2>2. Lines /\ Known \subseteq Known'
    BY <1>1, CoreParts
  <2> QED BY <1>2, <1>3, <2>1, <2>2, LinesStop
<1>5. c \in Continuations /\ IsStop(c) /\ c.then = "cancelled"
  BY CallType
<1> HIDE DEF c
<1>6. stopRequested' = TRUE /\ generation' = generation + 1 /\ timer' = 0 /\ ~disposed
  BY DEF Stop, Null
<1>7. \A k \in Continuations : Pending(k)' => k = c \/ Pending(k)
  BY <1>4 DEF Pending
<1>8. \A k \in Continuations : Pending(k) /\ k.then = "ready" => Pending(k)'
  BY <1>4 DEF Pending
<1>9. listening' = {}
  BY DEF Core, Stopping
<1>10. Stopping'
  <2>1. \A k \in Continuations : Pending(k)' /\ k.then = "closed" => subscription' = Null
    BY <1>5, <1>7 DEF Core, Stopping
  <2> QED BY <1>4, <1>5, <1>6, <1>9, <2>1 DEF Stopping, Null
<1>11. Attempt'
  <2>1. generation + 1 \in Nat /\ generation + 1 > generation
    BY Typed
  <2>2. /\ \A k \in Continuations : Pending(k) => k.gen # generation'
        /\ generation' \notin fired /\ generation' # 0
    BY <1>6, <2>1, Younger
  <2>3. \A k \in Continuations : Pending(k)' /\ k.then = "ready" => k.gen # generation'
    BY <1>5, <1>7, <2>2
  <2>4. ASSUME NEW k \in Continuations, Pending(k)', k.then = "closed"
        PROVE  channel' = Null \/ channel' \in closing' \/ Sought(channel)'
    BY <1>5, <1>7, <1>8, <2>4 DEF Core, Attempt, Sought
  <2>5. ~(timer' = generation' /\ generation' \in fired') /\ Null \notin fired'
    BY <2>2 DEF Core, Attempt
  <2> QED BY <2>3, <2>4, <2>5 DEF Attempt
<1>12. Live'
  BY <1>6 DEF Live
<1>13. Owned'
  BY <1>1, <1>8, OwnedKept DEF Core
<1> QED BY <1>4, <1>10, <1>11, <1>12, <1>13 DEF Core, Lines

LEMMA BeginCore ==
    ASSUME Shape, Core, NEW goal \in Goals, Begin(goal), ~crossed' PROVE Core'
<1>1. /\ Idle /\ Stop(goal, generation, subscription, <<>>)
      /\ listening' = listening \ {subscription}
      /\ UNCHANGED <<fired, channel, subscription, sockets, closing, completed, disposed>>
  BY DEF Begin
<1>2. \A k \in Here : k.then = "failed"
  BY <1>1, NothingHere
<1> QED BY <1>1, <1>2, StopCore

LEMMA FireCore == Shape /\ Core /\ Fire => Core'
<1> SUFFICES ASSUME Shape, Core, Fire PROVE Core'
  OBVIOUS
<1>1. /\ timer # 0 /\ fired' = fired \cup {timer} /\ timer' = 0
      /\ UNCHANGED <<stopRequested, generation, channel, subscription, state, sockets,
                     closing, listening, disposed, completed, waiting, micro>>
  BY DEF Fire, queue, Null
<1>2. Known' = Known
  BY <1>1 DEF Known
<1>3. Lines'
  <2>1. Lines
    BY CoreParts
  <2> QED BY <1>1, <1>2, <2>1, LinesKept
<1>4. Here' = Here /\ (\A f \in Futures : Asleep(f)' = Asleep(f))
      /\ \A k \in Continuations : Pending(k)' <=> Pending(k)
  BY <1>1 DEF Here, Asleep, Pending
<1>5. \A s : Sought(s)' <=> Sought(s)
  BY <1>4 DEF Sought
<1>6. generation # 0
  BY <1>1, Typed
<1>7. Stopping'
  BY <1>1, <1>4 DEF Core, Stopping, Null
<1>8. Attempt'
  BY <1>1, <1>4, <1>5, <1>6 DEF Core, Attempt, Null
<1>9. Live' /\ Owned'
  BY <1>1, <1>2, <1>5 DEF Core, Live, Owned
<1> QED BY <1>3, <1>7, <1>8, <1>9 DEF Core, Lines

\* Behind a stop there are only stops.
LEMMA HeadStop ==
    ASSUME Shape, Core, ~Idle, IsStop(Head(micro))
    PROVE  \A k \in Here : IsStop(k)
<1> SUFFICES ASSUME NEW k \in Here, ~IsStop(k) PROVE FALSE
  OBVIOUS
<1>1. micro = <<k>>
  BY DEF Core, Runs
<1>2. Head(micro) = k
  BY <1>1
<1> QED BY <1>2

\* When a stop has closed its channel no other one sleeps, the ones behind it have
\* closed it too, and those behind a connect are connects.
LEMMA HeadClosed ==
    ASSUME Shape, Core, ~Idle, Head(micro).then = "closed"
    PROVE  /\ Rest \in Seq(Continuations) /\ Ordered(Rest) /\ Elems(Rest) \subseteq Here
           /\ Head(micro) \in Here /\ Head(micro) \in Continuations
           /\ Pending(Head(micro))
           /\ \A k \in Elems(Rest) : k.then = "closed"
           /\ Head(micro).goal = "connect" => \A k \in Elems(Rest) : k.goal = "connect"
           /\ \A f \in Futures : \A k \in Asleep(f) : ~IsStop(k)
           /\ \A k \in Continuations : Pending(k) /\ ~IsStop(k) =>
                 \E f \in Futures : k \in Asleep(f)
           /\ \A s \in Known : s = channel => s \in closing \/ Sought(s)
<1> DEFINE h == Head(micro)
<1>1. /\ Rest \in Seq(Continuations) /\ Here = Elems(Rest) \cup {h}
      /\ h \in Continuations /\ IsStop(h)
  BY HeadEffect DEF Shape, IsStop
<1>2. Ordered(Rest) /\ \A a \in Elems(Rest) : Before(h, a)
  <2>1. micro \in Seq(Continuations) /\ micro # <<>>
    BY Typed DEF Idle
  <2> QED BY <2>1, OrderedTail DEF Core, Queues, Rest
<1>3. \A k \in Here : IsStop(k)
  BY <1>1, HeadStop
<1> HIDE DEF h
<1>4. \A f \in Futures : \A k \in Asleep(f) : ~IsStop(k)
  <2>1. \A f \in Futures : \A k \in Asleep(f) : k.then # "cancelled"
    BY <1>1 DEF Core, Cancels
  <2>2. \A f \in Futures : \A k \in Asleep(f) : k.then # "closed"
    BY <1>1 DEF Core, Closes, h
  <2> QED BY <2>1, <2>2 DEF IsStop
<1>5. /\ \A k \in Elems(Rest) : k.then = "closed"
      /\ h.goal = "connect" => \A k \in Elems(Rest) : k.goal = "connect"
  BY <1>1, <1>2, <1>3 DEF Before, h
<1>6. Pending(h)
  BY <1>1 DEF Pending
<1>7. \A s \in Known : s = channel => s \in closing \/ Sought(s)
  BY <1>1, <1>6, Typed DEF Core, Attempt, Null, h
<1>8. \A k \in Continuations : Pending(k) /\ ~IsStop(k) =>
                 \E f \in Futures : k \in Asleep(f)
  BY <1>3 DEF Pending
<1> QED BY <1>1, <1>2, <1>4, <1>5, <1>6, <1>7, <1>8 DEF h

LEMMA CancelledCore == Shape /\ Core /\ Cancelled => Core'
<1> SUFFICES ASSUME Shape, Core, Cancelled PROVE Core'
  OBVIOUS
<1> DEFINE h == Head(micro)
<1>1. /\ ~Idle /\ h.then = "cancelled" /\ subscription' = 0
      /\ closing' = closing \cup ({channel} \ {0})
      /\ UNCHANGED <<fired, channel, state, sockets, listening, completed, disposed,
                     stopRequested, generation, timer>>
  BY DEF Cancelled, history, token, Null
<1>2. h \in Here /\ h \in Continuations /\ Pending(h)
  BY <1>1, HeadEffect DEF Shape, Pending
<1>3. stopRequested
  BY <1>1, <1>2 DEF Core, Stopping
<1>4. PICK goal \in Goals : goal = h.goal
  BY <1>2 DEF Continuations
<1> DEFINE c == Call("closed", goal)
<1>5. /\ Lines'
      /\ \A k \in Continuations : Pending(k)' => Pending(k) \/ k = c
      /\ Pending(c)'
      /\ \A k \in Continuations : Pending(k) /\ ~IsStop(k) => Pending(k)'
  <2>1. disposed => channel = Null
    BY <1>3 DEF Core, Stopping
  <2>2. Lines
    BY CoreParts
  <2> QED BY <1>4, <2>1, <2>2, LinesCancelled
<1>6. c \in Continuations /\ IsStop(c) /\ c.then = "closed"
  BY CallType
<1> HIDE DEF h, c
<1>7. Known' = Known
  BY <1>1 DEF Known
<1>8. Stopping'
  <2>1. listening' = {} /\ timer' = Null /\ (disposed' => channel' = Null)
    BY <1>1, <1>3 DEF Core, Stopping
  <2> QED BY <1>1, <1>3, <1>5, <1>6, <2>1 DEF Stopping, Null
<1>9. Attempt'
  <2>1. \A k \in Continuations : Pending(k)' /\ k.then = "ready" => k.gen # generation'
    BY <1>1, <1>3, <1>5, <1>6 DEF Core, Attempt
  <2>2. channel' = Null \/ channel' \in closing'
    BY <1>1 DEF Null
  <2> QED BY <1>1, <2>1, <2>2 DEF Core, Attempt
<1>10. Live'
  BY <1>1, <1>3 DEF Live
<1>11. Owned'
  BY <1>1, <1>5, <1>7, OwnedKept DEF Core, IsStop
<1> QED BY <1>5, <1>8, <1>9, <1>10, <1>11 DEF Core, Lines

\* A disconnect, or a connect to an invalid address, ends.
LEMMA EndCore ==
    ASSUME Shape, Core, ~Idle, Head(micro).then = "closed", Head(micro).goal # "connect",
           channel' = 0, micro' = Rest,
           \/ state' = "disconnected" /\ stopRequested' = stopRequested
           \/ state' = "error" /\ stopRequested' = FALSE,
           UNCHANGED <<fired, subscription, sockets, closing, listening, completed, waiting,
                       disposed, generation, timer>>
    PROVE  Core'
<1> DEFINE h == Head(micro)
<1>1. /\ h \in Here /\ h.then = "closed" /\ h.goal # "connect"
      /\ \A f \in Futures : \A k \in Asleep(f) : ~IsStop(k)
      /\ \A k \in Elems(Rest) : k.then = "closed"
      /\ \A k \in Continuations : Pending(k) /\ ~IsStop(k) => \E f \in Futures : k \in Asleep(f)
      /\ \A s \in Known : s = channel => s \in closing \/ Sought(s)
      /\ Elems(Rest) \subseteq Here
  BY HeadClosed
<1> HIDE DEF h
<1>2. Known' = Known
  BY DEF Known
<1>3. Lines'
  <2>1. Lines /\ \A f \in Futures : \A k \in Asleep(f) : k.then # "closed"
    BY <1>1, CoreParts DEF IsStop
  <2> QED BY <1>2, <2>1, LinesShift
<1>4. Here' = Elems(Rest) /\ \A f \in Futures : Asleep(f)' = Asleep(f)
  BY DEF Here, Asleep
<1>5. /\ \A k \in Continuations : Pending(k)' => Pending(k) /\ k.then # "cancelled"
      /\ \A f \in Futures : \A k \in Asleep(f)' : k.then # "closed"
      /\ \A k \in Continuations : Pending(k) /\ ~IsStop(k) => Pending(k)'
  BY <1>1, <1>4 DEF Pending, IsStop
<1>6. Stopping'
  BY <1>5 DEF Core, Stopping, Null
<1>7. Attempt'
  <2>1. \A k \in Continuations : Pending(k) /\ k.then = "ready" => k.gen # generation
    BY <1>1 DEF Core, Attempt
  <2> QED BY <1>5, <2>1 DEF Core, Attempt, Null
<1>8. Live'
  BY DEF Live
<1>9. Owned'
  BY <1>1, <1>2, <1>5, OwnedKept DEF Core, IsStop
<1> QED BY <1>3, <1>6, <1>7, <1>8, <1>9 DEF Core, Lines

LEMMA ClosedCore == Shape /\ Core /\ Closed => Core'
<1> SUFFICES ASSUME Shape, Core, Closed PROVE Core'
  OBVIOUS
<1>1. /\ ~Idle /\ Head(micro).then = "closed" /\ Head(micro).goal # "connect"
      /\ channel' = 0 /\ state' = "disconnected" /\ micro' = Rest
      /\ UNCHANGED <<fired, subscription, sockets, closing, listening, completed, waiting,
                     disposed, stopRequested, generation, timer>>
  BY DEF Closed, token, Null
<1> QED BY <1>1, EndCore

\* What an attempt with token g needs of the turn in which it begins, q being what the
\* turn leaves to run: a connect's own, or the timer's.
DialReady(g, q) ==
    /\ (q = Rest /\ ~Idle) \/ (q = <<>> /\ Idle)
    /\ Ordered(q) /\ Elems(q) \subseteq Here
    /\ \A k \in Elems(q) : k.then = "closed" /\ k.goal = "connect"
    /\ \A f \in Futures : \A k \in Asleep(f) : ~IsStop(k)
    /\ \A k \in Continuations : Pending(k) /\ ~IsStop(k) => \E f \in Futures : k \in Asleep(f)
    /\ \A k \in Continuations : Pending(k) /\ k.then = "ready" => k.gen # g
    /\ g \notin fired' /\ timer # g /\ g # 0 /\ Null \notin fired'
    /\ fired' \subseteq fired

\* It drops what was there, and the channel it forgets is closed or an attempt's.
LEMMA DropCore ==
    ASSUME Shape, Core, NEW held \in {Null, channel}, Drop(held)
    PROVE  subscription' = 0 /\ listening' = {} /\ closing \subseteq closing'
           /\ closing' \subseteq Known
           /\ (held = channel => channel = Null \/ channel \in closing')
           /\ (held = Null => closing' = closing)
<1>1. listening \subseteq {subscription}
  BY DEF Core, Stopping
<1> QED BY <1>1, DropWire DEF Drop, Null

LEMMA DialOpens ==
    ASSUME Shape, Core, NEW g \in Nat, NEW held \in {Null, channel}, NEW q \in Seq(Continuations),
           DialReady(g, q), Drop(held), UNCHANGED <<completed, disposed, timer>>,
           \A s \in Known : s = channel => s \in closing' \/ Sought(s),
           NEW s \in Sockets, s = Len(sockets) + 1, sockets' = Append(sockets, "opening"),
           channel' = s, state' = "connecting", stopRequested' = FALSE, generation' = g,
           Await(Open("ready", g, s), Future("ready", s), q)
    PROVE  Core'
<1> DEFINE c == Open("ready", g, s)
<1>1. /\ subscription' = 0 /\ listening' = {} /\ closing \subseteq closing'
      /\ closing' \subseteq Known
  BY DropCore
<1>2. /\ Known' = Known \cup {s} /\ s \notin Known
      /\ \A t \in Known : sockets'[t] = sockets[t]
  <2>1. sockets \in Seq({"opening", "open", "dead"})
    BY Typed
  <2>2. Len(sockets') = Len(sockets) + 1 /\ Len(sockets) \in Nat
    BY <2>1
  <2> QED BY <2>1, <2>2 DEF Known
<1>3. /\ Lines' /\ Here' = Elems(q)
      /\ \A k \in Continuations : Pending(k)' =>
            k = c \/ k \in Elems(q) \/ \E f \in Futures : k \in Asleep(f)
      /\ Pending(c)'
      /\ \A f \in Futures : \A k \in Asleep(f) : Pending(k)'
      /\ \A f \in Futures : \A k \in Asleep(f)' : ~IsStop(k)
  <2>1. Lines /\ Ordered(q) /\ \A k \in Elems(q) : k.then = "closed"
    BY CoreParts DEF DialReady
  <2>2. \A f \in Futures : \A k \in Asleep(f) : ~IsStop(k)
    BY DEF DialReady
  <2> QED BY <1>2, <2>1, <2>2, LinesDial
<1>4. c \in Continuations /\ ~IsStop(c) /\ c.then = "ready" /\ c.socket = s /\ c.gen = g
  BY OpenType
<1> HIDE DEF c
<1>5. \A k \in Continuations : Pending(k)' => k.then # "cancelled"
  BY <1>3, <1>4 DEF DialReady, IsStop
<1>6. \A f \in Futures : \A k \in Asleep(f)' : k.then # "closed"
  BY <1>3 DEF IsStop
<1>7. Stopping'
  BY <1>1, <1>5, <1>6 DEF Stopping, Null
<1>8. Attempt'
  <2>1. \A k \in Continuations : Pending(k)' /\ k.then = "ready" /\ k.gen = generation' => k = c
    <3>1. ASSUME NEW k \in Continuations, Pending(k)', k.then = "ready", k # c
          PROVE  k.gen # g
      <4>1. \E f \in Futures : k \in Asleep(f)
        BY <1>3, <3>1 DEF DialReady
      <4> QED BY <3>1, <4>1 DEF DialReady, Pending
    <3> QED BY <3>1
  <2>2. s \notin closing'
    BY <1>1, <1>2
  <2>3. Sought(channel)'
    BY <1>3, <1>4 DEF Sought
  <2>4. timer' = timer /\ g \notin fired' /\ timer # g /\ Null \notin fired'
    BY DEF DialReady
  <2>5. \A j \in Here' : j.then = "closed" => j.goal = "connect"
    BY <1>3 DEF DialReady
  <2> QED BY <1>1, <1>4, <2>1, <2>2, <2>3, <2>4, <2>5 DEF Attempt
<1>9. Live'
  BY DEF Live
<1>10. Owned'
  <2>1. \A k \in Continuations : Pending(k) /\ k.then = "ready" => Pending(k)'
    BY <1>3 DEF DialReady, IsStop
  <2> QED BY <1>1, <1>2, <2>1, OwnedKept DEF Core
<1> QED BY <1>3, <1>7, <1>8, <1>9, <1>10 DEF Core, Lines

\* The constructor threw, and no listener stopped the session: it is retried.
LEMMA DialRetries ==
    ASSUME Shape, Core, NEW g \in Nat, NEW held \in {Null, channel}, NEW q \in Seq(Continuations),
           g >= generation, DialReady(g, q), Drop(held),
           UNCHANGED <<completed, disposed, waiting, sockets>>,
           \A s \in Known : s = channel => s \in closing' \/ Sought(s),
           channel' = 0, micro' = q, ScheduleReconnect(FALSE, g), stopRequested' = FALSE
    PROVE  Core'
<1>1. /\ subscription' = 0 /\ listening' = {} /\ closing \subseteq closing'
  BY DropCore
<1>2. Known' = Known
  BY DEF Known
<1>3. generation' = g + 1 /\ timer' = g + 1 /\ state' = "reconnecting"
  BY DEF ScheduleReconnect
<1>4. \A f \in Futures : \A k \in Asleep(f) : ~IsStop(k)
  BY DEF DialReady
<1>5. Lines'
  <2>1. Lines /\ Known \subseteq Known'
    BY <1>2, CoreParts
  <2>2. \A f \in Futures : \A k \in Asleep(f) : k.then # "cancelled" /\ k.then # "closed"
    BY <1>4 DEF IsStop
  <2>3. CASE q = Rest /\ ~Idle
    BY <2>1, <2>2, <2>3, LinesShift
  <2>4. CASE q = <<>> /\ Idle
    <3>1. micro' = micro
      BY <2>4 DEF Idle
    <3>2. disposed' = disposed
      OBVIOUS
    <3> QED BY <1>4, <2>1, <3>1, <3>2, LinesKept
  <2> QED BY <2>3, <2>4 DEF DialReady
<1>6. Here' = Elems(q) /\ \A f \in Futures : Asleep(f)' = Asleep(f)
  BY DEF Here, Asleep
<1>7. /\ \A k \in Continuations : Pending(k)' => Pending(k) /\ k.then # "cancelled"
      /\ \A k \in Continuations : Pending(k) /\ k.then = "ready" => Pending(k)'
  BY <1>4, <1>6 DEF DialReady, Pending, IsStop
<1>8. Stopping'
  BY <1>1, <1>4, <1>6, <1>7 DEF Stopping, Null, IsStop
<1>9. Attempt'
  <2>1. g + 1 \in Nat /\ g + 1 > generation
    BY Typed
  <2>2. /\ \A k \in Continuations : Pending(k) => k.gen # g + 1
        /\ g + 1 \notin fired
    BY <2>1, Younger
  <2> QED BY <1>3, <1>7, <2>2 DEF Attempt, DialReady, Null
<1>10. Live' /\ Owned'
  <2>1. Live'
    BY <1>3 DEF Live
  <2> QED BY <1>1, <1>2, <1>7, <2>1, OwnedKept DEF Core
<1> QED BY <1>5, <1>8, <1>9, <1>10 DEF Core, Lines

\* The constructor threw, and a listener called disconnect when it heard.
LEMMA DialStops ==
    ASSUME Shape, Core, NEW g \in Nat, NEW held \in {Null, channel}, NEW q \in Seq(Continuations),
           g >= generation, DialReady(g, q), Drop(held), ~crossed',
           UNCHANGED <<completed, disposed, sockets>>,
           \A s \in Known : s = channel => s \in closing' \/ Sought(s),
           channel' = 0, Stop("disconnect", g, Null, q)
    PROVE  Core'
<1> DEFINE c == Call("cancelled", "disconnect")
<1>1. /\ subscription' = 0 /\ listening' = {} /\ closing \subseteq closing'
  BY DropCore
<1>2. Known' = Known
  BY DEF Known
<1>3. /\ generation' = g + 1 /\ timer' = 0 /\ stopRequested' = TRUE /\ ~disposed
      /\ ~DialPending(q)
  BY DEF Stop, Null
<1>4. \A f \in Futures : \A k \in Asleep(f) : ~IsStop(k)
  BY DEF DialReady
<1>5. q = <<>>
  <2>1. \A k \in Elems(q) : FALSE
    <3> SUFFICES ASSUME NEW i \in 1..Len(q) PROVE FALSE
      BY DEF Elems
    <3>1. IsDial(q[i])
      BY DEF DialReady, IsDial, IsStop, Elems
    <3> QED BY <1>3, <3>1 DEF DialPending
  <2> QED BY <2>1, ElemsTyped
<1>6. /\ Lines' /\ Pending(c)'
      /\ \A k \in Continuations : Pending(k)' => k = c \/ \E f \in Futures : k \in Asleep(f)
      /\ \A f \in Futures : \A k \in Asleep(f) : Pending(k)'
  <2>1. Lines /\ Known \subseteq Known' /\ Null \in Known \cup {Null}
    BY <1>2, CoreParts
  <2>2. Stop("disconnect", g, Null, <<>>) /\ "disconnect" \in Goals /\ subscription' = Null
    BY <1>1, <1>5 DEF Goals, Null
  <2> QED BY <1>4, <2>1, <2>2, LinesStop
<1>7. c \in Continuations /\ IsStop(c) /\ c.then = "cancelled"
  BY CallType DEF Goals
<1> HIDE DEF c
<1>8. \A k \in Continuations : Pending(k)' => k = c \/ (Pending(k) /\ ~IsStop(k))
  BY <1>4, <1>6 DEF Pending
<1>9. Stopping'
  <2>1. \A k \in Continuations : Pending(k)' => k.then # "closed"
    BY <1>7, <1>8 DEF IsStop
  <2> QED BY <1>1, <1>3, <1>6, <1>7, <2>1 DEF Stopping, Null
<1>10. Attempt'
  <2>1. g + 1 \in Nat /\ g + 1 > generation
    BY Typed
  <2>2. /\ \A k \in Continuations : Pending(k) => k.gen # g + 1
        /\ g + 1 \notin fired /\ g + 1 # 0
    BY <2>1, Younger
  <2>3. \A k \in Continuations : Pending(k)' /\ k.then = "ready" => k.gen # generation'
    BY <1>3, <1>7, <1>8, <2>2
  <2>4. generation' \notin fired' /\ Null \notin fired' /\ channel' = Null
    BY <1>3, <2>2 DEF DialReady, Null
  <2> QED BY <2>3, <2>4 DEF Attempt
<1>11. Live' /\ Owned'
  <2>1. Live'
    BY <1>3 DEF Live
  <2>2. \A k \in Continuations : Pending(k) /\ k.then = "ready" => Pending(k)'
    BY <1>6 DEF DialReady, IsStop
  <2> QED BY <1>1, <1>2, <2>1, <2>2, OwnedKept DEF Core
<1> QED BY <1>6, <1>9, <1>10, <1>11 DEF Core, Lines

LEMMA DialCore ==
    ASSUME Shape, Core, NEW g \in Nat, NEW held \in {Null, channel}, NEW q \in Seq(Continuations),
           g >= generation, DialReady(g, q), Dial(g, held, q), ~crossed',
           \A s \in Known : s = channel => s \in closing' \/ Sought(s)
    PROVE  Core'
<1>1. Drop(held) /\ completed' = completed /\ disposed' = disposed
  BY DEF Dial
<1>0. Len(sockets) \in Nat
  BY Typed
<1> PICK s \in Nat : s = Len(sockets) + 1
  BY <1>0
<1>2. CASE /\ s \in Sockets /\ sockets' = Append(sockets, "opening")
           /\ channel' = s /\ state' = "connecting"
           /\ stopRequested' = FALSE /\ generation' = g
           /\ Await(Open("ready", g, s), Future("ready", s), q)
           /\ UNCHANGED <<timer, crossed, calls, faults>>
  <2>1. UNCHANGED <<completed, disposed, timer>> /\ s \in Sockets
    BY <1>1, <1>2
  <2> QED BY <1>1, <1>2, <2>1, DialOpens
<1>3. CASE channel' = 0 /\ ReportError(FALSE, g, Null, q) /\ UNCHANGED sockets
  <2>1. CASE /\ ScheduleReconnect(FALSE, g)
             /\ stopRequested' = FALSE /\ micro' = q /\ UNCHANGED <<waiting, calls, crossed>>
    BY <1>1, <1>3, <2>1, DialRetries
  <2>2. CASE state' = "error" /\ Stop("disconnect", g, Null, q)
    BY <1>1, <1>3, <2>2, DialStops
  <2> QED BY <1>3, <2>1, <2>2 DEF ReportError
<1> QED BY <1>2, <1>3 DEF Dial, Null

LEMMA ConnectCore == Shape /\ Core /\ Connect /\ ~crossed' => Core'
<1> SUFFICES ASSUME Shape, Core, Connect, ~crossed' PROVE Core'
  OBVIOUS
<1> DEFINE h == Head(micro)
<1>1. ~Idle /\ h.then = "closed" /\ fired' = fired
  BY DEF Connect
<1>2. CASE h.goal = "connect"
  <2>1. Dial(generation + 1, Null, Rest)
    BY <1>2 DEF Connect
  <2>2. PICK g \in Nat : g = generation + 1
    BY Typed
  <2>3. /\ Rest \in Seq(Continuations) /\ Ordered(Rest) /\ Elems(Rest) \subseteq Here
        /\ \A k \in Elems(Rest) : k.then = "closed" /\ k.goal = "connect"
        /\ \A f \in Futures : \A k \in Asleep(f) : ~IsStop(k)
        /\ \A k \in Continuations : Pending(k) /\ ~IsStop(k) =>
              \E f \in Futures : k \in Asleep(f)
        /\ \A s \in Known : s = channel => s \in closing \/ Sought(s)
    BY <1>1, <1>2, HeadClosed
  <2>4. /\ \A k \in Continuations : Pending(k) => k.gen # g
        /\ g \notin fired /\ g # 0 /\ timer # g /\ g >= generation
    BY <2>2, Younger, Typed
  <2>5. DialReady(g, Rest)
    BY <1>1, <2>3, <2>4 DEF DialReady, Core, Attempt
  <2>6. Dial(g, Null, Rest)
    BY <2>1, <2>2
  <2>7. closing' = closing
    BY <2>6 DEF Dial, Drop
  <2> QED BY <2>3, <2>4, <2>5, <2>6, <2>7, DialCore
<1>3. CASE h.goal # "connect"
  <2>1. /\ stopRequested' = FALSE /\ state' = "error" /\ micro' = Rest /\ channel' = 0
        /\ UNCHANGED <<generation, timer, subscription, sockets, closing, listening,
                       completed, waiting, disposed, fired>>
    BY <1>3 DEF Connect, Null
  <2> QED BY <1>1, <1>3, <2>1, EndCore
<1> QED BY <1>2, <1>3

LEMMA ReopenCore ==
    ASSUME Shape, Core, NEW g \in fired, Reopen(g), ~crossed' PROVE Core'
<1>1. Idle /\ fired' = fired \ {g} /\ Here = {}
  BY NothingHere DEF Reopen
<1>2. CASE Stale(g)
  <2>1. UNCHANGED <<channel, subscription, state, sockets, closing, listening, disposed,
                    stopRequested, generation, timer, completed, waiting, micro>>
    BY <1>2 DEF Reopen, token, queue
  <2>2. Known' = Known /\ Here' = Here /\ \A f \in Futures : Asleep(f)' = Asleep(f)
    BY <2>1 DEF Known, Here, Asleep
  <2>3. Lines'
    <3>1. Lines
      BY CoreParts
    <3> QED BY <2>1, <2>2, <3>1, LinesKept
  <2>4. \A k \in Continuations : Pending(k)' <=> Pending(k)
    BY <2>2 DEF Pending
  <2>5. \A s : Sought(s)' <=> Sought(s)
    BY <2>4 DEF Sought
  <2>6. Stopping'
    BY <2>1, <2>2, <2>4 DEF Core, Stopping
  <2>7. Attempt'
    BY <1>1, <2>1, <2>2, <2>4, <2>5 DEF Core, Attempt
  <2>8. Live' /\ Owned'
    BY <2>1, <2>2, <2>5 DEF Core, Live, Owned
  <2> QED BY <2>3, <2>6, <2>7, <2>8 DEF Core, Lines
<1>3. CASE ~Stale(g)
  <2>1. ~stopRequested /\ g = generation /\ g \in Nat
    BY <1>3, Typed DEF Stale
  <2>2. Dial(g, channel, <<>>)
    BY <1>3, <2>1 DEF Reopen
  <2>3. /\ <<>> \in Seq(Continuations) /\ Elems(<<>>) = {} /\ Ordered(<<>>)
    BY ElemsEmpty, OrderedShort
  <2>4. \A f \in Futures : \A k \in Asleep(f) : ~IsStop(k)
    BY <2>1, ElemsType DEF Core, Stopping, IsStop, Pending, Shape
  <2>5. \A k \in Continuations : Pending(k) => \E f \in Futures : k \in Asleep(f)
    BY <1>1 DEF Pending
  <2>6. /\ \A k \in Continuations : Pending(k) /\ k.then = "ready" => k.gen # g
        /\ g \notin fired' /\ timer # g /\ g # 0 /\ Null \notin fired' /\ fired' \subseteq fired
    BY <1>1, <2>1 DEF Core, Attempt, Null
  <2>7. DialReady(g, <<>>)
    BY <1>1, <2>3, <2>4, <2>5, <2>6 DEF DialReady
  <2>8. \A s \in Known : s = channel => s \in closing' \/ Sought(s)
    BY <2>2, Typed DEF Dial, Drop, Null
  <2>9. g >= generation
    BY <2>1, Typed
  <2> QED BY <2>1, <2>2, <2>3, <2>7, <2>8, <2>9, DialCore
<1> QED BY <1>2, <1>3

\* The attempt that runs runs alone, and no other attempt is about its socket.
LEMMA HeadReady ==
    ASSUME Shape, Core, ~Idle, Head(micro).then = "ready"
    PROVE  /\ Head(micro) \in Here /\ Head(micro) \in Continuations /\ Pending(Head(micro))
           /\ ~IsStop(Head(micro)) /\ Here = {Head(micro)} /\ Elems(Rest) = {}
           /\ Head(micro).socket \in Known /\ Head(micro).socket \in Sockets
           /\ \A f \in Futures : \A k \in Asleep(f) :
                 k.then = "ready" => k.socket # Head(micro).socket
<1> DEFINE h == Head(micro)
<1>1. h \in Here /\ h \in Continuations /\ Pending(h) /\ ~IsStop(h)
  BY HeadEffect DEF Shape, Pending, IsStop
<1>2. micro = <<h>>
  BY <1>1 DEF Core, Runs
<1>3. Here = {h} /\ Rest = <<>>
  <2> HIDE DEF h
  <2> QED BY <1>2 DEF Here, Elems, Rest
<1>4. h.socket \in Known /\ h.socket \in Sockets
  BY <1>1, Numbers
<1>5. Future("ready", h.socket) \in completed
  BY <1>1 DEF Core, Runs
<1>6. \A f \in Futures : \A k \in Asleep(f) : k.then = "ready" => k.socket # h.socket
  BY <1>5 DEF Core, Waits
<1> QED BY <1>1, <1>3, <1>4, <1>6, ElemsEmpty

\* A superseded attempt closes its socket and ends.
LEMMA SupersededCore ==
    ASSUME Shape, Core, ~Idle, Head(micro).then = "ready", Stale(Head(micro).gen),
           micro' = Rest, closing' = closing \cup {Head(micro).socket},
           UNCHANGED <<fired, channel, subscription, state, sockets, listening, completed,
                       waiting, disposed, stopRequested, generation, timer>>
    PROVE  Core'
<1> DEFINE h == Head(micro)
<1>1. /\ h \in Here /\ h \in Continuations /\ Pending(h) /\ ~IsStop(h)
      /\ Here = {h} /\ Elems(Rest) = {}
      /\ \A f \in Futures : \A k \in Asleep(f) : k.then = "ready" => k.socket # h.socket
  BY HeadReady
<1> HIDE DEF h
<1>2. Here' = {} /\ \A f \in Futures : Asleep(f)' = Asleep(f)
  BY <1>1 DEF Here, Asleep
<1>3. \A k \in Continuations : Pending(k) <=> Pending(k)' \/ k = h
  BY <1>1, <1>2 DEF Pending
<1>4. Known' = Known
  BY DEF Known
<1>5. Lines'
  <2>1. Lines
    BY CoreParts
  <2> QED BY <1>4, <2>1, LinesShift
<1>6. Stopping'
  BY <1>1, <1>2, <1>3 DEF Core, Stopping
<1>7. Attempt'
  <2>1. ASSUME NEW k \in Continuations, Pending(k)', k.then = "ready", k.gen = generation
        PROVE  /\ ~stopRequested /\ state # "connected"
               /\ k.socket = channel /\ channel \notin closing' /\ listening = {}
               /\ timer # generation /\ generation \notin fired
    <3>1. Pending(k) /\ k.socket # h.socket
      BY <1>1, <1>2, <1>3, <2>1 DEF Pending
    <3> QED BY <2>1, <3>1 DEF Core, Attempt, h
  <2>2. Sought(channel) => Sought(channel)' \/ channel \in closing'
    BY <1>3 DEF Sought, h
  <2> QED BY <1>2, <1>3, <2>1, <2>2 DEF Core, Attempt
<1>8. Live'
  BY DEF Core, Live
<1>9. Owned'
  BY <1>3, <1>4, OwnedKept DEF Core, h
<1> QED BY <1>5, <1>6, <1>7, <1>8, <1>9 DEF Core, Lines

LEMMA OpenedCore == Shape /\ Core /\ Opened => Core'
<1> SUFFICES ASSUME Shape, Core, Opened PROVE Core'
  OBVIOUS
<1> DEFINE h == Head(micro)
<1>1. /\ ~Idle /\ h.then = "ready" /\ micro' = Rest
      /\ UNCHANGED <<fired, channel, sockets, completed, waiting, disposed, stopRequested,
                     generation, timer>>
  BY DEF Opened, token
<1>2. CASE Stale(h.gen)
  <2>1. /\ closing' = closing \cup {h.socket}
        /\ UNCHANGED <<subscription, listening, state>>
    BY <1>2 DEF Opened
  <2> QED BY <1>1, <1>2, <2>1, SupersededCore
<1>3. CASE ~Stale(h.gen)
  <2>1. /\ subscription' = h.socket /\ listening' = listening \cup {h.socket}
        /\ state' = "connected" /\ closing' = closing
    BY <1>3 DEF Opened
  <2>2. /\ h \in Here /\ h \in Continuations /\ Pending(h) /\ ~IsStop(h)
        /\ Here = {h} /\ Elems(Rest) = {} /\ h.socket \in Known
        /\ \A f \in Futures : \A k \in Asleep(f) : k.then = "ready" => k.socket # h.socket
    BY <1>1, HeadReady
  <2> HIDE DEF h
  <2>3. ~stopRequested /\ h.gen = generation
    BY <1>3 DEF Stale
  <2>4. h.socket = channel /\ channel \notin closing /\ listening = {} /\ h.socket # Null
    BY <1>1, <2>2, <2>3, Typed DEF Core, Attempt, Null
  <2>5. \A f \in Futures : \A k \in Asleep(f) : ~IsStop(k)
    BY <2>3, ElemsType DEF Core, Stopping, IsStop, Pending, Shape
  <2>6. Here' = {} /\ \A f \in Futures : Asleep(f)' = Asleep(f)
    BY <1>1, <2>2 DEF Here, Asleep
  <2>7. /\ \A k \in Continuations : Pending(k)' => ~IsStop(k) /\ Pending(k)
        /\ \A k \in Continuations : Pending(k)' /\ k.then = "ready" => k.socket # channel
        /\ \A k \in Continuations : Pending(k) => Pending(k)' \/ k = h
    BY <2>2, <2>4, <2>5, <2>6 DEF Pending
  <2>8. Known' = Known
    BY <1>1 DEF Known
  <2>9. Lines'
    <3>1. Lines /\ \A f \in Futures : \A k \in Asleep(f) : k.then # "cancelled"
      BY <2>5, CoreParts DEF IsStop
    <3> QED BY <1>1, <2>8, <3>1, LinesShift
  <2>10. Stopping'
    BY <1>1, <2>1, <2>3, <2>4, <2>5, <2>6, <2>7 DEF Stopping, IsStop
  <2>11. Attempt'
    <3>1. ASSUME NEW k \in Continuations, Pending(k)', k.then = "ready" PROVE k.gen # generation
      BY <2>7, <3>1 DEF Core, Attempt
    <3>2. \A k \in Continuations : Pending(k)' => k.then # "closed"
      BY <2>7 DEF IsStop
    <3> QED BY <1>1, <3>1, <3>2 DEF Core, Attempt
  <2>12. Live'
    BY <1>1, <2>1, <2>4 DEF Live, Null
  <2>13. Owned'
    BY <1>1, <2>1, <2>4, <2>7, <2>8, OwnedKept DEF Core
  <2> QED BY <2>9, <2>10, <2>11, <2>12, <2>13 DEF Core, Lines
<1> QED BY <1>2, <1>3

LEMMA RefusedCore == Shape /\ Core /\ Refused => Core'
<1> SUFFICES ASSUME Shape, Core, Refused PROVE Core'
  OBVIOUS
<1> DEFINE h == Head(micro)
<1>1. /\ ~Idle /\ h.then = "ready" /\ closing' = closing \cup {h.socket}
      /\ UNCHANGED <<fired, subscription, state, sockets, listening, completed, disposed,
                     stopRequested, generation, timer>>
  BY DEF Refused, token
<1>2. CASE Stale(h.gen)
  <2>1. micro' = Rest /\ UNCHANGED <<channel, waiting>>
    BY <1>2 DEF Refused
  <2> QED BY <1>1, <1>2, <2>1, SupersededCore
<1>3. CASE ~Stale(h.gen)
  <2>1. /\ h \in Here /\ h \in Continuations /\ Pending(h) /\ ~IsStop(h)
        /\ Here = {h} /\ h.socket \in Known /\ h.socket \in Sockets
        /\ \A f \in Futures : \A k \in Asleep(f) : k.then = "ready" => k.socket # h.socket
    BY <1>1, HeadReady
  <2>2. PICK s \in Sockets, g \in Nat : s = h.socket /\ g = h.gen
    BY <2>1 DEF Continuations
  <2>3. channel' = 0 /\ Await(Open("failed", g, s), Future("close", s), Rest)
    BY <1>3, <2>2 DEF Refused, Null
  <2> DEFINE c == Open("failed", g, s)
  <2>4. c \in Continuations /\ ~IsStop(c) /\ c.then = "failed"
    BY OpenType
  <2>5. ~stopRequested /\ h.gen = generation
    BY <1>3 DEF Stale
  <2>6. /\ s = channel /\ channel \notin closing /\ listening = {} /\ state # "connected"
        /\ s \in Known
    BY <1>1, <2>1, <2>2, <2>5 DEF Core, Attempt
  <2>7. \A f \in Futures : \A k \in Asleep(f) : ~IsStop(k)
    BY <2>5, ElemsType DEF Core, Stopping, IsStop, Pending, Shape
  <2>8. /\ Lines'
        /\ \A k \in Continuations : Pending(k)' => k = c \/ \E f \in Futures : k \in Asleep(f)
        /\ \A f \in Futures : \A k \in Asleep(f) : Pending(k)'
    <3>1. Lines
      BY CoreParts
    <3>2. UNCHANGED <<sockets, completed, disposed>>
      BY <1>1
    <3> QED BY <1>1, <2>3, <2>6, <2>7, <3>1, <3>2, LinesRefused
  <2> HIDE DEF h, c
  <2>9. /\ \A k \in Continuations : Pending(k)' => ~IsStop(k) /\ (k = c \/ Pending(k))
        /\ \A k \in Continuations : Pending(k)' /\ k.then = "ready" => k.socket # channel
        /\ \A k \in Continuations : Pending(k) => Pending(k)' \/ k = h
    BY <2>1, <2>2, <2>4, <2>6, <2>7, <2>8 DEF Pending
  <2>10. Known' = Known
    BY <1>1 DEF Known
  <2>11. Stopping'
    <3>1. \A f \in Futures : \A k \in Asleep(f)' : k \in Continuations => k.then # "closed"
      BY <2>9 DEF Pending, IsStop
    <3>2. \A f \in Futures : Asleep(f)' \subseteq Continuations
      <4>1. waiting' \in [Futures -> Seq(Continuations)]
        BY RefusedShape DEF Shape, TypeOK
      <4> QED BY <4>1, ElemsTyped DEF Asleep
    <3> QED BY <1>1, <2>5, <2>6, <2>9, <3>1, <3>2 DEF Stopping, IsStop
  <2>12. Attempt'
    <3>1. ASSUME NEW k \in Continuations, Pending(k)', k.then = "ready" PROVE k.gen # generation
      BY <2>4, <2>9, <3>1 DEF Core, Attempt
    <3>2. \A k \in Continuations : Pending(k)' => k.then # "closed"
      BY <2>9 DEF IsStop
    <3> QED BY <1>1, <3>1, <3>2 DEF Core, Attempt
  <2>13. Live'
    BY <1>1, <2>6 DEF Live
  <2>14. Owned'
    BY <1>1, <2>2, <2>6, <2>9, <2>10, OwnedKept DEF Core
  <2> QED BY <2>8, <2>11, <2>12, <2>13, <2>14 DEF Core, Lines
<1> QED BY <1>2, <1>3

\* A report after which the session is retried, or was being stopped already.
LEMMA RetryCore ==
    ASSUME Shape, Core, ScheduleReconnect(stopRequested, generation), Lines',
           stopRequested' = stopRequested, listening' \subseteq listening,
           UNCHANGED <<fired, channel, subscription, closing, disposed, waiting>>,
           Len(sockets') = Len(sockets),
           \A s \in Known : sockets[s] = "dead" => sockets'[s] = "dead",
           \A k \in Here' : k \in Here,
           \A k \in Here : k.then = "failed"
    PROVE  Core'
<1>1. Known' = Known /\ \A f \in Futures : Asleep(f)' = Asleep(f)
  BY DEF Known, Asleep
<1>2. /\ \A k \in Continuations : Pending(k)' => Pending(k)
      /\ \A k \in Continuations : Pending(k) /\ k.then # "failed" => Pending(k)'
  BY <1>1 DEF Pending
<1>3. \A s : Sought(s) <=> Sought(s)'
  BY <1>2 DEF Sought
<1>4. \/ stopRequested /\ state' = "error" /\ generation' = generation /\ timer' = timer
      \/ /\ ~stopRequested /\ state' = "reconnecting"
         /\ generation' = generation + 1 /\ timer' = generation + 1
  BY DEF ScheduleReconnect
<1>5. Stopping'
  <2>1. ASSUME stopRequested', ~disposed'
        PROVE  \/ \E k \in Continuations : Pending(k)' /\ IsStop(k)
               \/ channel' = Null /\ state' \in {"disconnected", "error"}
    BY <1>2, <1>4, <2>1 DEF Core, Stopping, IsStop
  <2> QED BY <1>1, <1>2, <1>4, <2>1 DEF Core, Stopping
<1>6. Attempt'
  <2>1. CASE stopRequested
    <3>1. \A k \in Continuations : Pending(k)' /\ k.then = "ready" => k.gen # generation'
      BY <1>2, <1>4, <2>1 DEF Core, Attempt
    <3> QED BY <1>2, <1>3, <1>4, <2>1, <3>1 DEF Core, Attempt
  <2>2. CASE ~stopRequested
    <3>1. generation + 1 \in Nat /\ generation + 1 > generation
      BY Typed
    <3>2. /\ \A k \in Continuations : Pending(k) => k.gen # generation'
          /\ generation' \notin fired
      BY <1>4, <2>2, <3>1, Younger
    <3> QED BY <1>2, <1>3, <3>2 DEF Core, Attempt
  <2> QED BY <2>1, <2>2
<1>7. Live'
  BY <1>4 DEF Live
<1>8. Owned'
  BY <1>1, <1>3 DEF Core, Owned
<1> QED BY <1>5, <1>6, <1>7, <1>8 DEF Core, Lines

LEMMA ReportCore == Shape /\ Core /\ Report /\ ~crossed' => Core'
<1> SUFFICES ASSUME Shape, Core, Report, ~crossed' PROVE Core'
  OBVIOUS
<1> DEFINE h == Head(micro)
<1>1. /\ ~Idle /\ h.then = "failed" /\ listening' = StillHeard
      /\ ReportError(stopRequested, generation, subscription, Rest)
      /\ UNCHANGED <<fired, channel, subscription, sockets, closing, completed, disposed>>
  BY DEF Report
<1>2. h \in Here /\ ~IsStop(h)
  BY <1>1, HeadEffect DEF Shape, IsStop
<1>3. micro = <<h>>
  BY <1>2 DEF Core, Runs
<1>4. Rest = <<>> /\ Here = {h}
  <2> HIDE DEF h
  <2> QED BY <1>3 DEF Here, Elems, Rest
<1>5. CASE state' = "error" /\ Stop("disconnect", generation, subscription, Rest)
  <2>1. stopRequested' /\ listening' = listening \ {subscription}
    BY <1>1, <1>5 DEF Stop, StillHeard
  <2>2. Stop("disconnect", generation, subscription, <<>>) /\ "disconnect" \in Goals
    BY <1>4, <1>5 DEF Goals
  <2>3. \A k \in Here : k.then = "failed"
    BY <1>1, <1>4
  <2> QED BY <1>1, <2>1, <2>2, <2>3, StopCore
<1>6. CASE /\ ScheduleReconnect(stopRequested, generation)
           /\ stopRequested' = stopRequested /\ micro' = Rest
           /\ UNCHANGED <<waiting, calls, crossed>>
  <2>1. Lines'
    <3>1. Lines /\ Known \subseteq Known'
      BY <1>1, CoreParts DEF Known
    <3> QED BY <1>1, <1>6, <3>1, LinesShift
  <2>2. \A k \in Here' : k \in Here
    BY <1>4, <1>6, ElemsEmpty DEF Here
  <2>3. \A k \in Here : k.then = "failed"
    BY <1>1, <1>4
  <2>4. listening' \subseteq listening
    BY <1>1 DEF StillHeard
  <2> QED BY <1>1, <1>6, <2>1, <2>2, <2>3, <2>4, RetryCore
<1> QED BY <1>1, <1>5, <1>6 DEF ReportError

LEMMA SocketCore ==
    ASSUME Shape, Core, NEW s \in Known,
           SocketOpens(s) \/ SocketFails(s) \/ SocketCloses(s) \/ CancelCompletes(s)
    PROVE  Core'
<1>1. /\ UNCHANGED <<fired, channel, subscription, state, closing, listening, disposed,
                     stopRequested, generation, timer>>
      /\ \/ sockets' = sockets
         \/ \E v \in {"open", "dead"} : sockets' = [sockets EXCEPT ![s] = v]
      /\ sockets' = sockets \/ sockets[s] = "opening"
            \/ sockets' = [sockets EXCEPT ![s] = "dead"]
  BY DEF SocketOpens, SocketFails, SocketCloses, CancelCompletes, history, token
<1>2. PICK what \in {"ready", "close", "cancel"} : Complete(Future(what, s))
  BY DEF SocketOpens, SocketFails, SocketCloses, CancelCompletes
<1>3. Future(what, s) \in Futures /\ Future(what, s).socket \in Known
  <2>1. s \in Sockets
    BY Typed DEF Sockets
  <2> QED BY <2>1, FutureType
<1>4. Known' = Known /\ \A t \in Known : sockets[t] = "dead" => sockets'[t] = "dead"
  <2>1. ASSUME NEW v \in {"open", "dead"}, sockets' = [sockets EXCEPT ![s] = v]
        PROVE  /\ Len(sockets') = Len(sockets) /\ sockets'[s] = v
               /\ \A t \in Known \ {s} : sockets'[t] = sockets[t]
    BY <2>1, Typed DEF Known
  <2> QED BY <1>1, <2>1 DEF Known
<1>5. PICK f \in Futures : f.socket \in Known /\ Complete(f)
  BY <1>2, <1>3
<1>6. /\ Here = {} /\ Here' = Asleep(f) /\ Asleep(f)' = {}
      /\ \A g \in Futures \ {f} : Asleep(g)' = Asleep(g)
  BY <1>5, CompleteEffect DEF Shape
<1>7. Lines'
  <2>1. Lines
    BY CoreParts
  <2> QED BY <1>1, <1>4, <1>5, <2>1, LinesComplete
<1>8. \A k \in Continuations : Pending(k)' <=> Pending(k)
  BY <1>6 DEF Pending
<1>9. \A t : Sought(t)' <=> Sought(t)
  BY <1>8 DEF Sought
<1>10. Stopping'
  <2>1. \A g \in Futures : \A k \in Asleep(g)' : k.then = "closed" => stopRequested
    BY <1>6 DEF Core, Stopping
  <2> QED BY <1>1, <1>8, <2>1 DEF Core, Stopping
<1>11. Attempt'
  <2>1. ~stopRequested => \A j \in Here' : j.then # "closed"
    BY <1>6 DEF Core, Stopping
  <2> QED BY <1>1, <1>8, <1>9, <2>1 DEF Core, Attempt
<1>12. Live' /\ Owned'
  BY <1>1, <1>4, <1>9 DEF Core, Live, Owned
<1> QED BY <1>7, <1>10, <1>11, <1>12 DEF Core, Lines

LEMMA PeerDropsCore ==
    ASSUME Shape, Core, NEW s \in Known, PeerDrops(s), ~crossed' PROVE Core'
<1>1. /\ Idle /\ s \in listening /\ sockets' = [sockets EXCEPT ![s] = "dead"]
      /\ listening' = StillHeard \ {s}
      /\ UNCHANGED <<fired, channel, subscription, closing, completed, disposed>>
  BY DEF PeerDrops
<1>2. ~stopRequested
  BY <1>1 DEF Core, Stopping
<1>3. ReportError(stopRequested, generation, subscription, <<>>)
  BY <1>2 DEF PeerDrops
<1>4. /\ Len(sockets') = Len(sockets) /\ Known' = Known
      /\ \A t \in Known : sockets[t] = "dead" => sockets'[t] = "dead"
  BY <1>1, Typed DEF Known
<1>5. Here = {}
  BY <1>1, NothingHere
<1>6. CASE state' = "error" /\ Stop("disconnect", generation, subscription, <<>>)
  <2>1. listening' \subseteq listening \ {subscription}
    BY <1>1, <1>6 DEF Stop, StillHeard
  <2>2. "disconnect" \in Goals
    BY DEF Goals
  <2> QED BY <1>1, <1>4, <1>5, <1>6, <2>1, <2>2, StopCore
<1>7. CASE /\ ScheduleReconnect(stopRequested, generation)
           /\ stopRequested' = stopRequested /\ micro' = <<>>
           /\ UNCHANGED <<waiting, calls, crossed>>
  <2>1. micro' = micro /\ Here' = {}
    BY <1>1, <1>5, <1>7 DEF Idle, Here
  <2>2. Lines'
    <3>1. Lines
      BY CoreParts
    <3> QED BY <1>1, <1>4, <1>7, <2>1, <3>1, LinesKept
  <2>3. listening' \subseteq listening
    BY <1>1 DEF StillHeard
  <2> QED BY <1>1, <1>4, <1>5, <1>7, <2>1, <2>2, <2>3, RetryCore
<1> QED BY <1>3, <1>6, <1>7 DEF ReportError

LEMMA DisposeCore == Shape /\ Core /\ Dispose => Core'
<1> SUFFICES ASSUME Shape, Core, Dispose PROVE Core'
  OBVIOUS
<1>1. /\ Idle /\ disposed' = TRUE /\ stopRequested' = TRUE
      /\ generation' = generation + 1 /\ timer' = 0 /\ Drop(channel) /\ channel' = 0
      /\ UNCHANGED <<fired, state, sockets, completed, waiting, micro>>
  BY DEF Dispose, queue, Null
<1>2. Here = {} /\ Here' = {} /\ \A f \in Futures : Asleep(f)' = Asleep(f)
  BY <1>1, NothingHere DEF Here, Asleep
<1>3. Known' = Known
  BY <1>1 DEF Known
<1>4. \A k \in Continuations : Pending(k)' <=> Pending(k)
  BY <1>2 DEF Pending
<1>5. /\ subscription' = 0 /\ listening' = {} /\ closing \subseteq closing'
      /\ channel = Null \/ channel \in closing'
  BY <1>1, DropCore
<1>6. Lines'
  <2>1. Lines
    BY CoreParts
  <2> QED BY <1>1, <1>2, <1>3, <2>1, LinesKept
<1>7. Stopping'
  BY <1>1, <1>4, <1>5 DEF Stopping, Null
<1>8. Attempt'
  <2>1. generation + 1 \in Nat /\ generation + 1 > generation
    BY Typed
  <2>2. /\ \A k \in Continuations : Pending(k) => k.gen # generation'
        /\ generation' \notin fired
    BY <1>1, <2>1, Younger
  <2> QED BY <1>1, <1>4, <2>2 DEF Core, Attempt, Null
<1>9. Live'
  BY <1>1 DEF Live
<1>10. Owned'
  <2>1. \A t \in Known : t = channel => t \in closing'
    BY <1>5, Typed DEF Known, Null
  <2> QED BY <1>1, <1>3, <1>4, <1>5, <2>1, OwnedKept DEF Core
<1> QED BY <1>6, <1>7, <1>8, <1>9, <1>10 DEF Core, Lines

-----------------------------------------------------------------------------
(* The theorems *)

LEMMA CoreInit == Init => Core
<1> SUFFICES ASSUME Init PROVE Core
  OBVIOUS
<1>1. /\ stopRequested = FALSE /\ timer = 0 /\ generation = 0 /\ fired = {}
      /\ channel = 0 /\ subscription = 0 /\ state = "disconnected" /\ sockets = <<>>
      /\ listening = {} /\ completed = {} /\ micro = <<>>
      /\ waiting = [f \in Futures |-> <<>>]
  BY DEF Init, Null
<1>2. Here = {} /\ \A f \in Futures : Asleep(f) = {}
  BY <1>1, ElemsEmpty DEF Here, Asleep
<1>3. \A k \in Continuations : ~Pending(k)
  BY <1>2 DEF Pending
<1>4. Waits /\ Runs /\ Cancels /\ Closes /\ GoalOrder
  BY <1>1, <1>2, <1>3 DEF Waits, Runs, Cancels, Closes, GoalOrder
<1>5. Queues
  BY <1>1, OrderedShort DEF Queues
<1>6. Stopping /\ Attempt
  BY <1>1, <1>2, <1>3 DEF Stopping, Attempt, Null
<1>7. Live /\ Owned
  BY <1>1 DEF Live, Owned, Known
<1> QED BY <1>4, <1>5, <1>6, <1>7 DEF Core

\* A crossing is never forgotten.
LEMMA CrossedStays == [Next]_vars /\ crossed => crossed'
<1>1. ASSUME NEW goal, NEW g, NEW feed, NEW q, Stop(goal, g, feed, q), crossed PROVE crossed'
  BY <1>1 DEF Stop
<1>2. ASSUME NEW stop, NEW g, NEW feed, NEW q, ReportError(stop, g, feed, q), crossed
      PROVE  crossed'
  BY <1>1, <1>2 DEF ReportError
<1>3. ASSUME NEW g, NEW held, NEW q, Dial(g, held, q), crossed PROVE crossed'
  BY <1>2, <1>3 DEF Dial
<1>4. Microtask /\ crossed => crossed'
  BY <1>2, <1>3 DEF Microtask, Cancelled, Closed, Connect, Opened, Refused, Report, history
<1>5. (Fire \/ Dispose \/ UNCHANGED vars) /\ crossed => crossed'
  BY DEF Fire, Dispose, history, vars
<1>6. ASSUME NEW goal \in Goals, Begin(goal), crossed PROVE crossed'
  BY <1>1, <1>6 DEF Begin
<1>7. ASSUME NEW g \in fired, Reopen(g), crossed PROVE crossed'
  BY <1>3, <1>7 DEF Reopen
<1>8. ASSUME NEW s \in Known, crossed,
             \/ SocketOpens(s) \/ SocketFails(s) \/ SocketCloses(s) \/ CancelCompletes(s)
             \/ PeerDrops(s)
      PROVE  crossed'
  BY <1>2, <1>8 DEF SocketOpens, SocketFails, SocketCloses, CancelCompletes, PeerDrops, history
<1> QED BY <1>4, <1>5, <1>6, <1>7, <1>8 DEF Next

LEMMA CoreStep == Shape /\ Core /\ [Next]_vars /\ ~crossed' => Core'
<1> SUFFICES ASSUME Shape, Core, [Next]_vars, ~crossed' PROVE Core'
  OBVIOUS
<1>1. CASE UNCHANGED vars
  <2>1. /\ UNCHANGED <<stopRequested, generation, timer, fired, channel, subscription, state,
                       sockets, closing, listening, completed, waiting, micro, disposed>>
    BY <1>1 DEF vars
  <2>2. Here' = Here /\ (\A f \in Futures : Asleep(f)' = Asleep(f)) /\ Known' = Known
    BY <2>1 DEF Here, Asleep, Known
  <2>3. \A k \in Continuations : Pending(k)' <=> Pending(k)
    BY <2>2 DEF Pending
  <2>4. \A s : Sought(s)' <=> Sought(s)
    BY <2>3 DEF Sought
  <2>5. Lines'
    <3>1. Lines
      BY CoreParts
    <3> QED BY <2>1, <2>2, <3>1, LinesKept
  <2>6. Stopping' /\ Attempt'
    BY <2>1, <2>2, <2>3, <2>4 DEF Core, Stopping, Attempt
  <2>7. Live' /\ Owned'
    BY <2>1, <2>2, <2>4 DEF Core, Live, Owned
  <2> QED BY <2>5, <2>6, <2>7 DEF Core, Lines
<1>2. CASE Microtask
  BY <1>2, CancelledCore, ClosedCore, ConnectCore, OpenedCore, RefusedCore, ReportCore
  DEF Microtask
<1>3. CASE Next /\ ~Microtask
  BY <1>3, FireCore, DisposeCore, BeginCore, ReopenCore, SocketCore, PeerDropsCore DEF Next
<1> QED BY <1>1, <1>2, <1>3

LEMMA ConnStep == ConnInv /\ [Next]_vars => ConnInv'
<1> SUFFICES ASSUME ConnInv, [Next]_vars PROVE ConnInv'
  OBVIOUS
<1>1. Shape'
  BY ShapeStep DEF ConnInv
<1>2. ~crossed' => Core'
  BY CrossedStays, CoreStep DEF ConnInv
<1> QED BY <1>1, <1>2 DEF ConnInv

\* The inductive invariant: the queues' shape at each stage of a connect, a disconnect
\* and an attempt, what each stage has silenced and who owns each socket.
THEOREM Invariance == Spec => []ConnInv
<1>1. Init => ConnInv
  BY ShapeInit, CoreInit DEF ConnInv
<1> QED BY <1>1, ConnStep, PTL DEF Spec

\* Unless a stop is under way, "connected" is a live channel that is listened to
\* (_open and _onDone), on any number of calls, sockets and faults.
THEOREM LiveChannel == Spec => []ConnectedIsLive
<1>1. ConnInv => ConnectedIsLive
  BY DEF ConnInv, Core, Live, ConnectedIsLive
<1> QED BY <1>1, Invariance, PTL

\* An attempt that will still see the socket's outcome is among the microtasks or
\* waits for a future.
LEMMA SoughtAttempted == ASSUME Shape, NEW s, Sought(s) PROVE Attempted(s)
BY DEF Sought, Pending, Here, Asleep, Elems, Attempted

\* No socket is left to itself: it is dead, being closed, the channel, or an attempt
\* will still see that it was superseded (_open's look at the token after its await).
THEOREM Ownership == Spec => []NoOrphan
<1>1. ConnInv => NoOrphan
  BY SoughtAttempted DEF ConnInv, Core, Owned, NoOrphan
<1> QED BY <1>1, Invariance, PTL

\* Once a requested stop has run its course nothing is connected, dialled or retried
\* until the next connect (disconnect and the guards on _stopRequested).
THEOREM Silence == Spec => []StoppedIsSilent
<1>1. ASSUME ConnInv, ~crossed, stopRequested, Idle, \A f \in Futures : waiting[f] = <<>>
      PROVE  /\ listening = {} /\ channel = Null /\ timer = Null
             /\ disposed \/ state \in {"disconnected", "error"}
  <2>1. Shape /\ Core
    BY <1>1 DEF ConnInv
  <2>2. Here = {}
    BY <1>1, <2>1, NothingHere
  <2>3. \A f \in Futures : Asleep(f) = {}
    BY <1>1, ElemsEmpty DEF Asleep
  <2>4. \A k \in Continuations : ~Pending(k)
    BY <2>2, <2>3 DEF Pending
  <2> QED BY <1>1, <2>1, <2>4 DEF Core, Stopping
<1>2. ConnInv => StoppedIsSilent
  BY <1>1 DEF StoppedIsSilent
<1> QED BY <1>2, Invariance, PTL

=============================================================================
