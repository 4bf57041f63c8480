-------------------------- MODULE StateSync_proofs --------------------------
(***************************************************************************)
(* IInv is an invariant of the state stream, and StateSync's safety        *)
(* properties follow from it; and StateSync implements StateMirror: every  *)
(* step of the queues, the hub and the client is a publication, an         *)
(* observation of one published state, the end of some sessions, a         *)
(* restart, or nothing.  For every number of clients, every topic map,     *)
(* every buffer size and every bound.                                      *)
(*                                                                         *)
(* That patches rebuild what they were made of is proved by induction on   *)
(* how deep documents are nested.                                          *)
(***************************************************************************)
EXTENDS StateSyncInv, SequenceTheorems, WellFoundedInduction, TLAPS

-----------------------------------------------------------------------------
(* States, views and patches *)

LEMMA ViewType ==
    ASSUME NEW s \in States, NEW scope
    PROVE  View(s, scope) \in States
BY ConstantsAssumption DEF View, States

LEMMA StatesArePatches == States \subseteq Patches
BY DEF States, Patches

LEMMA DiffType ==
    ASSUME NEW old \in States, NEW new \in States
    PROVE  Diff(old, new) \in Patches
<1>1. Diff(old, new) \in [{g \in Fields : old[g] # new[g]} -> Vals]
  BY DEF Diff, States
<1> QED BY <1>1 DEF Patches

LEMMA ScopedType ==
    ASSUME NEW patch \in Patches, NEW scope
    PROVE  Scoped(patch, scope) \in Patches
<1>1. PICK D \in SUBSET Fields : patch \in [D -> Vals]
  BY DEF Patches
<1>2. Scoped(patch, scope) \in [{g \in D : TopicOf[g] \in scope} -> Vals]
  BY <1>1 DEF Scoped
<1> QED BY <1>2 DEF Patches

LEMMA NoPatchType == NoPatch \in Patches
<1>1. NoPatch \in [{} -> Vals]
  BY DEF NoPatch
<1> QED BY <1>1 DEF Patches

LEMMA MergeType ==
    ASSUME NEW data \in States, NEW patch \in Patches
    PROVE  Merge(data, patch) \in States
<1>1. PICK D \in SUBSET Fields : patch \in [D -> Vals]
  BY DEF Patches
<1> QED BY <1>1 DEF Merge, States

\* Applying the scoped difference of two states to the view of the first gives
\* the view of the second.
LEMMA MergeDiff ==
    ASSUME NEW old \in States, NEW new \in States, NEW scope
    PROVE  Merge(View(old, scope), Scoped(Diff(old, new), scope)) = View(new, scope)
BY DEF Merge, View, Scoped, Diff, States

\* A difference a subscription sees nothing of leaves its view alone.
LEMMA InvisibleDiff ==
    ASSUME NEW old \in States, NEW new \in States, NEW scope,
           DOMAIN Scoped(Diff(old, new), scope) = {}
    PROVE  View(old, scope) = View(new, scope)
<1>1. DOMAIN Scoped(Diff(old, new), scope)
        = {g \in Fields : old[g] # new[g] /\ TopicOf[g] \in scope}
  BY DEF Scoped, Diff
<1> QED BY <1>1 DEF View, States

\* The full subscription sees every change.
LEMMA FullScope ==
    ASSUME NEW old \in States, NEW new \in States, old # new
    PROVE  DOMAIN Scoped(Diff(old, new), Topics) # {}
<1>1. DOMAIN Scoped(Diff(old, new), Topics)
        = {g \in Fields : old[g] # new[g] /\ TopicOf[g] \in Topics}
  BY DEF Scoped, Diff
<1>2. PICK g \in Fields : old[g] # new[g]
  BY DEF States
<1> QED BY <1>1, <1>2, ConstantsAssumption

-----------------------------------------------------------------------------
(* Frames and queues *)

LEMMA FrameType ==
    ASSUME NEW type \in {"hello", "state", "delta", "other"}, NEW r \in Nat,
           NEW scope \in SUBSET Topics, NEW body \in Patches,
           type = "state" => body \in States
    PROVE  /\ Frame(type, r, scope, body) \in Frames
           /\ Frame(type, r, scope, body).type = type
           /\ Frame(type, r, scope, body).rev = r
           /\ Frame(type, r, scope, body).scope = scope
           /\ Frame(type, r, scope, body).body = body
           /\ StampOf(Frame(type, r, scope, body)) = [rev |-> r, scope |-> scope]
BY DEF Frame, Frames, StampOf

LEMMA NewestType ==
    ASSUME TypeOK, NEW c \in Clients
    PROVE  Newest(c) \in Stamps
<1>1. CASE chan[c] = <<>>
  BY <1>1 DEF Newest, TypeOK
<1>2. CASE chan[c] # <<>>
  <2>1. chan[c] \in Seq(Frames) /\ Len(chan[c]) \in 1..Len(chan[c])
    BY <1>2, EmptySeq DEF TypeOK
  <2>2. chan[c][Len(chan[c])] \in Frames
    BY <2>1
  <2> QED BY <1>2, <2>2 DEF Newest, StampOf, Stamps, Frames
<1> QED BY <1>1, <1>2

LEMMA SnapshotType ==
    ASSUME TypeOK, NEW c \in Clients
    PROVE  Snapshot(c) \in Frames
<1>1. View(store, topics[c]) \in States /\ View(store, topics[c]) \in Patches
  BY ViewType, StatesArePatches DEF TypeOK
<1>2. rev \in Nat /\ topics[c] \in SUBSET Topics
  BY ConstantsAssumption DEF TypeOK
<1> QED BY <1>1, <1>2, FrameType DEF Snapshot

LEMMA OtherType ==
    ASSUME TypeOK, NEW c \in Clients
    PROVE  Other(c) \in Frames
BY NewestType, NoPatchType, FrameType DEF Other, Stamps

\* A frame put at the end of a queue that the lane has room for.
LEMMA AppendType ==
    ASSUME TypeOK, NEW c \in Clients, NEW f \in Frames, ~Full(c), LinkInv(c)
    PROVE  /\ Append(chan[c], f) \in Seq(Frames)
           /\ Len(Append(chan[c], f)) = Len(chan[c]) + 1
           /\ Len(Append(chan[c], f)) - written[c] <= SendBuffer
<1>1. Len(chan[c]) \in Nat /\ written[c] \in Nat /\ SendBuffer \in Nat
  BY ConstantsAssumption DEF TypeOK
<1>2. Len(chan[c]) - written[c] < SendBuffer
  BY <1>1 DEF Full
<1>3. chan[c] \in Seq(Frames)
  BY DEF TypeOK
<1>4. Len(Append(chan[c], f)) = Len(chan[c]) + 1 /\ Append(chan[c], f) \in Seq(Frames)
  BY <1>3, AppendProperties
<1> QED BY <1>1, <1>2, <1>4

LEMMA TailType ==
    ASSUME TypeOK, NEW c \in Clients, written[c] > 0, LinkInv(c)
    PROVE  /\ chan[c] # <<>> /\ Head(chan[c]) \in Frames
           /\ Head(chan[c]) = chan[c][1]
           /\ Tail(chan[c]) \in Seq(Frames)
           /\ Len(chan[c]) \in Nat \ {0}
           /\ Len(Tail(chan[c])) = Len(chan[c]) - 1
           /\ \A i \in 1..Len(Tail(chan[c])) : Tail(chan[c])[i] = chan[c][i + 1]
<1>1. chan[c] \in Seq(Frames) /\ written[c] \in Nat /\ written[c] <= Len(chan[c])
  BY DEF TypeOK, LinkInv
<1>2. Len(chan[c]) \in Nat \ {0} /\ chan[c] # <<>>
  BY <1>1, EmptySeq
<1> QED BY <1>1, <1>2, HeadTailProperties

-----------------------------------------------------------------------------
(* Type correctness *)

LEMMA InitType == Init => TypeOK
<1> SUFFICES ASSUME Init PROVE TypeOK
  OBVIOUS
<1>1. Blank \in States
  BY ConstantsAssumption DEF Blank, States
<1>2. NoMirror \in Mirrors /\ NoStamp \in Stamps
  BY <1>1 DEF NoMirror, Mirrors, NoStamp, Stamps
<1>3. rev \in 0..MaxRev /\ hist \in [0..rev -> States]
  BY <1>1, ConstantsAssumption DEF Init
<1>4. \A c \in Clients : Len(chan[c]) - written[c] <= SendBuffer
  <2> TAKE c \in Clients
  <2>1. Len(chan[c]) = 0
    BY DEF Init
  <2>2. written[c] = 0
    BY DEF Init
  <2> QED BY <2>1, <2>2, ConstantsAssumption
<1> QED BY <1>1, <1>2, <1>3, <1>4, EmptySeq DEF Init, TypeOK

\* An Enqueue keeps the types of the variables it changes.
LEMMA EnqueueType ==
    ASSUME TypeOK, NEW c \in Clients, NEW f \in Frames, LinkInv(c),
           NEW members \in SUBSET Clients, Enqueue(c, f, members), written' = written
    PROVE  /\ link' \in [Clients -> {"down", "up", "draining", "dead"}]
           /\ hub' \subseteq Clients
           /\ chan' \in [Clients -> Seq(Frames)]
           /\ \A d \in Clients : Len(chan'[d]) - written'[d] <= SendBuffer
<1>1. CASE Full(c)
  BY <1>1 DEF Enqueue, TypeOK
<1>2. CASE ~Full(c)
  <2>1. Append(chan[c], f) \in Seq(Frames) /\ Len(Append(chan[c], f)) - written[c] <= SendBuffer
    BY <1>2, AppendType
  <2>2. chan' = [chan EXCEPT ![c] = Append(chan[c], f)] /\ hub' = members /\ link' = link
    BY <1>2 DEF Enqueue
  <2> QED BY <2>1, <2>2 DEF TypeOK
<1> QED BY <1>1, <1>2

\* The definitions a step may have to unfold to see which variables it keeps.
LEMMA TypeStep ==
    ASSUME IInv, [Next]_vars
    PROVE  TypeOK'
<1> USE ConstantsAssumption
<1>t. TypeOK /\ \A c \in Clients : LinkInv(c)
  BY DEF IInv
<1>1. ASSUME NEW new \in States, Update(new) PROVE TypeOK'
  <2>1. rev' \in 0..MaxRev /\ hist' \in [0..rev' -> States] /\ store' \in States
    BY <1>t, <1>1 DEF Update, TypeOK
  <2>2. Diff(store, new) \in Patches
    BY <1>t, <1>1, DiffType DEF TypeOK
  <2> DEFINE frame(c) == Frame("delta", rev + 1, topics[c], Scoped(Diff(store, new), topics[c]))
             goes(c)  == c \in hub /\ DOMAIN Scoped(Diff(store, new), topics[c]) # {} /\ ~Full(c)
  <2>3. ASSUME NEW c \in Clients PROVE frame(c) \in Frames
    <3>1. rev + 1 \in Nat /\ topics[c] \in SUBSET Topics
      BY <1>t DEF TypeOK
    <3> QED BY <3>1, <2>2, ScopedType, FrameType
  <2>4. chan' = [c \in Clients |-> IF goes(c) THEN Append(chan[c], frame(c)) ELSE chan[c]]
    BY <1>1 DEF Update, Broadcast
  <2>5. ASSUME NEW c \in Clients
        PROVE  chan'[c] \in Seq(Frames) /\ Len(chan'[c]) - written[c] <= SendBuffer
    <3>1. CASE goes(c)
      BY <3>1, <2>3, <2>4, <1>t, AppendType
    <3>2. CASE ~goes(c)
      BY <3>2, <2>4, <1>t DEF TypeOK
    <3> QED BY <3>1, <3>2
  <2>6. chan' \in [Clients -> Seq(Frames)]
    BY <2>4, <2>5
  <2>7. link' \in [Clients -> {"down", "up", "draining", "dead"}] /\ hub' \subseteq Clients
    BY <1>t, <1>1 DEF Update, Broadcast, TypeOK
  <2> QED BY <2>1, <2>5, <2>6, <2>7, <1>t, <1>1 DEF Update, TypeOK, clientVars
<1>2. ASSUME Restart PROVE TypeOK'
  <2>1. Blank \in States
    BY DEF Blank, States
  <2>2. rev' \in 0..MaxRev /\ hist' \in [0..rev' -> States] /\ store' \in States
    BY <2>1, <1>2 DEF Restart
  <2>3. link' \in [Clients -> {"down", "up", "draining", "dead"}] /\ hub' \subseteq Clients
    BY <1>t, <1>2 DEF Restart, TypeOK
  <2> QED BY <2>2, <2>3, <1>t, <1>2 DEF Restart, TypeOK, clientVars
<1>3. ASSUME NEW c \in Clients, Connect(c) PROVE TypeOK'
  <2> DEFINE first  == Frame("hello", 0, {}, NoPatch)
             second == Frame("state", rev, Topics, View(store, Topics))
  <2>1. first \in Frames
    BY NoPatchType, FrameType
  <2>2. second \in Frames
    <3>1. View(store, Topics) \in States /\ View(store, Topics) \in Patches
      BY <1>t, ViewType, StatesArePatches DEF TypeOK
    <3>2. rev \in Nat
      BY <1>t DEF TypeOK
    <3> QED BY <3>1, <3>2, FrameType
  <2>3. <<first, second>> \in Seq(Frames) /\ Len(<<first, second>>) = 2
    BY <2>1, <2>2
  <2>4. written[c] = 0
    BY <1>t, <1>3 DEF Connect, LinkInv, Fresh
  <2>5. chan' = [chan EXCEPT ![c] = <<first, second>>] /\ written' = written
    BY <1>3 DEF Connect
  <2>6. chan' \in [Clients -> Seq(Frames)]
    BY <2>3, <2>5, <1>t DEF TypeOK
  <2>7. \A d \in Clients : Len(chan'[d]) - written'[d] <= SendBuffer
    BY <2>3, <2>4, <2>5, <1>t DEF TypeOK
  <2> QED BY <2>6, <2>7, <1>t, <1>3 DEF Connect, TypeOK, serverVars, clientVars
<1>4. ASSUME NEW c \in Clients, Write(c) PROVE TypeOK'
  BY <1>t, <1>4 DEF Write, TypeOK, serverVars, connVars, clientVars
<1>5. ASSUME NEW c \in Clients, FlushDone(c) \/ Fail(c) PROVE TypeOK'
  BY <1>t, <1>5 DEF FlushDone, Fail, TypeOK, serverVars, clientVars
<1>6. ASSUME NEW c \in Clients, NEW types, Take(c, types)
      PROVE  requests' \in [Clients -> Seq(Requests)]
  <2>1. Tail(requests[c]) \in Seq(Requests)
    BY <1>t, <1>6, HeadTailProperties DEF Take, TypeOK
  <2> QED BY <2>1, <1>t, <1>6 DEF Take, TypeOK
<1>7. ASSUME NEW c \in Clients, HandleGetState(c) PROVE TypeOK'
  BY <1>t, <1>6, <1>7, SnapshotType, EnqueueType
     DEF HandleGetState, TypeOK, serverVars, clientVars
<1>8. ASSUME NEW c \in Clients, HandleOther(c) PROVE TypeOK'
  BY <1>t, <1>6, <1>8, OtherType, EnqueueType
     DEF HandleOther, TypeOK, serverVars, clientVars
<1>9. ASSUME NEW c \in Clients, HandleMalformed(c) PROVE TypeOK'
  <2>1. requests' \in [Clients -> Seq(Requests)]
    BY <1>6, <1>9 DEF HandleMalformed
  <2>2. CASE Full(c)
    BY <2>1, <2>2, <1>t, <1>9 DEF HandleMalformed, TypeOK, serverVars, clientVars
  <2>3. CASE ~Full(c)
    <3>1. Append(chan[c], Other(c)) \in Seq(Frames)
          /\ Len(Append(chan[c], Other(c))) - written[c] <= SendBuffer
      BY <2>3, <1>t, OtherType, AppendType
    <3>2. chan' = [chan EXCEPT ![c] = Append(chan[c], Other(c))]
          /\ hub' = hub /\ link' = [link EXCEPT ![c] = "draining"]
      BY <2>3, <1>9 DEF HandleMalformed
    <3> QED BY <2>1, <3>1, <3>2, <1>t, <1>9 DEF HandleMalformed, TypeOK, serverVars, clientVars
  <2> QED BY <2>2, <2>3
<1>10. ASSUME NEW c \in Clients, HandleSubscription(c) PROVE TypeOK'
  <2>1. Head(requests[c]).topics \in SUBSET Topics
    <3>1. requests[c] \in Seq(Requests) /\ requests[c] # <<>>
          /\ Head(requests[c]).type \in {"subscribe", "unsubscribe"}
      BY <1>t, <1>10 DEF HandleSubscription, Take, TypeOK
    <3>2. Head(requests[c]) \in Requests
      BY <3>1, HeadTailProperties
    <3> QED BY <3>1, <3>2 DEF Requests
  <2>2. topics' \in [Clients -> SUBSET Topics]
    BY <2>1, <1>t, <1>10 DEF HandleSubscription, TypeOK
  <2> QED BY <2>2, <1>t, <1>6, <1>10 DEF HandleSubscription, TypeOK, serverVars, clientVars
<1>11. ASSUME NEW c \in Clients, FinishSubscription(c) PROVE TypeOK'
  <2>1. hub \cup {c} \in SUBSET Clients
    BY <1>t DEF TypeOK
  <2> QED BY <2>1, <1>t, <1>11, SnapshotType, EnqueueType
          DEF FinishSubscription, TypeOK, serverVars, clientVars
<1>12. ASSUME NEW c \in Clients, Deliver(c) PROVE TypeOK'
  <2> DEFINE f == Head(chan[c])
  <2>1. f \in Frames /\ Tail(chan[c]) \in Seq(Frames)
        /\ Len(chan[c]) \in Nat /\ Len(Tail(chan[c])) = Len(chan[c]) - 1
    BY <1>t, <1>12, TailType DEF Deliver
  <2>2. chan' \in [Clients -> Seq(Frames)] /\ written' \in [Clients -> Nat]
        /\ \A d \in Clients : Len(chan'[d]) - written'[d] <= SendBuffer
    <3>1. written[c] - 1 \in Nat
      BY <1>t, <1>12 DEF Deliver, TypeOK
    <3> QED BY <3>1, <2>1, <1>t, <1>12 DEF Deliver, TypeOK
  <2>3. heard' \in [Clients -> Stamps]
    BY <2>1, <1>t, <1>12 DEF Deliver, TypeOK, StampOf, Stamps, Frames
  <2>4. /\ ready' \in [Clients -> BOOLEAN] /\ mirror' \in [Clients -> Mirrors]
        /\ awaiting' \in [Clients -> BOOLEAN] /\ requests' \in [Clients -> Seq(Requests)]
    <3>1. CASE f.type = "hello" /\ OnHello(c)
      BY <3>1, <1>t DEF OnHello, TypeOK
    <3>2. CASE f.type = "state" /\ OnState(c, f)
      <4>1. [have |-> TRUE, rev |-> f.rev, scope |-> f.scope, data |-> f.body] \in Mirrors
        BY <3>2, <2>1 DEF Mirrors, Frames
      <4> QED BY <4>1, <3>2, <1>t DEF OnState, TypeOK
    <3>3. CASE f.type = "delta" /\ OnDelta(c, f)
      <4>1. f.rev \in Nat /\ f.body \in Patches /\ mirror[c] \in Mirrors
        BY <3>3, <2>1, <1>t DEF TypeOK, Frames
      <4>2. Merge(mirror[c].data, f.body) \in States
        BY <4>1, MergeType DEF Mirrors
      <4>3. [have |-> TRUE, rev |-> f.rev, scope |-> mirror[c].scope,
             data |-> Merge(mirror[c].data, f.body)] \in Mirrors
        BY <4>1, <4>2 DEF Mirrors
      <4>4. Request("get_state", {}) \in Requests
        BY DEF Request, Requests
      <4>5. Append(requests[c], Request("get_state", {})) \in Seq(Requests)
        BY <4>4, <1>t, AppendProperties DEF TypeOK
      <4>6. ready' \in [Clients -> BOOLEAN] /\ awaiting' \in [Clients -> BOOLEAN]
        BY <3>3, <1>t DEF OnDelta, TypeOK
      <4>7. mirror' \in [Clients -> Mirrors]
        BY <4>3, <3>3, <1>t DEF OnDelta, TypeOK
      <4>8. requests' \in [Clients -> Seq(Requests)]
        BY <4>5, <3>3, <1>t DEF OnDelta, TypeOK
      <4> QED BY <4>6, <4>7, <4>8
    <3>4. CASE f.type = "other" /\ UNCHANGED <<ready, mirror, awaiting, requests>>
      BY <3>4, <1>t DEF TypeOK
    <3> QED BY <3>1, <3>2, <3>3, <3>4, <1>12 DEF Deliver
  <2> QED BY <2>2, <2>3, <2>4, <1>t, <1>12 DEF Deliver, TypeOK, serverVars, connVars
<1>13. ASSUME NEW c \in Clients, NEW q \in Requests, Send(c, q) PROVE TypeOK'
  <2>1. Append(requests[c], q) \in Seq(Requests)
    BY <1>t, <1>13, AppendProperties DEF TypeOK
  <2> QED BY <2>1, <1>t, <1>13 DEF Send, TypeOK, serverVars, connVars, clientVars
<1>14. ASSUME NEW c \in Clients, Disconnect(c) PROVE TypeOK'
  <2>1. NoMirror \in Mirrors /\ NoStamp \in Stamps
    BY DEF NoMirror, Mirrors, NoStamp, Stamps, Blank, States
  <2>2. chan' \in [Clients -> Seq(Frames)] /\ requests' \in [Clients -> Seq(Requests)]
    BY <1>t, <1>14, EmptySeq DEF Disconnect, TypeOK
  <2>3. written' \in [Clients -> Nat]
    BY <1>t, <1>14 DEF Disconnect, TypeOK
  <2>4. ASSUME NEW d \in Clients PROVE Len(chan'[d]) - written'[d] <= SendBuffer
    <3>1. CASE d = c
      <4>1. Len(chan'[c]) = 0 /\ written'[c] = 0
        BY <1>t, <1>14 DEF Disconnect, TypeOK
      <4> QED BY <4>1, <3>1
    <3>2. CASE d # c
      BY <3>2, <1>t, <1>14 DEF Disconnect, TypeOK
    <3> QED BY <3>1, <3>2
  <2>5. ready' \in [Clients -> BOOLEAN] /\ awaiting' \in [Clients -> BOOLEAN]
        /\ mirror' \in [Clients -> Mirrors] /\ heard' \in [Clients -> Stamps]
    BY <2>1, <1>t, <1>14 DEF Disconnect, TypeOK
  <2>6. /\ hub' \subseteq Clients /\ topics' \in [Clients -> SUBSET Topics]
        /\ reader' \in [Clients -> {"idle", "resubscribing"}]
        /\ link' \in [Clients -> {"down", "up", "draining", "dead"}]
    BY <1>t, <1>14 DEF Disconnect, TypeOK
  <2> QED BY <2>2, <2>3, <2>4, <2>5, <2>6, <1>t, <1>14 DEF Disconnect, TypeOK, serverVars
<1>15. CASE UNCHANGED vars
  BY <1>t, <1>15 DEF vars, TypeOK
<1> QED BY <1>1, <1>2, <1>3, <1>4, <1>5, <1>7, <1>8, <1>9, <1>10, <1>11, <1>12, <1>13,
           <1>14, <1>15 DEF Next

-----------------------------------------------------------------------------
(* How a step may change one connection *)

\* Nothing of c changes.
SameClient(c) ==
    /\ chan'[c] = chan[c] /\ written'[c] = written[c] /\ requests'[c] = requests[c]
    /\ topics'[c] = topics[c] /\ reader'[c] = reader[c] /\ link'[c] = link[c]
    /\ ready'[c] = ready[c] /\ mirror'[c] = mirror[c]
    /\ awaiting'[c] = awaiting[c] /\ heard'[c] = heard[c]
    /\ c \in hub' <=> c \in hub

\* The client handles nothing and nothing is written to it.
SameMirror(c) ==
    /\ written'[c] = written[c] /\ ready'[c] = ready[c] /\ mirror'[c] = mirror[c]
    /\ awaiting'[c] = awaiting[c] /\ heard'[c] = heard[c]

\* The history is only extended.
HistoryKept == rev <= rev' /\ \A r \in 0..rev : hist'[r] = hist[r]

ClientInv(c) == LinkInv(c) /\ Handshake(c) /\ ChanInv(c)

\* What the hub knows of c.
Told(c) ==
    /\ c \in hub =>
         /\ topics[c] = Topics => Newest(c).rev = rev
         /\ View(hist[Newest(c).rev], topics[c]) = View(store, topics[c])
    /\ reader[c] = "idle" => c \in hub

LEMMA SameClientStep ==
    ASSUME NEW c \in Clients, ClientInv(c), SameClient(c), UNCHANGED <<store, rev, hist>>
    PROVE  ClientInv(c)'
<1>1. LinkInv(c)'
  BY DEF ClientInv, LinkInv, SameClient, Fresh, Serving
<1>2. Handshake(c)'
  BY DEF ClientInv, Handshake, SameClient
<1>3. ChanInv(c)'
  BY DEF ClientInv, ChanInv, SameClient, Serving, Follows, InTurn, Truthful, Prev, MirrorInStep,
         HubScope, NothingLost, Newest
<1> QED BY <1>1, <1>2, <1>3 DEF ClientInv

\* The connection fails.
LEMMA DeadStep ==
    ASSUME NEW c \in Clients, ClientInv(c), link[c] # "down", link'[c] = "dead", c \notin hub',
           chan'[c] = chan[c], SameMirror(c)
    PROVE  ClientInv(c)'
<1>1. LinkInv(c)'
  BY DEF ClientInv, LinkInv, SameMirror
<1>2. Handshake(c)'
  BY DEF ClientInv, Handshake, SameMirror
<1>3. ChanInv(c)'
  BY DEF ChanInv, Serving
<1> QED BY <1>1, <1>2, <1>3 DEF ClientInv

LEMMA NewestAppend ==
    ASSUME TypeOK, NEW c \in Clients, NEW f \in Frames, chan'[c] = Append(chan[c], f)
    PROVE  /\ Newest(c)' = StampOf(f)
           /\ Len(chan'[c]) = Len(chan[c]) + 1
           /\ chan'[c] # <<>>
           /\ chan'[c][Len(chan[c]) + 1] = f
           /\ \A i \in 1..Len(chan[c]) : chan'[c][i] = chan[c][i]
<1>1. chan[c] \in Seq(Frames)
  BY DEF TypeOK
<1>2. /\ Append(chan[c], f) # <<>> /\ Len(Append(chan[c], f)) = Len(chan[c]) + 1
      /\ Append(chan[c], f)[Len(chan[c]) + 1] = f
      /\ \A i \in 1..Len(chan[c]) : Append(chan[c], f)[i] = chan[c][i]
  BY <1>1, AppendProperties
<1> QED BY <1>2 DEF Newest

LEMMA NewestBound ==
    ASSUME TypeOK, NEW c \in Clients, ChanInv(c), Serving(c)
    PROVE  Newest(c).rev \in 0..rev
<1>1. Newest(c) \in Stamps
  BY NewestType
<1>2. CASE chan[c] = <<>>
  BY <1>1, <1>2 DEF Newest, ChanInv, Stamps, TypeOK
<1>3. CASE chan[c] # <<>>
  <2>1. Len(chan[c]) \in 1..Len(chan[c])
    BY <1>3, EmptySeq DEF TypeOK
  <2>2. chan[c][Len(chan[c])].rev <= rev
    BY <2>1 DEF ChanInv, Truthful
  <2> QED BY <1>1, <1>3, <2>2 DEF Newest, Stamps, StampOf, TypeOK
<1> QED BY <1>2, <1>3

\* At most one frame is queued, and it follows the ones before it.
LEMMA QueueStep ==
    ASSUME TypeOK, TypeOK', NEW c \in Clients, ClientInv(c), Serving(c), Serving(c)',
           SameMirror(c), HistoryKept, HubScope(c)', link'[c] = "up" => link[c] = "up" /\ Told(c)',
           \/ chan'[c] = chan[c]
           \/ \E f \in Frames : /\ chan'[c] = Append(chan[c], f)
                                /\ Follows(Newest(c), f) /\ Truthful(f)'
                                /\ link'[c] = "up" => InTurn(Newest(c), f)
    PROVE  ClientInv(c)'
<1> DEFINE n == Len(chan[c])
<1>1. n \in Nat /\ chan[c] \in Seq(Frames) /\ Len(chan'[c]) \in Nat /\ rev \in Nat /\ rev' \in Nat
  BY ConstantsAssumption DEF TypeOK
<1>2. ASSUME NEW i \in 1..n
      PROVE  /\ Prev(c, i) \in Stamps /\ chan[c][i] \in Frames
             /\ Follows(Prev(c, i), chan[c][i]) /\ Truthful(chan[c][i])
             /\ link[c] = "up" => InTurn(Prev(c, i), chan[c][i])
  <2>0. link[c] = "up" => InTurn(Prev(c, i), chan[c][i])
    BY DEF ClientInv, ChanInv, NothingLost
  <2>1. chan[c][i] \in Frames /\ Follows(Prev(c, i), chan[c][i]) /\ Truthful(chan[c][i])
    BY <1>1 DEF ClientInv, ChanInv
  <2>2. Prev(c, i) \in Stamps
    <3>1. CASE i = 1
      BY <3>1 DEF Prev, TypeOK
    <3>2. CASE i # 1
      <4>1. chan[c][i - 1] \in Frames
        BY <3>2, <1>1
      <4> QED BY <3>2, <4>1 DEF Prev, StampOf, Stamps, Frames
    <3> QED BY <3>1, <3>2
  <2> QED BY <2>0, <2>1, <2>2
<1>3. ASSUME NEW i \in 1..n, chan'[c][i] = chan[c][i] PROVE Truthful(chan[c][i])'
  <2>1. chan[c][i].rev \in 0..rev /\ Prev(c, i).rev \in Nat
    BY <1>1, <1>2 DEF Truthful, Frames, Stamps
  <2>2. chan[c][i].type = "delta" => chan[c][i].rev - 1 \in 0..rev
    BY <2>1, <1>1, <1>2 DEF Follows
  <2>3. /\ hist'[chan[c][i].rev] = hist[chan[c][i].rev]
        /\ chan[c][i].type = "delta" => hist'[chan[c][i].rev - 1] = hist[chan[c][i].rev - 1]
    BY <2>1, <2>2 DEF HistoryKept
  <2>4. chan[c][i].rev <= rev'
    <3>1. rev <= rev' /\ rev \in Nat /\ rev' \in Nat
      BY <1>1 DEF HistoryKept
    <3>2. chan[c][i].rev \in Nat /\ chan[c][i].rev <= rev
      BY <2>1, <1>1
    <3> QED BY <3>1, <3>2
  <2>5. Truthful(chan[c][i])
    BY <1>2
  <2> QED BY <2>3, <2>4, <2>5, <1>3 DEF Truthful
<1>4. /\ \A i \in 1..n : chan'[c][i] = chan[c][i]
      /\ Len(chan'[c]) >= n
      /\ chan'[c] # <<>> \/ chan'[c] = chan[c]
  BY NewestAppend, <1>1
<1>5. LinkInv(c)'
  <2>1. /\ link'[c] # "down" /\ written[c] <= n
        /\ mirror[c].have => ready[c]
        /\ ~mirror[c].have => mirror[c] = NoMirror
    BY DEF ClientInv, LinkInv, Serving
  <2>2. written'[c] <= Len(chan'[c])
    BY <1>1, <1>4, <2>1 DEF SameMirror, TypeOK
  <2> QED BY <2>1, <2>2 DEF LinkInv, Serving, SameMirror
<1>6. Handshake(c)'
  <2>1. CASE mirror[c].have
    BY <2>1 DEF Handshake, SameMirror
  <2>2. CASE ~mirror[c].have
    <3>1. /\ chan[c] # <<>> /\ ~awaiting[c]
          /\ ready[c] => chan[c][1].type = "state"
          /\ ~ready[c] => n >= 2 /\ chan[c][1].type = "hello" /\ chan[c][2].type = "state"
      BY <2>2 DEF ClientInv, Handshake, Serving
    <3>2. n >= 1
      BY <3>1, <1>1, EmptySeq
    <3>3. chan'[c][1] = chan[c][1] /\ (n >= 2 => chan'[c][2] = chan[c][2])
          /\ chan'[c] # <<>> /\ Len(chan'[c]) >= n
      BY <3>1, <3>2, <1>1, <1>4
    <3> QED BY <3>1, <3>3, <1>1 DEF Handshake, SameMirror
  <2> QED BY <2>1, <2>2
<1>7. heard'[c].rev <= rev'
  BY <1>1 DEF ClientInv, ChanInv, SameMirror, HistoryKept, TypeOK, Stamps
<1>8. ASSUME NEW i \in 1..Len(chan'[c])
      PROVE  /\ Follows(Prev(c, i), chan[c][i])' /\ Truthful(chan[c][i])'
             /\ link'[c] = "up" => InTurn(Prev(c, i), chan[c][i])'
  <2>1. CASE i \in 1..n
    <3>1. Prev(c, i)' = Prev(c, i)
      <4>1. CASE i = 1
        BY <4>1, <1>1 DEF Prev, SameMirror
      <4>2. CASE i # 1
        <5>1. i - 1 \in 1..n
          BY <4>2, <2>1, <1>1
        <5>2. chan'[c][i - 1] = chan[c][i - 1]
          BY <5>1, <1>4
        <5> QED BY <4>2, <5>2 DEF Prev
      <4> QED BY <4>1, <4>2
    <3>2. chan'[c][i] = chan[c][i]
      BY <2>1, <1>4
    <3> QED BY <2>1, <1>2, <1>3, <3>1, <3>2 DEF Follows, InTurn
  <2>2. CASE i \notin 1..n
    <3>1. PICK f \in Frames : /\ chan'[c] = Append(chan[c], f)
                              /\ Follows(Newest(c), f) /\ Truthful(f)'
                              /\ link'[c] = "up" => InTurn(Newest(c), f)
      BY <2>2
    <3>2. i = n + 1 /\ chan'[c][i] = f
      BY <2>2, <3>1, <1>1, NewestAppend
    <3>3. Prev(c, i)' = Newest(c)
      <4>1. CASE n = 0
        BY <4>1, <3>2, <1>1, EmptySeq DEF Prev, Newest, SameMirror
      <4>2. CASE n # 0
        <5>1. chan[c] # <<>> /\ chan'[c][i - 1] = chan[c][n]
          BY <4>2, <3>2, <1>1, <1>4
        <5> QED BY <5>1, <4>2, <3>2, <1>1 DEF Prev, Newest
      <4> QED BY <4>1, <4>2
    <3>4. Follows(Prev(c, i), chan[c][i])'
      BY <3>1, <3>2, <3>3 DEF Follows
    <3>5. link'[c] = "up" => InTurn(Prev(c, i), chan[c][i])'
      BY <3>1, <3>2, <3>3 DEF InTurn
    <3>6. Truthful(chan[c][i])'
      BY <3>1, <3>2 DEF Truthful
    <3> QED BY <3>4, <3>5, <3>6
  <2> QED BY <2>1, <2>2
<1>9. MirrorInStep(c)'
  <2>1. mirror[c].have => mirror[c].rev \in 0..rev
    BY <1>1 DEF ClientInv, ChanInv, MirrorInStep, TypeOK, Mirrors, Stamps
  <2> QED BY <2>1 DEF ClientInv, ChanInv, MirrorInStep, SameMirror, HistoryKept
<1>10. NothingLost(c)'
  <2>1. link'[c] = "up" =>
          (mirror[c].have /\ mirror[c].scope = Topics => mirror[c].rev = heard[c].rev)
    BY DEF ClientInv, ChanInv, NothingLost
  <2> QED BY <2>1, <1>8 DEF NothingLost, Told, SameMirror
<1>11. ChanInv(c)'
  BY <1>7, <1>8, <1>9, <1>10 DEF ChanInv
<1> QED BY <1>5, <1>6, <1>11 DEF ClientInv

-----------------------------------------------------------------------------
(* One step lemma per action *)

LEMMA UpdateStep ==
    ASSUME IInv, TypeOK', NEW new \in States, Update(new), NEW c \in Clients
    PROVE  ClientInv(c)'
<1>1. TypeOK /\ ClientInv(c) /\ hist[rev] = store
  BY DEF IInv, ClientInv, HistoryInv
<1>2. /\ store' = new /\ rev' = rev + 1 /\ hist'[rev + 1] = new /\ new # store
      /\ topics' = topics /\ reader' = reader /\ requests' = requests
      /\ rev \in Nat
  BY <1>1, ConstantsAssumption DEF Update, TypeOK
<1>3. HistoryKept
  BY <1>1, <1>2 DEF HistoryKept, Update, TypeOK
<1>4. SameMirror(c)
  BY <1>2 DEF SameMirror, Update, clientVars
<1> DEFINE patch    == Diff(store, new)
           mine     == Scoped(patch, topics[c])
           concerns == c \in hub /\ DOMAIN mine # {}
           frame    == Frame("delta", rev + 1, topics[c], mine)
<1>5. /\ chan'[c] = IF concerns /\ ~Full(c) THEN Append(chan[c], frame) ELSE chan[c]
      /\ link'[c] = IF concerns /\ Full(c) /\ link[c] = "up" THEN "dead" ELSE link[c]
      /\ c \in hub' <=> c \in hub /\ ~(concerns /\ Full(c) /\ link[c] = "up")
  BY DEF Update, Broadcast
<1>6. topics[c] \in SUBSET Topics /\ store \in States
  BY <1>1 DEF TypeOK
<1>7. CASE c \notin hub
  <2>1. chan'[c] = chan[c] /\ link'[c] = link[c] /\ c \notin hub'
    BY <1>5, <1>7
  <2>2. CASE Serving(c)
    BY <2>1, <2>2, <1>1, <1>2, <1>3, <1>4, <1>7, QueueStep
       DEF ClientInv, ChanInv, HubScope, NothingLost, Told, Serving
  <2>3. CASE ~Serving(c)
    <3>1. LinkInv(c)' /\ Handshake(c)'
      BY <2>1, <2>3, <1>1, <1>2, <1>4 DEF ClientInv, LinkInv, Handshake, Fresh, Serving, SameMirror
    <3>2. ChanInv(c)'
      BY <2>1, <2>3 DEF ChanInv, Serving
    <3> QED BY <3>1, <3>2 DEF ClientInv
  <2> QED BY <2>2, <2>3
<1>8. CASE c \in hub /\ concerns /\ Full(c) /\ link[c] = "up"
  BY <1>1, <1>4, <1>5, <1>8, DeadStep DEF ClientInv, LinkInv, Serving
<1>9. CASE c \in hub /\ ~(concerns /\ Full(c) /\ link[c] = "up")
  <2>1. Serving(c) /\ Serving(c)' /\ c \in hub' /\ link'[c] = link[c]
    BY <1>1, <1>5, <1>9 DEF ClientInv, LinkInv, Serving
  <2>2. /\ Newest(c).rev \in 0..rev /\ Newest(c) \in Stamps /\ HubScope(c)
        /\ link[c] = "up" => Told(c)
    BY <2>1, <1>1, NewestBound, NewestType DEF ClientInv, ChanInv, NothingLost, Told
  <2>3. CASE concerns /\ ~Full(c)
    <3>1. PICK f \in Frames :
            /\ f = frame /\ StampOf(f) = [rev |-> rev + 1, scope |-> topics[c]]
            /\ f.type = "delta" /\ f.rev = rev + 1 /\ f.scope = topics[c] /\ f.body = mine
      <4>1. mine \in Patches
        BY <1>6, DiffType, ScopedType
      <4>2. rev + 1 \in Nat
        BY <1>2
      <4> HIDE DEF mine
      <4> QED BY <4>1, <4>2, <1>6, FrameType
    <3>2. chan'[c] = Append(chan[c], f)
      BY <2>3, <3>1, <1>5, <1>9
    <3>3. Newest(c)' = [rev |-> rev + 1, scope |-> topics[c]]
      BY <3>1, <3>2, <1>1, NewestAppend
    <3>4. HubScope(c)' /\ Told(c)'
      BY <2>1, <3>3, <1>2 DEF HubScope, Told
    <3>5. Follows(Newest(c), f) /\ (link[c] = "up" => InTurn(Newest(c), f))
      BY <3>1, <2>2, <1>2, <1>9 DEF Follows, InTurn, HubScope, Told
    <3>6. Truthful(f)'
      <4>1. hist'[rev] = store /\ (rev + 1) - 1 = rev
        BY <1>1, <1>2, <1>3 DEF HistoryKept
      <4>2. f.rev <= rev'
        BY <3>1, <1>2
      <4>3. f.body = Scoped(Diff(hist'[f.rev - 1], hist'[f.rev]), f.scope)
        BY <3>1, <4>1, <1>2
      <4> QED BY <3>1, <4>2, <4>3 DEF Truthful
    <3> HIDE DEF frame
    <3> QED BY <3>2, <3>4, <3>5, <3>6, <2>1, <1>1, <1>3, <1>4, QueueStep
  <2>4. CASE concerns /\ Full(c)
    <3>1. link'[c] # "up" /\ chan'[c] = chan[c]
      BY <2>1, <2>4, <1>5, <1>9
    <3>2. HubScope(c)'
      BY <3>1, <2>2, <1>2, <1>4, <1>9 DEF HubScope, Newest, SameMirror
    <3> QED BY <3>1, <3>2, <2>1, <1>1, <1>3, <1>4, QueueStep
  <2>5. CASE ~concerns
    <3>1. DOMAIN Scoped(Diff(store, new), topics[c]) = {} /\ chan'[c] = chan[c]
      BY <2>5, <1>5, <1>9
    <3>2. View(store, topics[c]) = View(new, topics[c]) /\ topics[c] # Topics
      BY <3>1, <1>2, <1>6, InvisibleDiff, FullScope
    <3>3. Newest(c)' = Newest(c)
      BY <3>1, <1>4 DEF Newest, SameMirror
    <3>4. hist'[Newest(c).rev] = hist[Newest(c).rev]
      BY <2>2, <1>3 DEF HistoryKept
    <3>5. HubScope(c)' /\ (link[c] = "up" => Told(c)')
      BY <2>1, <3>2, <3>3, <3>4, <2>2, <1>2, <1>9 DEF HubScope, Told
    <3> QED BY <3>1, <3>5, <2>1, <1>1, <1>3, <1>4, QueueStep
  <2> QED BY <2>3, <2>4, <2>5
<1> QED BY <1>7, <1>8, <1>9

LEMMA RestartStep ==
    ASSUME IInv, Restart, NEW c \in Clients
    PROVE  ClientInv(c)'
<1>1. TypeOK /\ ClientInv(c)
  BY DEF IInv, ClientInv
<1>2. /\ c \notin hub' /\ chan' = chan /\ SameMirror(c) /\ topics' = topics /\ reader' = reader
      /\ requests' = requests
  BY DEF Restart, SameMirror, clientVars
<1>3. CASE Serving(c)
  BY <1>1, <1>2, <1>3, DeadStep DEF Restart, Serving, TypeOK
<1>4. CASE ~Serving(c)
  <2>1. link'[c] = link[c]
    BY <1>1, <1>4 DEF Restart, TypeOK
  <2> QED BY <2>1, <1>1, <1>2, <1>4
          DEF ClientInv, LinkInv, Handshake, ChanInv, Fresh, Serving, SameMirror
<1> QED BY <1>3, <1>4

LEMMA ConnectStep ==
    ASSUME IInv, TypeOK', NEW c \in Clients, Connect(c)
    PROVE  ClientInv(c)'
<1>1. TypeOK /\ LinkInv(c) /\ Fresh(c) /\ hist[rev] = store /\ rev \in Nat
  BY ConstantsAssumption DEF IInv, LinkInv, HistoryInv, Connect, TypeOK
<1> DEFINE first  == Frame("hello", 0, {}, NoPatch)
           second == Frame("state", rev, Topics, View(store, Topics))
<1>2. /\ chan'[c] = <<first, second>> /\ link'[c] = "up" /\ c \in hub'
      /\ topics'[c] = Topics /\ written'[c] = 0 /\ ~ready'[c] /\ mirror'[c] = NoMirror
      /\ ~awaiting'[c] /\ heard'[c] = NoStamp /\ rev' = rev /\ store' = store /\ hist' = hist
  BY <1>1 DEF Connect, Fresh, TypeOK, serverVars, clientVars
<1>3. /\ Len(chan'[c]) = 2 /\ chan'[c][1] = first /\ chan'[c][2] = second /\ chan'[c] # <<>>
  BY <1>2
<1>4. /\ StampOf(first) = NoStamp /\ first.type = "hello" /\ first.rev = 0
  BY DEF first, Frame, StampOf, NoStamp
<1>5. /\ StampOf(second) = [rev |-> rev, scope |-> Topics] /\ second.type = "state"
      /\ second.rev = rev /\ second.scope = Topics /\ second.body = View(store, Topics)
  BY DEF second, Frame, StampOf
<1>6. LinkInv(c)' /\ Handshake(c)'
  BY <1>2, <1>3, <1>4, <1>5 DEF LinkInv, Handshake, Serving, NoMirror
<1>7. Newest(c)' = [rev |-> rev, scope |-> Topics]
  BY <1>3, <1>5 DEF Newest
<1>8. HubScope(c)' /\ Told(c)'
  BY <1>1, <1>2, <1>7 DEF HubScope, Told
<1>9. MirrorInStep(c)'
  BY <1>2 DEF MirrorInStep, NoMirror
<1>10. ASSUME NEW i \in 1..2
       PROVE  /\ Follows(Prev(c, i), chan[c][i])' /\ Truthful(chan[c][i])'
              /\ InTurn(Prev(c, i), chan[c][i])'
  <2>1. CASE i = 1
    BY <2>1, <1>1, <1>2, <1>3, <1>4 DEF Prev, Follows, InTurn, Truthful
  <2>2. CASE i = 2
    BY <2>2, <1>1, <1>2, <1>3, <1>4, <1>5 DEF Prev, Follows, InTurn, Truthful, NoStamp
  <2> QED BY <2>1, <2>2
<1>11. NothingLost(c)'
  BY <1>2, <1>3, <1>8, <1>10 DEF NothingLost, Told, NoMirror
<1>12. ChanInv(c)'
  BY <1>1, <1>2, <1>3, <1>8, <1>9, <1>10, <1>11 DEF ChanInv, NoStamp
<1> QED BY <1>6, <1>12 DEF ClientInv

\* Frames move from the lane to the socket, or requests arrive.
LEMMA SameChannelStep ==
    ASSUME NEW c \in Clients, ClientInv(c), UNCHANGED <<store, rev, hist>>, link[c] # "down",
           chan'[c] = chan[c], topics'[c] = topics[c], reader'[c] = reader[c],
           link'[c] = link[c], c \in hub' <=> c \in hub, ready'[c] = ready[c],
           mirror'[c] = mirror[c], awaiting'[c] = awaiting[c], heard'[c] = heard[c],
           written'[c] <= Len(chan[c])
    PROVE  ClientInv(c)'
<1>1. LinkInv(c)'
  BY DEF ClientInv, LinkInv, Serving
<1>2. Handshake(c)'
  BY DEF ClientInv, Handshake
<1>3. ChanInv(c)'
  BY DEF ClientInv, ChanInv, Serving, Follows, InTurn, Truthful, Prev, MirrorInStep, HubScope,
         NothingLost, Newest
<1> QED BY <1>1, <1>2, <1>3 DEF ClientInv

LEMMA WriteStep ==
    ASSUME IInv, NEW c \in Clients, Write(c)
    PROVE  ClientInv(c)'
<1>1. TypeOK /\ ClientInv(c) /\ link[c] # "down"
  BY DEF IInv, ClientInv, Write, Serving
<1>2. written'[c] <= Len(chan[c])
  BY <1>1 DEF Write, TypeOK
<1> QED BY <1>1, <1>2, SameChannelStep DEF Write, serverVars, connVars, clientVars

LEMMA SendStep ==
    ASSUME IInv, NEW c \in Clients, NEW q \in Requests, Send(c, q)
    PROVE  ClientInv(c)'
<1>1. ClientInv(c) /\ link[c] # "down" /\ written[c] <= Len(chan[c])
  BY DEF IInv, ClientInv, LinkInv, Send, Serving
<1> QED BY <1>1, SameChannelStep DEF Send, serverVars, connVars, clientVars

LEMMA FailStep ==
    ASSUME IInv, NEW c \in Clients, FlushDone(c) \/ Fail(c)
    PROVE  ClientInv(c)'
<1>1. TypeOK /\ ClientInv(c) /\ link[c] # "down"
  BY DEF IInv, ClientInv, FlushDone, Fail, Serving
<1>2. link'[c] = "dead" /\ c \notin hub' /\ chan'[c] = chan[c] /\ SameMirror(c)
  BY <1>1 DEF FlushDone, Fail, SameMirror, clientVars, TypeOK
<1> QED BY <1>1, <1>2, DeadStep

\* An answer queued by the reader: a frame that follows the newest one, and that
\* brings a member of the hub up to date.
LEMMA EnqueueStep ==
    ASSUME IInv, TypeOK', NEW c \in Clients, NEW f \in Frames, NEW members,
           link[c] = "up", Enqueue(c, f, members), UNCHANGED <<store, rev, hist>>,
           SameMirror(c), topics'[c] = topics[c], Follows(Newest(c), f), InTurn(Newest(c), f),
           Truthful(f), reader'[c] = "idle", c \in members, f.scope = topics[c],
           topics[c] = Topics => f.rev = rev,
           View(hist[f.rev], topics[c]) = View(store, topics[c])
    PROVE  ClientInv(c)'
<1>1. TypeOK /\ ClientInv(c)
  BY DEF IInv, ClientInv
<1>2. CASE Full(c)
  BY <1>1, <1>2, DeadStep DEF Enqueue, TypeOK
<1>3. CASE ~Full(c)
  <2>1. chan'[c] = Append(chan[c], f) /\ c \in hub' /\ link'[c] = "up"
    BY <1>1, <1>3 DEF Enqueue, TypeOK
  <2>2. Newest(c)' = StampOf(f)
    BY <2>1, <1>1, NewestAppend
  <2>3. HubScope(c)' /\ Told(c)'
    BY <2>1, <2>2 DEF HubScope, Told, StampOf
  <2>4. Truthful(f)'
    BY DEF Truthful
  <2>5. HistoryKept
    BY <1>1, ConstantsAssumption DEF HistoryKept, TypeOK
  <2> QED BY <2>1, <2>3, <2>4, <2>5, <1>1, QueueStep DEF Serving
<1> QED BY <1>2, <1>3

\* The snapshot follows whatever is queued, and brings the client up to date.
LEMMA SnapshotFacts ==
    ASSUME IInv, NEW c \in Clients, Serving(c)
    PROVE  \E f \in Frames :
             /\ f = Snapshot(c) /\ Follows(Newest(c), f) /\ InTurn(Newest(c), f) /\ Truthful(f)
             /\ f.rev = rev /\ f.scope = topics[c]
             /\ View(hist[f.rev], topics[c]) = View(store, topics[c])
<1>1. TypeOK /\ ChanInv(c) /\ hist[rev] = store
  BY DEF IInv, HistoryInv
<1>2. Snapshot(c) \in Frames
  BY <1>1, SnapshotType
<1>3. /\ Snapshot(c).type = "state" /\ Snapshot(c).rev = rev
      /\ Snapshot(c).scope = topics[c] /\ Snapshot(c).body = View(store, topics[c])
  BY DEF Snapshot, Frame
<1>4. Newest(c).rev \in 0..rev /\ rev \in Nat
  BY <1>1, NewestBound, ConstantsAssumption DEF TypeOK
<1>5. /\ Follows(Newest(c), Snapshot(c)) /\ InTurn(Newest(c), Snapshot(c))
      /\ Truthful(Snapshot(c))
  BY <1>1, <1>3, <1>4 DEF Follows, InTurn, Truthful
<1> QED BY <1>1, <1>2, <1>3, <1>5

LEMMA OtherFacts ==
    ASSUME IInv, NEW c \in Clients, Serving(c)
    PROVE  \E f \in Frames : /\ f = Other(c) /\ Follows(Newest(c), f) /\ InTurn(Newest(c), f)
                             /\ Truthful(f) /\ StampOf(f) = Newest(c)
<1>1. TypeOK /\ ChanInv(c)
  BY DEF IInv
<1>2. Other(c) \in Frames
  BY <1>1, OtherType
<1>3. Newest(c) \in Stamps /\ Newest(c).rev \in 0..rev
  BY <1>1, NewestType, NewestBound
<1>4. /\ Other(c).type = "other" /\ Other(c).rev = Newest(c).rev
      /\ Other(c).scope = Newest(c).scope
  BY DEF Other, Frame
<1>5. StampOf(Other(c)) = Newest(c)
  BY <1>3, <1>4 DEF StampOf, Stamps
<1>6. Follows(Newest(c), Other(c)) /\ InTurn(Newest(c), Other(c)) /\ Truthful(Other(c))
  BY <1>3, <1>4, <1>5, <1>1, ConstantsAssumption DEF Follows, InTurn, Truthful, TypeOK
<1> QED BY <1>2, <1>5, <1>6

LEMMA GetStateStep ==
    ASSUME IInv, TypeOK', NEW c \in Clients, HandleGetState(c)
    PROVE  ClientInv(c)'
<1>1. link[c] = "up" /\ reader[c] = "idle" /\ c \in hub /\ Serving(c)
  BY DEF IInv, HandleGetState, Take, ChanInv, NothingLost, Serving
<1>2. PICK f \in Frames : /\ f = Snapshot(c) /\ Follows(Newest(c), f) /\ InTurn(Newest(c), f)
                          /\ Truthful(f) /\ f.rev = rev /\ f.scope = topics[c]
                          /\ View(hist[f.rev], topics[c]) = View(store, topics[c])
  BY <1>1, SnapshotFacts
<1>3. Enqueue(c, f, hub) /\ UNCHANGED <<store, rev, hist>> /\ SameMirror(c)
      /\ topics' = topics /\ reader' = reader
  BY <1>2 DEF HandleGetState, SameMirror, serverVars, clientVars
<1> QED BY <1>1, <1>2, <1>3, EnqueueStep

LEMMA OtherStep ==
    ASSUME IInv, TypeOK', NEW c \in Clients, HandleOther(c)
    PROVE  ClientInv(c)'
<1>1. link[c] = "up" /\ reader[c] = "idle" /\ c \in hub /\ Serving(c) /\ HubScope(c) /\ Told(c)
  BY DEF IInv, HandleOther, Take, ChanInv, NothingLost, Told, Serving
<1>2. PICK f \in Frames : /\ f = Other(c) /\ Follows(Newest(c), f) /\ InTurn(Newest(c), f)
                          /\ Truthful(f) /\ StampOf(f) = Newest(c)
  BY <1>1, OtherFacts
<1>3. Enqueue(c, f, hub) /\ UNCHANGED <<store, rev, hist>> /\ SameMirror(c)
      /\ topics' = topics /\ reader' = reader
  BY <1>2 DEF HandleOther, SameMirror, serverVars, clientVars
<1>4. f.rev = Newest(c).rev /\ f.scope = Newest(c).scope
  BY <1>2 DEF StampOf
<1>5. /\ f.scope = topics[c]
      /\ topics[c] = Topics => f.rev = rev
      /\ View(hist[f.rev], topics[c]) = View(store, topics[c])
  BY <1>1, <1>4 DEF HubScope, Told
<1> QED BY <1>1, <1>2, <1>3, <1>5, EnqueueStep

LEMMA MalformedStep ==
    ASSUME IInv, TypeOK', NEW c \in Clients, HandleMalformed(c)
    PROVE  ClientInv(c)'
<1>1. link[c] = "up" /\ reader[c] = "idle" /\ c \in hub /\ Serving(c) /\ HubScope(c)
      /\ TypeOK /\ ClientInv(c)
  BY DEF IInv, HandleMalformed, Take, ChanInv, NothingLost, Serving, ClientInv
<1>2. PICK f \in Frames : /\ f = Other(c) /\ Follows(Newest(c), f) /\ InTurn(Newest(c), f)
                          /\ Truthful(f) /\ StampOf(f) = Newest(c)
  BY <1>1, OtherFacts
<1>3. UNCHANGED <<store, rev, hist>> /\ SameMirror(c) /\ topics' = topics /\ reader' = reader
  BY DEF HandleMalformed, SameMirror, serverVars, clientVars
<1>4. CASE Full(c)
  BY <1>1, <1>3, <1>4, DeadStep DEF HandleMalformed, TypeOK
<1>5. CASE ~Full(c)
  <2>1. chan'[c] = Append(chan[c], f) /\ c \in hub' /\ link'[c] = "draining"
    BY <1>1, <1>2, <1>5 DEF HandleMalformed, TypeOK
  <2>2. Newest(c)' = Newest(c)
    BY <2>1, <1>1, <1>2, NewestAppend
  <2>3. HubScope(c)'
    BY <2>1, <2>2, <1>1, <1>3 DEF HubScope
  <2>4. Truthful(f)'
    BY <1>2, <1>3 DEF Truthful
  <2>5. HistoryKept
    BY <1>1, <1>3, ConstantsAssumption DEF HistoryKept, TypeOK
  <2> QED BY <2>1, <2>3, <2>4, <2>5, <1>1, <1>2, <1>3, QueueStep DEF Serving
<1> QED BY <1>4, <1>5

LEMMA SubscriptionStep ==
    ASSUME IInv, TypeOK', NEW c \in Clients, HandleSubscription(c)
    PROVE  ClientInv(c)'
<1>1. link[c] = "up" /\ TypeOK /\ ClientInv(c)
  BY DEF IInv, HandleSubscription, Take, ClientInv
<1>2. /\ UNCHANGED <<store, rev, hist>> /\ SameMirror(c) /\ link' = link /\ chan' = chan
      /\ c \notin hub' /\ reader'[c] = "resubscribing"
  BY <1>1 DEF HandleSubscription, SameMirror, serverVars, clientVars, TypeOK
<1>3. HistoryKept
  BY <1>1, <1>2, ConstantsAssumption DEF HistoryKept, TypeOK
<1>4. HubScope(c)' /\ Told(c)'
  BY <1>2 DEF HubScope, Told
<1> QED BY <1>1, <1>2, <1>3, <1>4, QueueStep DEF Serving

LEMMA FinishStep ==
    ASSUME IInv, TypeOK', NEW c \in Clients, FinishSubscription(c)
    PROVE  ClientInv(c)'
<1>1. link[c] = "up" /\ Serving(c) /\ TypeOK
  BY DEF IInv, FinishSubscription, Serving
<1>2. PICK f \in Frames : /\ f = Snapshot(c) /\ Follows(Newest(c), f) /\ InTurn(Newest(c), f)
                          /\ Truthful(f) /\ f.rev = rev /\ f.scope = topics[c]
                          /\ View(hist[f.rev], topics[c]) = View(store, topics[c])
  BY <1>1, SnapshotFacts
<1>3. Enqueue(c, f, hub \cup {c}) /\ UNCHANGED <<store, rev, hist>> /\ SameMirror(c)
      /\ topics' = topics /\ reader'[c] = "idle"
  BY <1>1, <1>2 DEF FinishSubscription, SameMirror, serverVars, clientVars, TypeOK
<1> QED BY <1>1, <1>2, <1>3, EnqueueStep

LEMMA DisconnectStep ==
    ASSUME IInv, NEW c \in Clients, Disconnect(c)
    PROVE  ClientInv(c)'
<1>1. TypeOK /\ ClientInv(c) /\ link[c] # "down"
  BY DEF IInv, ClientInv, Disconnect
<1>2. /\ link'[c] = "down" /\ c \notin hub' /\ chan'[c] = <<>> /\ written'[c] = 0
      /\ requests'[c] = <<>> /\ topics'[c] = Topics /\ reader'[c] = "idle"
      /\ heard'[c] = NoStamp
  BY <1>1 DEF Disconnect, TypeOK
<1>3. ~ready'[c] /\ mirror'[c] = NoMirror /\ ~awaiting'[c]
  <2>1. CASE ready[c]
    BY <2>1, <1>1 DEF Disconnect, TypeOK
  <2>2. CASE ~ready[c]
    BY <2>2, <1>1 DEF Disconnect, ClientInv, Handshake, LinkInv, TypeOK
  <2> QED BY <2>1, <2>2
<1>4. Len(chan'[c]) = 0
  BY <1>2
<1>5. LinkInv(c)'
  BY <1>2, <1>3, <1>4 DEF LinkInv, Fresh, NoMirror
<1>6. Handshake(c)' /\ ChanInv(c)'
  BY <1>2 DEF Handshake, ChanInv, Serving
<1> QED BY <1>5, <1>6 DEF ClientInv

LEMMA LastIndex == ASSUME NEW k \in Nat \ {0}, k # 1 PROVE k - 1 \in 1..(k - 1)
OBVIOUS

\* The client handles the oldest frame; the rest of the queue is as it was.
LEMMA DeliverQueue ==
    ASSUME IInv, NEW c \in Clients, Deliver(c)
    PROVE  /\ chan[c] # <<>> /\ Len(chan[c]) \in Nat \ {0}
           /\ Head(chan[c]) = chan[c][1] /\ chan[c][1] \in Frames
           /\ chan'[c] = Tail(chan[c]) /\ Len(chan'[c]) = Len(chan[c]) - 1
           /\ \A i \in 1..Len(chan'[c]) : /\ chan'[c][i] = chan[c][i + 1]
                                          /\ Prev(c, i)' = Prev(c, i + 1)
           /\ heard'[c] = StampOf(chan[c][1])
           /\ written'[c] = written[c] - 1
           /\ Newest(c)' = Newest(c)
           /\ UNCHANGED <<store, rev, hist, hub, topics, reader, link>>
<1>1. TypeOK /\ LinkInv(c) /\ written[c] > 0
  BY DEF IInv, Deliver
<1>2. /\ chan[c] # <<>> /\ Head(chan[c]) \in Frames /\ Head(chan[c]) = chan[c][1]
      /\ Len(chan[c]) \in Nat \ {0} /\ Len(Tail(chan[c])) = Len(chan[c]) - 1
      /\ \A i \in 1..Len(Tail(chan[c])) : Tail(chan[c])[i] = chan[c][i + 1]
  BY <1>1, TailType
<1>3. /\ chan'[c] = Tail(chan[c]) /\ heard'[c] = StampOf(Head(chan[c]))
      /\ written'[c] = written[c] - 1
      /\ UNCHANGED <<store, rev, hist, hub, topics, reader, link>>
  BY <1>1 DEF Deliver, TypeOK, serverVars, connVars
<1>4. ASSUME NEW i \in 1..Len(chan'[c]) PROVE Prev(c, i)' = Prev(c, i + 1)
  <2>1. CASE i = 1
    BY <2>1, <1>2, <1>3 DEF Prev
  <2>2. CASE i # 1
    <3>1. i - 1 \in 1..Len(Tail(chan[c])) /\ (i - 1) + 1 = i /\ (i + 1) - 1 = i /\ i + 1 # 1
      BY <2>2, <1>2, <1>3
    <3> QED BY <3>1, <2>2, <1>2, <1>3 DEF Prev
  <2> QED BY <2>1, <2>2
<1>5. Newest(c)' = Newest(c)
  <2>1. CASE Len(chan[c]) = 1
    <3>1. chan'[c] = <<>>
      <4>1. Tail(chan[c]) \in Seq(Frames) /\ Len(Tail(chan[c])) = 0
        BY <2>1, <1>1, <1>2, TailType
      <4> QED BY <4>1, <1>3, EmptySeq
    <3> QED BY <3>1, <2>1, <1>2, <1>3 DEF Newest
  <2>2. CASE Len(chan[c]) # 1
    <3>1. Len(chan'[c]) \in 1..Len(chan'[c]) /\ Len(chan'[c]) = Len(chan[c]) - 1
      <4>1. Len(chan'[c]) = Len(chan[c]) - 1
        BY <1>2, <1>3
      <4> QED BY <4>1, <2>2, <1>2, LastIndex
    <3>2. chan'[c] # <<>>
      BY <3>1
    <3>3. chan'[c][Len(chan'[c])] = chan[c][Len(chan[c])]
      BY <3>1, <1>2, <1>3
    <3> QED BY <3>2, <3>3, <1>2 DEF Newest
  <2> QED BY <2>1, <2>2
<1> QED BY <1>2, <1>3, <1>4, <1>5

\* What handling a delta comes to on a served connection: it is never stale, and
\* what is applied leads to the published state.
LEMMA DeltaStep ==
    ASSUME IInv, NEW c \in Clients, Serving(c), Deliver(c), chan[c][1].type = "delta"
    PROVE  /\ MirrorInStep(c)' /\ mirror[c].have /\ mirror'[c].have
           /\ mirror'[c].rev >= mirror[c].rev
           /\ link[c] = "up" /\ mirror'[c].scope = Topics => mirror'[c].rev = heard'[c].rev
<1> DEFINE f == chan[c][1]
           m == mirror[c]
<1>1. TypeOK /\ ClientInv(c) /\ ChanInv(c) /\ rev \in Nat /\ link[c] # "down"
  BY ConstantsAssumption DEF IInv, ClientInv, TypeOK, Serving
<1>2. /\ chan[c] # <<>> /\ Len(chan[c]) \in Nat \ {0} /\ f \in Frames /\ Head(chan[c]) = f
      /\ heard'[c] = StampOf(f) /\ UNCHANGED <<store, rev, hist, hub, topics, reader, link>>
  BY DeliverQueue
<1>3. Follows(heard[c], f) /\ Truthful(f) /\ (link[c] = "up" => InTurn(heard[c], f))
  <2>1. 1 \in 1..Len(chan[c]) /\ Prev(c, 1) = heard[c]
    BY <1>2 DEF Prev
  <2>2. Follows(Prev(c, 1), chan[c][1]) /\ Truthful(chan[c][1])
    BY <2>1, <1>1 DEF ChanInv
  <2>3. link[c] = "up" => InTurn(Prev(c, 1), chan[c][1])
    BY <2>1, <1>1 DEF ChanInv, NothingLost
  <2> QED BY <2>1, <2>2, <2>3
<1>4. m.have /\ ready[c]
  BY <1>1 DEF ClientInv, Handshake, LinkInv
<1>5. m \in Mirrors /\ heard[c] \in Stamps /\ f.rev \in Nat
  BY <1>1, <1>2 DEF TypeOK, Frames
<1>6. /\ m.rev \in Nat /\ heard[c].rev \in Nat /\ f.rev \in Nat /\ m.rev <= heard[c].rev
      /\ heard[c].rev < f.rev /\ f.rev <= rev
      /\ m.scope = heard[c].scope /\ f.scope = m.scope
      /\ m.data = View(hist[m.rev], m.scope)
      /\ f.body = Scoped(Diff(hist[f.rev - 1], hist[f.rev]), f.scope)
  BY <1>1, <1>3, <1>4, <1>5 DEF Follows, Truthful, ChanInv, MirrorInStep, Mirrors, Stamps
<1>u. link[c] = "up" /\ m.scope = Topics => f.rev = m.rev + 1
  BY <1>1, <1>3, <1>4, <1>6 DEF InTurn, ChanInv, NothingLost
<1>7. OnDelta(c, f)
  BY <1>2 DEF Deliver
<1>8. heard'[c].rev = f.rev /\ heard'[c].scope = f.scope
  BY <1>2 DEF StampOf
<1>9. CASE f.rev = m.rev + 1
  <2>1. Outcome(m, f) = "applied"
    BY <1>4, <1>6, <1>9 DEF Outcome
  <2>2. /\ mirror'[c] = [have |-> TRUE, rev |-> f.rev, scope |-> m.scope,
                         data |-> Merge(m.data, f.body)]
        /\ ready' = ready
    BY <2>1, <1>1, <1>4, <1>7 DEF OnDelta, TypeOK
  <2>3. hist[m.rev] \in States /\ hist[f.rev] \in States /\ f.rev - 1 = m.rev
    BY <1>1, <1>6, <1>9 DEF TypeOK
  <2>4. Merge(m.data, f.body) = View(hist[f.rev], f.scope)
    BY <2>3, <1>6, MergeDiff
  <2>5. /\ mirror'[c].have /\ mirror'[c].rev = f.rev /\ mirror'[c].scope = m.scope
        /\ mirror'[c].data = View(hist'[f.rev], f.scope) /\ ready'[c]
    BY <2>2, <2>4, <1>2, <1>4
  <2>6. MirrorInStep(c)'
    BY <2>5, <1>6, <1>8 DEF MirrorInStep
  <2> QED BY <2>5, <2>6, <1>4, <1>6, <1>8
<1>10. CASE f.rev # m.rev + 1
  <2>1. Outcome(m, f) = "gap" /\ (link[c] = "up" => m.scope # Topics)
    <3>1. ~(f.rev <= m.rev)
      BY <1>6
    <3> QED BY <3>1, <1>u, <1>4, <1>10 DEF Outcome
  <2>2. mirror'[c] = m /\ awaiting'[c] /\ ready' = ready
    BY <2>1, <1>1, <1>4, <1>7 DEF OnDelta, TypeOK
  <2>3. MirrorInStep(c)'
    <3>1. mirror'[c].rev <= heard'[c].rev
      BY <2>2, <1>6, <1>8
    <3> QED BY <3>1, <2>1, <2>2, <1>2, <1>4, <1>6, <1>8 DEF MirrorInStep
  <2> QED BY <2>1, <2>2, <2>3, <1>4, <1>5, <1>6
<1> QED BY <1>9, <1>10

LEMMA DeliverStep ==
    ASSUME IInv, TypeOK', NEW c \in Clients, Deliver(c)
    PROVE  ClientInv(c)' /\ (Serving(c) /\ mirror[c].have =>
                                mirror'[c].have /\ mirror'[c].rev >= mirror[c].rev)
<1> DEFINE f == chan[c][1]
           n == Len(chan[c])
<1>1. TypeOK /\ ClientInv(c) /\ link[c] # "down" /\ written[c] > 0 /\ written[c] \in Nat
      /\ written[c] <= n
  BY DEF IInv, ClientInv, Deliver, TypeOK, LinkInv
<1>2. /\ chan[c] # <<>> /\ n \in Nat \ {0} /\ Head(chan[c]) = f /\ f \in Frames
      /\ Len(chan'[c]) = n - 1
      /\ \A i \in 1..Len(chan'[c]) : chan'[c][i] = chan[c][i + 1] /\ Prev(c, i)' = Prev(c, i + 1)
      /\ heard'[c] = StampOf(f) /\ written'[c] = written[c] - 1
      /\ Newest(c)' = Newest(c)
      /\ UNCHANGED <<store, rev, hist, hub, topics, reader, link>>
  BY DeliverQueue
<1>3. f.type \in {"hello", "state", "delta", "other"}
  BY <1>2 DEF Frames
<1> DEFINE result == /\ mirror'[c].have => ready'[c]
                     /\ ~mirror'[c].have => mirror'[c] = NoMirror
                     /\ Handshake(c)'
                     /\ Serving(c) => MirrorInStep(c)'
                     /\ link[c] = "up" /\ mirror'[c].have /\ mirror'[c].scope = Topics =>
                          mirror'[c].rev = heard'[c].rev
                     /\ Serving(c) /\ mirror[c].have =>
                          mirror'[c].have /\ mirror'[c].rev >= mirror[c].rev
<1>4. /\ mirror[c].have => ready[c]
      /\ ~mirror[c].have => mirror[c] = NoMirror
      /\ ~mirror[c].have => /\ ~awaiting[c]
                            /\ ready[c] => f.type = "state"
                            /\ ~ready[c] => n >= 2 /\ f.type = "hello" /\ chan[c][2].type = "state"
      /\ mirror[c] \in Mirrors /\ heard[c] \in Stamps
  BY <1>1 DEF ClientInv, LinkInv, Handshake, TypeOK
<1>5. Serving(c) => /\ Follows(heard[c], f) /\ Truthful(f)
                    /\ mirror[c].have => MirrorInStep(c) /\ mirror[c].rev <= heard[c].rev
                    /\ rev \in Nat
                    /\ link[c] = "up" /\ mirror[c].have /\ mirror[c].scope = Topics =>
                         mirror[c].rev = heard[c].rev
  <2>1. 1 \in 1..n /\ Prev(c, 1) = heard[c]
    BY <1>2 DEF Prev
  <2> QED BY <2>1, <1>1, ConstantsAssumption
          DEF ClientInv, ChanInv, MirrorInStep, NothingLost, TypeOK
<1>u. link[c] = "up" => Serving(c)
  BY DEF Serving
<1>6. ASSUME f.type = "hello" PROVE result
  <2>1. ready'[c] /\ mirror'[c] = mirror[c] /\ awaiting'[c] = awaiting[c]
    BY <1>1, <1>2, <1>6 DEF Deliver, OnHello, TypeOK
  <2>2. Handshake(c)'
    <3>1. CASE mirror[c].have
      BY <2>1, <3>1 DEF Handshake
    <3>2. CASE ~mirror[c].have
      <4>1. n >= 2 /\ chan[c][2].type = "state" /\ ~awaiting[c]
        BY <3>2, <1>4, <1>6
      <4>2. 1 \in 1..Len(chan'[c])
        BY <4>1, <1>2
      <4>3. chan'[c] # <<>> /\ chan'[c][1] = chan[c][2]
        BY <4>2, <1>2
      <4> QED BY <4>1, <4>3, <2>1 DEF Handshake
    <3> QED BY <3>1, <3>2
  <2>3. Serving(c) => heard'[c] = heard[c]
    BY <1>2, <1>5, <1>6 DEF Follows
  <2>4. Serving(c) => MirrorInStep(c)'
    BY <2>1, <2>3, <1>2, <1>5 DEF MirrorInStep
  <2> QED BY <2>1, <2>2, <2>3, <2>4, <1>4, <1>5, <1>u DEF Mirrors
<1>7. ASSUME f.type = "other" PROVE result
  <2>1. ready'[c] = ready[c] /\ mirror'[c] = mirror[c] /\ awaiting'[c] = awaiting[c]
    BY <1>1, <1>2, <1>7 DEF Deliver
  <2>2. mirror[c].have
    BY <1>4, <1>7
  <2>3. Serving(c) => heard'[c] = heard[c]
    BY <1>2, <1>5, <1>7 DEF Follows
  <2>4. Serving(c) => MirrorInStep(c)'
    BY <2>1, <2>2, <2>3, <1>2, <1>5 DEF MirrorInStep
  <2>5. Handshake(c)'
    BY <2>1, <2>2 DEF Handshake
  <2> QED BY <2>1, <2>2, <2>3, <2>4, <2>5, <1>4, <1>5, <1>u DEF Mirrors
<1>8. ASSUME f.type = "state" PROVE result
  <2>1. /\ ready'[c] = ready[c] /\ ~awaiting'[c]
        /\ mirror'[c] = [have |-> TRUE, rev |-> f.rev, scope |-> f.scope, data |-> f.body]
    <3>1. OnState(c, f)
      BY <1>2, <1>8 DEF Deliver
    <3> QED BY <3>1, <1>1 DEF OnState, TypeOK
  <2>2. ready[c]
    BY <1>4, <1>8
  <2>3. Handshake(c)'
    BY <2>1 DEF Handshake
  <2>4. f.rev \in Nat /\ heard'[c] = [rev |-> f.rev, scope |-> f.scope]
    BY <1>2 DEF Frames, StampOf
  <2>5. ASSUME Serving(c) PROVE MirrorInStep(c)'
    <3>1. f.body = View(hist'[f.rev], f.scope)
      BY <2>5, <1>2, <1>5, <1>8 DEF Truthful
    <3> QED BY <3>1, <2>1, <2>2, <2>4 DEF MirrorInStep
  <2>6. ASSUME Serving(c), mirror[c].have PROVE f.rev >= mirror[c].rev
    <3>1. f.rev >= heard[c].rev /\ mirror[c].rev <= heard[c].rev
      BY <2>6, <1>5, <1>8 DEF Follows
    <3> QED BY <3>1, <2>4, <1>4 DEF Mirrors, Stamps
  <2> QED BY <2>1, <2>2, <2>3, <2>4, <2>5, <2>6
<1>9. ASSUME f.type = "delta" PROVE result
  <2>1. mirror[c].have /\ ready[c]
    BY <1>4, <1>9
  <2>2. mirror'[c].have /\ ready'[c]
    <3>1. OnDelta(c, f)
      BY <1>2, <1>9 DEF Deliver
    <3>2. mirror \in [Clients -> Mirrors] /\ ready' = ready
      BY <3>1, <1>1 DEF OnDelta, TypeOK
    <3>3. mirror'[c].have
      BY <3>1, <3>2, <2>1 DEF OnDelta
    <3> QED BY <3>2, <3>3, <2>1
  <2>3. Handshake(c)'
    BY <2>2 DEF Handshake
  <2>4. ASSUME Serving(c)
        PROVE  /\ MirrorInStep(c)' /\ mirror'[c].rev >= mirror[c].rev
               /\ link[c] = "up" /\ mirror'[c].scope = Topics => mirror'[c].rev = heard'[c].rev
    BY <1>9, <2>4, DeltaStep
  <2> QED BY <2>2, <2>3, <2>4, <1>u
<1>10. result
  BY <1>3, <1>6, <1>7, <1>8, <1>9
<1>11. LinkInv(c)'
  <2>1. link'[c] # "down" /\ (c \in hub' => Serving(c)')
    BY <1>1, <1>2 DEF ClientInv, LinkInv, Serving
  <2>2. written'[c] <= Len(chan'[c])
    BY <1>1, <1>2
  <2> QED BY <2>1, <2>2, <1>10 DEF LinkInv
<1>12. ASSUME Serving(c)' PROVE ChanInv(c)'
  <2>1. Serving(c) /\ HubScope(c)' /\ MirrorInStep(c)'
    <3>1. Serving(c)
      BY <1>2, <1>12 DEF Serving
    <3> QED BY <3>1, <1>1, <1>2, <1>10 DEF ClientInv, ChanInv, HubScope
  <2>2. heard'[c].rev <= rev'
    BY <2>1, <1>2, <1>5 DEF Truthful, StampOf
  <2>3. ASSUME NEW i \in 1..Len(chan'[c])
        PROVE  Follows(Prev(c, i), chan[c][i])' /\ Truthful(chan[c][i])'
    <3>1. i + 1 \in 1..n
      BY <1>2
    <3>2. Follows(Prev(c, i + 1), chan[c][i + 1]) /\ Truthful(chan[c][i + 1])
      BY <3>1, <2>1, <1>1 DEF ClientInv, ChanInv
    <3> QED BY <3>2, <1>2 DEF Follows, Truthful
  <2>4. ASSUME link'[c] = "up" PROVE NothingLost(c)'
    <3>1. link[c] = "up" /\ NothingLost(c)
      BY <2>1, <2>4, <1>1, <1>2 DEF ClientInv, ChanInv
    <3>2. ASSUME NEW i \in 1..Len(chan'[c]) PROVE InTurn(Prev(c, i), chan[c][i])'
      <4>1. i + 1 \in 1..n
        BY <1>2
      <4>2. InTurn(Prev(c, i + 1), chan[c][i + 1])
        BY <4>1, <3>1 DEF NothingLost
      <4> QED BY <4>2, <1>2 DEF InTurn
    <3>3. mirror'[c].have /\ mirror'[c].scope = Topics => mirror'[c].rev = heard'[c].rev
      BY <3>1, <1>10
    <3>4. Told(c)'
      BY <3>1, <1>2 DEF NothingLost, Told
    <3> QED BY <3>2, <3>3, <3>4 DEF NothingLost, Told
  <2>5. NothingLost(c)'
    BY <2>4 DEF NothingLost
  <2> QED BY <2>1, <2>2, <2>3, <2>5 DEF ChanInv
<1>13. ChanInv(c)'
  BY <1>12 DEF ChanInv
<1>14. Handshake(c)'
  BY <1>10
<1>15. Serving(c) /\ mirror[c].have => mirror'[c].have /\ mirror'[c].rev >= mirror[c].rev
  BY <1>10
<1> HIDE DEF result
<1> QED BY <1>11, <1>13, <1>14, <1>15 DEF ClientInv

-----------------------------------------------------------------------------
(* The inductive invariant *)

LEMMA InitInv == Init => IInv
<1> SUFFICES ASSUME Init PROVE IInv
  OBVIOUS
<1>1. HistoryInv
  BY DEF Init, HistoryInv
<1>2. ASSUME NEW c \in Clients PROVE ClientInv(c)
  <2>1. link[c] = "down" /\ hub = {} /\ Fresh(c)
    BY DEF Init, Fresh
  <2>2. Len(chan[c]) = 0
    BY <2>1 DEF Fresh
  <2>3. LinkInv(c)
    BY <2>1, <2>2 DEF LinkInv, Fresh, NoMirror
  <2> QED BY <2>1, <2>3 DEF ClientInv, Handshake, ChanInv, Serving
<1> QED BY <1>1, <1>2, InitType DEF IInv, ClientInv

\* An action of one connection leaves the others as they were.
OneClient(c) ==
    \/ Connect(c) \/ Write(c) \/ FlushDone(c) \/ Fail(c)
    \/ HandleGetState(c) \/ HandleOther(c) \/ HandleMalformed(c)
    \/ HandleSubscription(c) \/ FinishSubscription(c)
    \/ Deliver(c) \/ Disconnect(c)
    \/ \E q \in Requests : Send(c, q)

LEMMA OneClientServer ==
    ASSUME NEW c \in Clients, OneClient(c)
    PROVE  UNCHANGED <<store, rev, hist>>
BY DEF OneClient, Connect, Write, FlushDone, Fail, HandleGetState, HandleOther, HandleMalformed,
       HandleSubscription, FinishSubscription, Deliver, Disconnect, Send, serverVars

LEMMA HistoryStep ==
    ASSUME IInv, [Next]_vars
    PROVE  HistoryInv'
<1>1. HistoryInv /\ rev \in Nat
  BY ConstantsAssumption DEF IInv, TypeOK
<1>2. ASSUME NEW new \in States, Update(new) PROVE HistoryInv'
  BY <1>1, <1>2 DEF HistoryInv, Update
<1>3. CASE Restart
  BY <1>3 DEF HistoryInv, Restart
<1>4. CASE UNCHANGED <<store, rev, hist>>
  BY <1>1, <1>4 DEF HistoryInv
<1>5. ASSUME NEW c \in Clients, OneClient(c) PROVE HistoryInv'
  BY <1>4, <1>5, OneClientServer
<1>6. CASE UNCHANGED vars
  BY <1>6, <1>4 DEF vars
<1> QED BY <1>2, <1>3, <1>5, <1>6 DEF Next, OneClient

LEMMA OneClientStep ==
    ASSUME IInv, NEW c \in Clients, OneClient(c)
    PROVE  \A d \in Clients \ {c} : SameClient(d)
<1> SUFFICES ASSUME NEW d \in Clients \ {c} PROVE SameClient(d)
  OBVIOUS
<1>t. TypeOK
  BY DEF IInv
<1>1. CASE Connect(c)
  BY <1>t, <1>1 DEF Connect, SameClient, TypeOK, serverVars, clientVars
<1>2. CASE Write(c)
  BY <1>t, <1>2 DEF Write, SameClient, TypeOK, serverVars, connVars, clientVars
<1>3. CASE FlushDone(c) \/ Fail(c)
  BY <1>t, <1>3 DEF FlushDone, Fail, SameClient, TypeOK, serverVars, clientVars
<1>4. CASE HandleGetState(c)
  BY <1>t, <1>4 DEF HandleGetState, Take, Enqueue, SameClient, TypeOK, serverVars, clientVars
<1>5. CASE HandleOther(c)
  BY <1>t, <1>5 DEF HandleOther, Take, Enqueue, SameClient, TypeOK, serverVars, clientVars
<1>6. CASE HandleMalformed(c)
  BY <1>t, <1>6 DEF HandleMalformed, Take, SameClient, TypeOK, serverVars, clientVars
<1>7. CASE HandleSubscription(c)
  BY <1>t, <1>7 DEF HandleSubscription, Take, SameClient, TypeOK, serverVars, clientVars
<1>8. CASE FinishSubscription(c)
  BY <1>t, <1>8 DEF FinishSubscription, Enqueue, SameClient, TypeOK, serverVars, clientVars
<1>9. CASE Deliver(c)
  <2> DEFINE f == Head(chan[c])
  <2>1. /\ chan' = [chan EXCEPT ![c] = Tail(@)] /\ written' = [written EXCEPT ![c] = @ - 1]
        /\ heard' = [heard EXCEPT ![c] = StampOf(f)]
        /\ UNCHANGED <<store, rev, hist, hub, topics, reader, link>>
    BY <1>9 DEF Deliver, serverVars, connVars
  <2>2. /\ ready'[d] = ready[d] /\ mirror'[d] = mirror[d] /\ awaiting'[d] = awaiting[d]
        /\ requests'[d] = requests[d]
    <3>1. OnHello(c) \/ OnState(c, f) \/ OnDelta(c, f)
          \/ UNCHANGED <<ready, mirror, awaiting, requests>>
      BY <1>9 DEF Deliver
    <3>2. CASE OnHello(c)
      BY <1>t, <3>2 DEF OnHello, TypeOK
    <3>3. CASE OnState(c, f)
      BY <1>t, <3>3 DEF OnState, TypeOK
    <3>4. CASE OnDelta(c, f)
      BY <1>t, <3>4 DEF OnDelta, TypeOK
    <3> QED BY <3>1, <3>2, <3>3, <3>4
  <2> QED BY <2>1, <2>2, <1>t DEF SameClient, TypeOK
<1>10. CASE Disconnect(c)
  BY <1>t, <1>10 DEF Disconnect, SameClient, TypeOK, serverVars
<1>11. CASE \E q \in Requests : Send(c, q)
  BY <1>t, <1>11 DEF Send, SameClient, TypeOK, serverVars, connVars, clientVars
<1> QED BY <1>1, <1>2, <1>3, <1>4, <1>5, <1>6, <1>7, <1>8, <1>9, <1>10, <1>11 DEF OneClient

LEMMA IInvStep == IInv /\ [Next]_vars => IInv'
<1> SUFFICES ASSUME IInv, [Next]_vars PROVE IInv'
  OBVIOUS
<1>1. TypeOK' /\ HistoryInv'
  BY TypeStep, HistoryStep
<1>2. ASSUME NEW d \in Clients PROVE ClientInv(d)'
  <2>1. ClientInv(d)
    BY DEF IInv, ClientInv
  <2>2. ASSUME NEW new \in States, Update(new) PROVE ClientInv(d)'
    BY <2>2, <1>1, UpdateStep
  <2>3. CASE Restart
    BY <2>3, RestartStep
  <2>4. ASSUME NEW c \in Clients, OneClient(c) PROVE ClientInv(d)'
    <3>1. CASE d # c
      <4>1. SameClient(d) /\ UNCHANGED <<store, rev, hist>>
        BY <3>1, <2>4, OneClientStep, OneClientServer
      <4> QED BY <4>1, <2>1, SameClientStep
    <3>2. CASE d = c
      BY <3>2, <2>4, <1>1, ConnectStep, WriteStep, FailStep, GetStateStep, OtherStep,
         MalformedStep, SubscriptionStep, FinishStep, DeliverStep, DisconnectStep, SendStep
         DEF OneClient
    <3> QED BY <3>1, <3>2
  <2>5. CASE UNCHANGED vars
    BY <2>1, <2>5, SameClientStep DEF vars, SameClient
  <2> QED BY <2>2, <2>3, <2>4, <2>5 DEF Next, OneClient
<1> QED BY <1>1, <1>2 DEF IInv, ClientInv

-----------------------------------------------------------------------------
(* The theorems *)

\* The invariant holds in every reachable state, for every value of the constants.
THEOREM Invariance == Spec => []IInv
BY InitInv, IInvStep, PTL DEF Spec

\* Every variable keeps its type, and no state lane ever holds more than
\* sendBuffer frames.
THEOREM TypeCorrect == Spec => []TypeOK
<1>1. IInv => TypeOK
  BY DEF IInv
<1> QED BY <1>1, Invariance, PTL

\* The mirror of a served client is exactly one published state, cut to its
\* subscription.
THEOREM Faithful == Spec => []MirrorFaithful
<1>1. IInv => MirrorFaithful
  <2> SUFFICES ASSUME IInv, NEW c \in Clients, Serving(c), mirror[c].have
               PROVE  /\ mirror[c].rev <= rev
                      /\ mirror[c].data = View(hist[mirror[c].rev], mirror[c].scope)
    BY DEF MirrorFaithful
  <2>1. ChanInv(c) /\ TypeOK
    BY DEF IInv
  <2> QED BY <2>1, ConstantsAssumption DEF ChanInv, MirrorInStep, TypeOK, Mirrors, Stamps
<1> QED BY <1>1, Invariance, PTL

\* A client with the full subscription never sees a gap before its connection is
\* closed.
THEOREM NoGap == Spec => []NoFalseGap
<1>1. IInv => NoFalseGap
  <2> SUFFICES ASSUME IInv, NEW c \in Clients, link[c] = "up", chan[c] # <<>>,
                      Head(chan[c]).type = "delta", mirror[c].have, mirror[c].scope = Topics
               PROVE  Head(chan[c]).rev <= mirror[c].rev + 1
    BY DEF NoFalseGap
  <2>1. TypeOK /\ ChanInv(c) /\ NothingLost(c) /\ Serving(c)
    BY DEF IInv, ChanInv, Serving
  <2>2. 1 \in 1..Len(chan[c]) /\ Head(chan[c]) = chan[c][1] /\ chan[c][1] \in Frames
    BY <2>1, EmptySeq DEF TypeOK
  <2>3. InTurn(heard[c], chan[c][1]) /\ mirror[c].rev = heard[c].rev /\ heard[c].scope = Topics
    BY <2>1, <2>2 DEF ChanInv, NothingLost, MirrorInStep, Prev
  <2> QED BY <2>1, <2>2, <2>3 DEF InTurn, TypeOK, Mirrors
<1> QED BY <1>1, Invariance, PTL

\* A live, idle client is up to date: nothing was lost.
THEOREM Quiet == Spec => []QuietMeansCurrent
<1>1. IInv => QuietMeansCurrent
  <2> SUFFICES ASSUME IInv, NEW c \in Clients, link[c] = "up", reader[c] = "idle",
                      chan[c] = <<>>, ~awaiting[c]
               PROVE  mirror[c].have /\ mirror[c].data = View(store, topics[c])
    BY DEF QuietMeansCurrent
  <2>1. ChanInv(c) /\ Handshake(c) /\ Serving(c)
    BY DEF IInv, Serving
  <2>2. mirror[c].have /\ c \in hub /\ Newest(c) = heard[c]
    BY <2>1 DEF Handshake, ChanInv, NothingLost, Newest
  <2> QED BY <2>1, <2>2 DEF ChanInv, MirrorInStep, HubScope, NothingLost
<1> QED BY <1>1, Invariance, PTL

\* No step of a session takes its mirror back.
THEOREM Monotonic == Spec => NeverRewinds
<1> DEFINE step == \A c \in Clients :
                      Serving(c) /\ Serving(c)' /\ mirror[c].have
                      => mirror'[c].have /\ mirror'[c].rev >= mirror[c].rev
<1>1. ASSUME IInv, [Next]_vars PROVE step
  <2> SUFFICES ASSUME NEW d \in Clients, Serving(d), Serving(d)', mirror[d].have
               PROVE  mirror'[d].have /\ mirror'[d].rev >= mirror[d].rev
    OBVIOUS
  <2>t. TypeOK /\ mirror[d].rev \in Nat
    BY <1>1 DEF IInv, TypeOK, Mirrors
  <2>1. CASE mirror'[d] = mirror[d]
    BY <2>1, <2>t
  <2>2. ASSUME NEW c \in Clients, OneClient(c)
        PROVE  mirror'[d].have /\ mirror'[d].rev >= mirror[d].rev
    <3>1. CASE d # c
      BY <3>1, <2>1, <2>2, <1>1, OneClientStep DEF SameClient
    <3>2. CASE d = c /\ Deliver(c)
      <4>1. TypeOK'
        BY <1>1, TypeStep
      <4> QED BY <4>1, <3>2, <1>1, DeliverStep
    <3>3. CASE d = c /\ Disconnect(c)
      BY <3>3, <2>t DEF Disconnect, Serving, TypeOK
    <3>4. CASE d = c /\ ~Deliver(c) /\ ~Disconnect(c)
      <4>1. mirror' = mirror
        BY <3>4, <2>2 DEF OneClient, Connect, Write, FlushDone, Fail, HandleGetState,
           HandleOther, HandleMalformed, HandleSubscription, FinishSubscription, Send, clientVars
      <4> QED BY <4>1, <2>1
    <3> QED BY <3>1, <3>2, <3>3, <3>4
  <2>3. CASE (\E new \in States : Update(new)) \/ Restart \/ UNCHANGED vars
    BY <2>1, <2>3 DEF Update, Restart, clientVars, vars
  <2> QED BY <2>2, <2>3, <1>1 DEF Next, OneClient
<1>2. IInv /\ [Next]_vars => [step]_vars
  BY <1>1
<1>3. Spec => [][step]_vars
  BY <1>2, Invariance, PTL DEF Spec
<1> QED BY <1>3 DEF NeverRewinds

-----------------------------------------------------------------------------
(* The refinement *)

\* What client c shows, as StateMirror sees it.
Shown(c) == IF Serving(c) /\ mirror[c].have THEN mirror[c] ELSE NoMirror

Shows(c) == IF link'[c] \in {"up", "draining"} /\ mirror'[c].have THEN mirror'[c] ELSE NoMirror

LEMMA AbstractNothing == Abstract!Nothing = NoMirror
BY DEF Abstract!Nothing, Abstract!Blank, NoMirror, Blank

LEMMA AbstractSelected ==
    ASSUME NEW s, NEW scope
    PROVE  Abstract!Selected(s, scope) = View(s, scope)
BY DEF Abstract!Selected, View

LEMMA RefineInit == Init => Abstract!MInit
<1> SUFFICES ASSUME Init PROVE Abstract!MInit
  OBVIOUS
<1>1. ASSUME NEW c \in Clients PROVE ~Serving(c)
  BY DEF Init, Serving
<1>2. [c \in Clients |-> IF Serving(c) /\ mirror[c].have THEN mirror[c] ELSE NoMirror]
        = [c \in Clients |-> Abstract!Nothing]
  BY <1>1, AbstractNothing
<1>3. rev = 0 /\ hist = [r \in 0..0 |-> Abstract!Blank]
  BY DEF Init, Blank, Abstract!Blank
<1> QED BY <1>2, <1>3 DEF Abstract!MInit

\* Clients that show the same as before, or nothing any more.
LEMMA Forgets ==
    ASSUME \A c \in Clients : Shows(c) = Shown(c) \/ Shows(c) = NoMirror
    PROVE  \E gone \in SUBSET Clients : Abstract!Forget(gone)
<1>1. PICK gone \in SUBSET Clients : gone = {c \in Clients : Shows(c) # Shown(c)}
  OBVIOUS
<1>2. [c \in Clients |-> Shows(c)] = [c \in Clients |-> IF c \in gone THEN NoMirror ELSE Shown(c)]
  BY <1>1
<1>3. Abstract!Forget(gone)
  BY <1>2, AbstractNothing DEF Abstract!Forget, Shown, Shows, Serving
<1> QED BY <1>3

LEMMA RefineUpdate ==
    ASSUME IInv, NEW new \in States, Update(new)
    PROVE  Abstract!PublishAndEnd
<1>1. ASSUME NEW c \in Clients PROVE Shows(c) = Shown(c) \/ Shows(c) = NoMirror
  <2>1. mirror' = mirror /\ (link'[c] = link[c] \/ link'[c] = "dead")
    BY DEF Update, Broadcast, clientVars
  <2> QED BY <2>1 DEF Shown, Shows, Serving
<1>2. new \in Abstract!States
  BY DEF Abstract!States, States
<1>3. rev' = rev + 1 /\ hist' = [r \in 0..rev + 1 |-> IF r = rev + 1 THEN new ELSE hist[r]]
  BY DEF Update
<1> QED BY <1>1, <1>2, <1>3, Forgets DEF Abstract!PublishAndEnd

LEMMA RefineRestart ==
    ASSUME IInv, Restart
    PROVE  Abstract!Restart
<1>1. ASSUME NEW c \in Clients PROVE ~Serving(c)'
  BY DEF Restart, Serving, IInv, TypeOK
<1>2. [c \in Clients |-> IF Serving(c) /\ mirror[c].have THEN mirror[c] ELSE NoMirror]'
        = [c \in Clients |-> Abstract!Nothing]
  BY <1>1, AbstractNothing
<1>3. rev' = 0 /\ hist' = [r \in 0..0 |-> Abstract!Blank]
  BY DEF Restart, Blank, Abstract!Blank
<1> QED BY <1>2, <1>3 DEF Abstract!Restart

LEMMA RefineEnd ==
    ASSUME UNCHANGED <<store, rev, hist>>,
           \A c \in Clients : Shows(c) = Shown(c) \/ Shows(c) = NoMirror
    PROVE  Abstract!End
BY Forgets DEF Abstract!End

LEMMA RefineDeliver ==
    ASSUME IInv, [Next]_vars, NEW c \in Clients, Deliver(c)
    PROVE  Abstract!End \/ Abstract!Observe(c)
<1>1. TypeOK /\ TypeOK' /\ ClientInv(c)'
  BY TypeStep, DeliverStep DEF IInv
<1>2. \A d \in Clients \ {c} : SameClient(d)
  BY OneClientStep DEF OneClient
<1>3. UNCHANGED <<store, rev, hist, hub, topics, reader, link>>
  BY DeliverQueue
<1>4. ASSUME NEW d \in Clients \ {c} PROVE Shows(d) = Shown(d)
  BY <1>2 DEF SameClient, Shown, Shows, Serving
<1>5. CASE ~(Serving(c) /\ mirror'[c].have)
  <2>1. Shows(c) = NoMirror
    BY <1>3, <1>5 DEF Shown, Shows, Serving
  <2> QED BY <2>1, <1>3, <1>4, RefineEnd
<1>6. CASE Serving(c) /\ mirror'[c].have
  <2> DEFINE r == mirror'[c].rev
             scope == mirror'[c].scope
             now == [d \in Clients |-> Shows(d)]
             old == [d \in Clients |-> Shown(d)]
  <2>1. /\ mirror'[c] \in Mirrors /\ heard'[c] \in Stamps /\ rev \in Nat
        /\ MirrorInStep(c)' /\ heard'[c].rev <= rev
    BY <1>1, <1>3, <1>6, ConstantsAssumption DEF ClientInv, ChanInv, Serving, TypeOK
  <2>2. r \in 0..rev /\ scope \in SUBSET Topics /\ mirror'[c].data = View(hist[r], scope)
    BY <2>1, <1>3, <1>6 DEF MirrorInStep, Mirrors, Stamps
  <2>3. mirror'[c] = Abstract!Showing(r, scope, Abstract!Selected(hist[r], scope))
    BY <2>1, <2>2, <1>6, AbstractSelected DEF Abstract!Showing, Mirrors
  <2>4. Shows(c) = mirror'[c]
    BY <1>3, <1>6 DEF Shown, Shows, Serving
  <2>5. now = [old EXCEPT ![c] = mirror'[c]]
    BY <2>4, <1>4
  <2>6. old[c].have => r >= old[c].rev
    <3>1. CASE mirror[c].have
      BY <3>1, <1>1, <1>6, DeliverStep DEF Shown, Shows
    <3>2. CASE ~mirror[c].have
      BY <3>2 DEF Shown, Shows, NoMirror
    <3> QED BY <3>1, <3>2
  <2>7. now = [d \in Clients |-> IF Serving(d) /\ mirror[d].have THEN mirror[d] ELSE NoMirror]'
    BY DEF Shows, Serving
  <2>8. old = [d \in Clients |-> IF Serving(d) /\ mirror[d].have THEN mirror[d] ELSE NoMirror]
    BY DEF Shown
  <2>9. now = [old EXCEPT ![c] = Abstract!Showing(r, scope, Abstract!Selected(hist[r], scope))]
    BY <2>3, <2>5
  <2> HIDE DEF r, scope, now, old
  <2> QED BY <2>2, <2>6, <2>7, <2>8, <2>9, <1>3 DEF Abstract!Observe
<1> QED BY <1>5, <1>6

LEMMA RefineStep == IInv /\ [Next]_vars => [Abstract!MNext]_Abstract!mvars
<1> SUFFICES ASSUME IInv, [Next]_vars PROVE [Abstract!MNext]_Abstract!mvars
  OBVIOUS
<1>1. ASSUME NEW new \in States, Update(new) PROVE Abstract!MNext
  BY <1>1, RefineUpdate DEF Abstract!MNext
<1>2. CASE Restart
  BY <1>2, RefineRestart DEF Abstract!MNext
<1>3. ASSUME NEW c \in Clients, OneClient(c) PROVE Abstract!MNext
  <2>1. CASE Deliver(c)
    BY <2>1, RefineDeliver DEF Abstract!MNext
  <2>2. CASE ~Deliver(c)
    <3>1. ASSUME NEW d \in Clients PROVE Shows(d) = Shown(d) \/ Shows(d) = NoMirror
      <4>1. CASE d # c
        BY <4>1, <1>3, OneClientStep DEF SameClient, Shown, Shows, Serving
      <4>2. CASE d = c /\ Disconnect(c)
        BY <4>2 DEF Disconnect, Shown, Shows, Serving, IInv, TypeOK
      <4>3. CASE d = c /\ Connect(c)
        BY <4>3 DEF Connect, Shown, Shows, clientVars, IInv, LinkInv, Fresh, NoMirror
      <4>4. CASE d = c /\ ~Disconnect(c) /\ ~Connect(c)
        <5>1. mirror' = mirror
          BY <4>4, <2>2, <1>3 DEF OneClient, Write, FlushDone, Fail, HandleGetState,
             HandleOther, HandleMalformed, HandleSubscription, FinishSubscription, Send, clientVars
        <5>2. Serving(c)' => Serving(c)
          BY <4>4, <2>2, <1>3 DEF OneClient, Write, FlushDone, Fail, HandleGetState,
             HandleOther, HandleMalformed, HandleSubscription, FinishSubscription, Send,
             Take, Enqueue, connVars, Serving
        <5> QED BY <5>1, <5>2, <4>4 DEF Shown, Shows, Serving
      <4> QED BY <4>1, <4>2, <4>3, <4>4
    <3> QED BY <3>1, <1>3, RefineEnd, OneClientServer DEF Abstract!MNext
  <2> QED BY <2>1, <2>2
<1>4. CASE UNCHANGED vars
  <2>1. mirror' = mirror /\ link' = link /\ hist' = hist /\ rev' = rev
    BY <1>4 DEF vars
  <2> QED BY <2>1 DEF Abstract!mvars, Serving
<1> QED BY <1>1, <1>2, <1>3, <1>4 DEF Next, OneClient

\* The state stream implements the abstract mirror, whatever the clients, the
\* topics and the capacities.
THEOREM Refinement == Spec => MirrorSpec
BY RefineInit, RefineStep, Invariance, PTL DEF Spec, MirrorSpec, Abstract!MSpec

-----------------------------------------------------------------------------
(* Induction on the nesting depth *)

\* Complete induction, from the well-founded order of the naturals: what holds of n
\* whenever it holds below n is true of all of them.
LEMMA Induction ==
    ASSUME NEW S, \A n \in Nat : (\A m \in 0..n - 1 : m \in S) => n \in S
    PROVE  \A n \in Nat : n \in S
<1> DEFINE T == {n \in Nat : n \notin S}
<1> SUFFICES ASSUME T # {} PROVE FALSE
  OBVIOUS
<1>1. PICK n \in T : \A m \in T : <<m, n>> \notin OpToRel(<, Nat)
  BY WFMin, NatLessThanWellFounded, Zenon
<1>2. \A m \in T : ~(m < n)
  BY <1>1, Zenon DEF OpToRel
<1>3. \A m \in 0..n - 1 : m \in S
  BY <1>2
<1> QED BY <1>3

\* ... and from each number to the next.
LEMMA StepInduction ==
    ASSUME NEW S, 0 \in S, \A n \in Nat : n \in S => n + 1 \in S
    PROVE  \A n \in Nat : n \in S
<1>1. ASSUME NEW n \in Nat, \A m \in 0..n - 1 : m \in S PROVE n \in S
  <2>1. CASE n = 0
    BY <2>1
  <2>2. CASE n # 0
    <3>1. n - 1 \in Nat /\ n - 1 \in 0..n - 1 /\ (n - 1) + 1 = n
      BY <2>2
    <3>2. (n - 1) + 1 \in S
      BY <3>1, <1>1, Zenon
    <3> QED BY <3>1, <3>2
  <2> QED BY <2>1, <2>2
<1> QED BY <1>1, Induction

\* A sequence of sets, each made of the one before, exists up to any length.
LEMMA LevelsExist ==
    ASSUME NEW L, NEW N \in Nat
    PROVE  \E f : f = [n \in 0..N |-> IF n = 0 THEN L ELSE Within(L, f[n - 1])]
<1> DEFINE S == {m \in Nat : \E f : f = [n \in 0..m |-> IF n = 0 THEN L ELSE Within(L, f[n - 1])]}
<1>1. 0 \in S
  <2>1. [n \in 0..0 |-> L] = [n \in 0..0 |-> IF n = 0 THEN L ELSE Within(L, [n_1 \in 0..0 |-> L][n - 1])]
    OBVIOUS
  <2> QED BY <2>1
<1>2. ASSUME NEW m \in Nat, m \in S PROVE m + 1 \in S
  <2>1. PICK f : f = [n \in 0..m |-> IF n = 0 THEN L ELSE Within(L, f[n - 1])]
    BY <1>2
  <2> DEFINE g == [n \in 0..m + 1 |-> IF n = m + 1 THEN Within(L, f[m]) ELSE f[n]]
  <2>2. ASSUME NEW n \in 0..m + 1 PROVE g[n] = IF n = 0 THEN L ELSE Within(L, g[n - 1])
    <3>1. CASE n = m + 1
      <4>1. g[n - 1] = f[m] /\ g[n] = Within(L, f[m])
        BY <3>1
      <4> QED BY <3>1, <4>1
    <3>2. CASE n # m + 1
      <4>1. n \in 0..m /\ g[n] = f[n] /\ (n # 0 => g[n - 1] = f[n - 1])
        BY <3>2
      <4>2. f[n] = IF n = 0 THEN L ELSE Within(L, f[n - 1])
        BY <2>1, <4>1
      <4> QED BY <4>1, <4>2
    <3> QED BY <3>1, <3>2
  <2>3. g = [n \in 0..m + 1 |-> IF n = 0 THEN L ELSE Within(L, g[n - 1])]
    <3> HIDE DEF g
    <3>1. g = [n \in 0..m + 1 |-> g[n]]
      BY DEF g
    <3> QED BY <2>2, <3>1
  <2> HIDE DEF g
  <2>4. m + 1 \in Nat
    OBVIOUS
  <2> QED BY <2>3, <2>4
<1>3. \A m \in Nat : m \in S
  <2> HIDE DEF S
  <2> QED BY <1>1, <1>2, StepInduction
<1> QED BY <1>3

\* So the two sequences of MergePatch are what their recursion says.
LEMMA DocumentLevels ==
    documents = [n \in 0..Depth |-> IF n = 0 THEN Leaves ELSE Within(Leaves, documents[n - 1])]
<1>1. \E f : f = [n \in 0..Depth |-> IF n = 0 THEN Leaves ELSE Within(Leaves, f[n - 1])]
  <2>1. Depth \in Nat
    BY MergePatchAssumption DEF MergePatchAssumption
  <2> QED BY <2>1, LevelsExist, Zenon
<1> QED BY <1>1, Zenon DEF documents

LEMMA PatchLevels ==
    patches = [n \in 0..Depth |-> IF n = 0 THEN Nullable ELSE Within(Nullable, patches[n - 1])]
<1>1. \E f : f = [n \in 0..Depth |-> IF n = 0 THEN Nullable ELSE Within(Nullable, f[n - 1])]
  <2>1. Depth \in Nat
    BY MergePatchAssumption DEF MergePatchAssumption
  <2> QED BY <2>1, LevelsExist, Zenon
<1> QED BY <1>1, Zenon DEF patches

\* What f[n] says, given the recursion.
LEMMA AtLevel ==
    ASSUME NEW L, NEW N \in Nat, NEW f,
           f = [n \in 0..N |-> IF n = 0 THEN L ELSE Within(L, f[n - 1])]
    PROVE  f[0] = L /\ \A n \in 1..N : f[n] = Within(L, f[n - 1])
<1> DEFINE e(n) == IF n = 0 THEN L ELSE Within(L, f[n - 1])
<1>1. \A n \in 0..N : f[n] = e(n)
  <2> HIDE DEF e
  <2>1. f = [n \in 0..N |-> e(n)]
    BY DEF e
  <2> QED BY <2>1
<1> QED BY <1>1

\* More leaves and more members make more values.
LEMMA WithinMono ==
    ASSUME NEW L, NEW M, NEW V, NEW W, L \subseteq M, V \subseteq W
    PROVE  Within(L, V) \subseteq Within(M, W)
<1>1. Members(V) \subseteq Members(W)
  BY DEF Members
<1> QED BY <1>1 DEF Within

LEMMA LevelDocuments ==
    /\ documents[0] = Leaves
    /\ \A n \in 1..Depth : documents[n] = Within(Leaves, documents[n - 1])
BY DocumentLevels, AtLevel, MergePatchAssumption DEF MergePatchAssumption

LEMMA LevelPatches ==
    /\ patches[0] = Nullable
    /\ \A n \in 1..Depth : patches[n] = Within(Nullable, patches[n - 1])
BY PatchLevels, AtLevel, MergePatchAssumption DEF MergePatchAssumption

\* A level holds the one below it.
LEMMA Rising ==
    ASSUME NEW L, NEW N \in Nat, NEW f,
           f[0] = L, \A n \in 1..N : f[n] = Within(L, f[n - 1])
    PROVE  \A n \in 1..N : f[n - 1] \subseteq f[n]
<1> DEFINE S == {n \in Nat : n + 1 \in 1..N => f[n] \subseteq f[n + 1]}
<1>1. 0 \in S
  <2>1. ASSUME 1 \in 1..N PROVE f[0] \subseteq f[1]
    BY <2>1 DEF Within
  <2> QED BY <2>1
<1>2. ASSUME NEW n \in Nat, n \in S PROVE n + 1 \in S
  <2> SUFFICES ASSUME n + 2 \in 1..N PROVE f[n + 1] \subseteq f[n + 2]
    BY DEF S
  <2>1. f[n + 1] = Within(L, f[n]) /\ f[n + 2] = Within(L, f[n + 1])
    <3>1. n + 1 \in 1..N /\ (n + 1) - 1 = n /\ (n + 2) - 1 = n + 1
      OBVIOUS
    <3> QED BY <3>1
  <2>2. f[n] \subseteq f[n + 1]
    BY <1>2
  <2> QED BY <2>1, <2>2, WithinMono
<1>3. \A n \in Nat : n \in S
  <2> HIDE DEF S
  <2> QED BY <1>1, <1>2, StepInduction
<1>4. ASSUME NEW n \in 1..N PROVE f[n - 1] \subseteq f[n]
  <2>1. n - 1 \in Nat /\ (n - 1) + 1 = n
    OBVIOUS
  <2>2. n - 1 \in S
    BY <2>1, <1>3
  <2> QED BY <2>1, <2>2
<1> QED BY <1>4

\* ... and all below it, down to the leaves.
LEMMA RisingFar ==
    ASSUME NEW N \in Nat, NEW f, \A n \in 1..N : f[n - 1] \subseteq f[n]
    PROVE  \A n \in 0..N : \A m \in 0..n : f[m] \subseteq f[n]
<1> DEFINE S == {n \in Nat : n \in 0..N => \A m \in 0..n : f[m] \subseteq f[n]}
<1>1. 0 \in S
  OBVIOUS
<1>2. ASSUME NEW n \in Nat, n \in S PROVE n + 1 \in S
  <2> SUFFICES ASSUME n + 1 \in 0..N, NEW m \in 0..n + 1 PROVE f[m] \subseteq f[n + 1]
    BY DEF S
  <2>1. n + 1 \in 1..N /\ (n + 1) - 1 = n
    OBVIOUS
  <2>2. f[n] \subseteq f[n + 1]
    BY <2>1
  <2>3. CASE m = n + 1
    BY <2>3
  <2>4. CASE m # n + 1
    <3>1. m \in 0..n /\ n \in 0..N
      BY <2>4
    <3> QED BY <3>1, <2>2, <1>2
  <2> QED BY <2>3, <2>4
<1>3. \A n \in Nat : n \in S
  <2> HIDE DEF S
  <2> QED BY <1>1, <1>2, StepInduction
<1> QED BY <1>3

LEMMA RisingDocuments ==
    \A n \in 0..Depth : \A m \in 0..n : documents[m] \subseteq documents[n]
BY LevelDocuments, Rising, RisingFar, MergePatchAssumption DEF MergePatchAssumption

LEMMA RisingPatches ==
    \A n \in 0..Depth : \A m \in 0..n : patches[m] \subseteq patches[n]
BY LevelPatches, Rising, RisingFar, MergePatchAssumption DEF MergePatchAssumption

LEMMA DocumentsArePatches == \A n \in 0..Depth : documents[n] \subseteq patches[n]
<1> DEFINE S == {n \in Nat : n \in 0..Depth => documents[n] \subseteq patches[n]}
<1>1. 0 \in S
  BY LevelDocuments, LevelPatches DEF Nullable
<1>2. ASSUME NEW n \in Nat, n \in S PROVE n + 1 \in S
  <2> SUFFICES ASSUME n + 1 \in 0..Depth PROVE documents[n + 1] \subseteq patches[n + 1]
    BY DEF S
  <2>1. n + 1 \in 1..Depth /\ (n + 1) - 1 = n /\ n \in 0..Depth
    BY MergePatchAssumption DEF MergePatchAssumption
  <2>2. documents[n + 1] = Within(Leaves, documents[n]) /\ patches[n + 1] = Within(Nullable, patches[n])
    BY <2>1, LevelDocuments, LevelPatches
  <2>3. documents[n] \subseteq patches[n]
    BY <1>2, <2>1
  <2>4. Leaves \subseteq Nullable
    BY DEF Nullable
  <2> QED BY <2>2, <2>3, <2>4, WithinMono
<1>3. \A n \in Nat : n \in S
  <2> HIDE DEF S
  <2> QED BY <1>1, <1>2, StepInduction
<1> QED BY <1>3

LEMMA MembersMono == ASSUME NEW V, NEW W, V \subseteq W PROVE Members(V) \subseteq Members(W)
BY DEF Members

LEMMA OfMembers ==
    ASSUME NEW V, NEW m \in Members(V)
    PROVE  DOMAIN m \subseteq Names /\ m \in [DOMAIN m -> V]
BY DEF Members

LEMMA ToMembers ==
    ASSUME NEW V, NEW D \in SUBSET Names, NEW m \in [D -> V]
    PROVE  m \in Members(V)
BY DEF Members

\* An object is told from a leaf and from null.
LEMMA Kinds == \A m : /\ IsMap(Object(m)) /\ Object(m).at = m /\ Object(m) # Null
                      /\ Object(m) \notin Nullable
BY DEF IsMap, Object, Null, Nullable, Leaves, Leaf

LEMMA LeafKinds == ~IsMap(Null) /\ \A v \in Leaves : ~IsMap(v) /\ v # Null
BY DEF IsMap, Null, Leaves, Leaf

\* A value of a level is a leaf, or an object of values of the level below.
LEMMA OfWithin ==
    ASSUME NEW L, L \subseteq Nullable, NEW V, NEW v \in Within(L, V)
    PROVE  \/ v \in L /\ ~IsMap(v)
           \/ v \notin L /\ IsMap(v) /\ v # Null /\ v.at \in Members(V) /\ v = Object(v.at)
<1>1. CASE v \in L
  BY <1>1, LeafKinds DEF Nullable
<1>2. CASE v \notin L
  <2>1. PICK m \in Members(V) : v = Object(m)
    BY <1>2 DEF Within
  <2>2. IsMap(v) /\ v # Null /\ v.at = m
    BY <2>1, Kinds
  <2> QED BY <1>2, <2>1, <2>2
<1> QED BY <1>1, <1>2

LEMMA ADocument ==
    ASSUME NEW n \in 0..Depth, NEW v \in documents[n]
    PROVE  /\ v # Null
           /\ ~IsMap(v) => v \in Leaves
           /\ IsMap(v) => /\ n \in 1..Depth /\ n - 1 \in 0..Depth
                          /\ v.at \in Members(documents[n - 1]) /\ v = Object(v.at)
<1>1. CASE n = 0
  BY <1>1, LevelDocuments, LeafKinds
<1>2. CASE n # 0
  <2>1. n \in 1..Depth /\ n - 1 \in 0..Depth
    BY <1>2, MergePatchAssumption DEF MergePatchAssumption
  <2>2. v \in Within(Leaves, documents[n - 1])
    BY <2>1, LevelDocuments
  <2>3. Leaves \subseteq Nullable
    BY DEF Nullable
  <2> QED BY <2>1, <2>2, <2>3, OfWithin, LeafKinds
<1> QED BY <1>1, <1>2

LEMMA APatch ==
    ASSUME NEW n \in 0..Depth, NEW v \in patches[n]
    PROVE  /\ ~IsMap(v) => v \in Nullable
           /\ IsMap(v) => /\ n \in 1..Depth /\ n - 1 \in 0..Depth
                          /\ v.at \in Members(patches[n - 1]) /\ v = Object(v.at)
<1>1. CASE n = 0
  BY <1>1, LevelPatches, LeafKinds DEF Nullable
<1>2. CASE n # 0
  <2>1. n \in 1..Depth /\ n - 1 \in 0..Depth
    BY <1>2, MergePatchAssumption DEF MergePatchAssumption
  <2>2. v \in Within(Nullable, patches[n - 1])
    BY <2>1, LevelPatches
  <2> QED BY <2>1, <2>2, OfWithin
<1> QED BY <1>1, <1>2

-----------------------------------------------------------------------------
(* diff and applyMergePatch are what their recursion says *)

\* What diff makes of two objects depends on its recursive calls alone.
LEMMA DiffAgrees ==
    ASSUME NEW f, NEW g, NEW old, NEW new,
           \A k \in DOMAIN old \cap DOMAIN new :
               IsMap(old[k]) /\ IsMap(new[k]) => f[old[k].at][new[k].at] = g[old[k].at][new[k].at]
    PROVE  DiffMembers(f, old, new) = DiffMembers(g, old, new)
BY DEF DiffMembers

\* On documents of one level it depends on the calls one level below.
LEMMA DiffUpTo ==
    ASSUME NEW n \in 0..Depth, NEW f, NEW g,
           n > 0 => \A old, new \in Members(documents[n - 1]) : f[old][new] = g[old][new]
    PROVE  \A old, new \in Members(documents[n]) : DiffMembers(f, old, new) = DiffMembers(g, old, new)
<1> SUFFICES ASSUME NEW old \in Members(documents[n]), NEW new \in Members(documents[n])
             PROVE  DiffMembers(f, old, new) = DiffMembers(g, old, new)
  OBVIOUS
<1>1. ASSUME NEW k \in DOMAIN old \cap DOMAIN new, IsMap(old[k]), IsMap(new[k])
      PROVE  f[old[k].at][new[k].at] = g[old[k].at][new[k].at]
  <2>1. old[k] \in documents[n] /\ new[k] \in documents[n]
    BY OfMembers
  <2>2. n > 0 /\ old[k].at \in Members(documents[n - 1]) /\ new[k].at \in Members(documents[n - 1])
    BY <2>1, <1>1, ADocument
  <2> QED BY <2>2
<1> QED BY <1>1, DiffAgrees

\* At every level there is a function that satisfies the recursion of diff.
LEMMA DiffExists ==
    \A n \in 0..Depth :
        \E g : g = [old \in Members(documents[n]) |->
                       [new \in Members(documents[n]) |-> DiffMembers(g, old, new)]]
<1> DEFINE D(n) == Members(documents[n])
           Is(g, n) == g = [old \in D(n) |-> [new \in D(n) |-> DiffMembers(g, old, new)]]
           S == {n \in Nat : n \in 0..Depth => \E g : Is(g, n)}
\* One level more: the calls below it are to the level that exists.
<1>1. ASSUME NEW n \in 0..Depth, NEW f,
             n > 0 => \A old, new \in D(n - 1) : DiffMembers(f, old, new) = f[old][new]
      PROVE  \E g : Is(g, n)
  <2> DEFINE h == [old \in D(n) |-> [new \in D(n) |-> DiffMembers(f, old, new)]]
  <2>1. n > 0 => D(n - 1) \subseteq D(n)
    <3>1. ASSUME n > 0 PROVE documents[n - 1] \subseteq documents[n]
      <4>1. n - 1 \in 0..n
        BY <3>1
      <4> QED BY <4>1, RisingDocuments
    <3> QED BY <3>1, MembersMono
  <2>2. \A old, new \in D(n) : h[old][new] = DiffMembers(f, old, new)
    OBVIOUS
  <2>3. n > 0 => \A old, new \in D(n - 1) : h[old][new] = f[old][new]
    <3> HIDE DEF D, h
    <3> QED BY <1>1, <2>1, <2>2
  <2>4. \A old, new \in D(n) : DiffMembers(h, old, new) = DiffMembers(f, old, new)
    <3> HIDE DEF h
    <3> QED BY <2>3, DiffUpTo
  <2>5. h = [old \in D(n) |-> [new \in D(n) |-> DiffMembers(h, old, new)]]
    <3> DEFINE d(old, new) == DiffMembers(f, old, new)
               e(old, new) == DiffMembers(h, old, new)
    <3>1. h = [old \in D(n) |-> [new \in D(n) |-> d(old, new)]]
      OBVIOUS
    <3>2. \A old, new \in D(n) : d(old, new) = e(old, new)
      BY <2>4
    <3>3. h = [old \in D(n) |-> [new \in D(n) |-> e(old, new)]]
      <4> HIDE DEF h, d, e, D
      <4> QED BY <3>1, <3>2
    <3> QED BY <3>3
  <2> HIDE DEF h
  <2>6. Is(h, n)
    BY <2>5
  <2> HIDE DEF Is
  <2> QED BY <2>6
<1>2. 0 \in S
  <2>1. 0 \in 0..Depth
    BY MergePatchAssumption DEF MergePatchAssumption
  <2>2. \E g : Is(g, 0)
    <3> HIDE DEF Is, D
    <3> QED BY <2>1, <1>1
  <2> HIDE DEF Is
  <2> QED BY <2>2
<1>3. ASSUME NEW n \in Nat, n \in S PROVE n + 1 \in S
  <2> SUFFICES ASSUME n + 1 \in 0..Depth PROVE \E g : Is(g, n + 1)
    <3> HIDE DEF Is
    <3> QED BY DEF S
  <2>1. n \in 0..Depth /\ (n + 1) - 1 = n
    BY MergePatchAssumption DEF MergePatchAssumption
  <2>2. PICK f : Is(f, n)
    <3> HIDE DEF Is
    <3> QED BY <1>3, <2>1
  <2>3. \A old, new \in D(n) : DiffMembers(f, old, new) = f[old][new]
    <3> DEFINE d(old, new) == DiffMembers(f, old, new)
    <3>1. f = [old \in D(n) |-> [new \in D(n) |-> d(old, new)]]
      BY <2>2
    <3>2. \A old, new \in D(n) : d(old, new) = f[old][new]
      <4> HIDE DEF d, D
      <4> QED BY <3>1
    <3> QED BY <3>2
  <2> HIDE DEF Is, D
  <2> QED BY <1>1, <2>1, <2>3
<1>4. \A n \in Nat : n \in S
  <2> HIDE DEF S
  <2> QED BY <1>2, <1>3, StepInduction
<1>5. \A n \in 0..Depth : \E g : Is(g, n)
  <2> HIDE DEF Is
  <2> QED BY <1>4
<1> QED BY <1>5

\* So diff does.
LEMMA DiffIs ==
    \A old, new \in Documents : diff[old][new] = DiffMembers(diff, old, new)
<1>1. \E g : g = [old \in Documents |-> [new \in Documents |-> DiffMembers(g, old, new)]]
  <2>1. Depth - 1 \in 0..Depth
    BY MergePatchAssumption DEF MergePatchAssumption
  <2> QED BY <2>1, DiffExists, Zenon DEF Documents
<1>2. diff = [old \in Documents |-> [new \in Documents |-> DiffMembers(diff, old, new)]]
  BY <1>1, Zenon DEF diff
<1> DEFINE d(old, new) == DiffMembers(diff, old, new)
<1>3. diff = [old \in Documents |-> [new \in Documents |-> d(old, new)]]
  BY <1>2
<1>4. \A old, new \in Documents : diff[old][new] = d(old, new)
  <2> HIDE DEF d
  <2> QED BY <1>3
<1> QED BY <1>4

\* The same four steps for applyMergePatch, whose calls are one level below in both
\* arguments, or null.
LEMMA MergeAgrees ==
    ASSUME NEW f, NEW g, NEW target, NEW patch,
           IsMap(patch) => \A x : \A k \in DOMAIN patch.at :
               x = Null \/ (IsMap(target) /\ k \in DOMAIN target.at /\ x = target.at[k])
                   => f[x][patch.at[k]] = g[x][patch.at[k]]
    PROVE  MergeInto(f, target, patch) = MergeInto(g, target, patch)
<1>1. CASE ~IsMap(patch)
  BY <1>1 DEF MergeInto
<1>2. CASE IsMap(patch)
  <2> DEFINE base == IF IsMap(target) THEN target.at ELSE Empty
  <2>1. ASSUME NEW k \in DOMAIN patch.at
        PROVE  LET x == IF k \in DOMAIN base THEN base[k] ELSE Null
               IN  f[x][patch.at[k]] = g[x][patch.at[k]]
    <3>1. DOMAIN Empty = {}
      BY DEF Empty
    <3>2. CASE k \in DOMAIN base
      BY <1>2, <3>1, <3>2
    <3>3. CASE k \notin DOMAIN base
      BY <1>2, <3>3
    <3> QED BY <3>2, <3>3
  <2> QED BY <1>2, <2>1 DEF MergeInto
<1> QED BY <1>1, <1>2

LEMMA MergeUpTo ==
    ASSUME NEW n \in 0..Depth, NEW f, NEW g,
           n > 0 => \A target, patch \in patches[n - 1] : f[target][patch] = g[target][patch]
    PROVE  \A target, patch \in patches[n] : MergeInto(f, target, patch) = MergeInto(g, target, patch)
<1> SUFFICES ASSUME NEW target \in patches[n], NEW patch \in patches[n]
             PROVE  MergeInto(f, target, patch) = MergeInto(g, target, patch)
  OBVIOUS
<1>1. ASSUME IsMap(patch), NEW k \in DOMAIN patch.at, NEW x,
             x = Null \/ (IsMap(target) /\ k \in DOMAIN target.at /\ x = target.at[k])
      PROVE  f[x][patch.at[k]] = g[x][patch.at[k]]
  <2>1. n > 0 /\ n - 1 \in 0..Depth /\ patch.at \in Members(patches[n - 1])
    <3>1. n \in 1..Depth /\ n - 1 \in 0..Depth /\ patch.at \in Members(patches[n - 1])
      BY <1>1, APatch, Zenon
    <3> QED BY <3>1
  <2>2. patch.at[k] \in patches[n - 1]
    BY <1>1, <2>1, OfMembers
  <2>3. x \in patches[n - 1]
    <3>1. CASE x = Null
      <4>1. 0 \in 0..n - 1
        BY <2>1
      <4>2. Null \in patches[0]
        BY LevelPatches DEF Nullable
      <4> QED BY <3>1, <2>1, <4>1, <4>2, RisingPatches
    <3>2. CASE IsMap(target) /\ k \in DOMAIN target.at /\ x = target.at[k]
      <4>1. target.at \in Members(patches[n - 1])
        BY <3>2, APatch
      <4> QED BY <3>2, <4>1, OfMembers
    <3> QED BY <1>1, <3>1, <3>2
  <2> QED BY <2>1, <2>2, <2>3
<1> QED BY <1>1, MergeAgrees

LEMMA MergeExists ==
    \A n \in 0..Depth :
        \E g : g = [target \in patches[n] |->
                       [patch \in patches[n] |-> MergeInto(g, target, patch)]]
<1> DEFINE D(n) == patches[n]
           Is(g, n) == g = [target \in D(n) |-> [patch \in D(n) |-> MergeInto(g, target, patch)]]
           S == {n \in Nat : n \in 0..Depth => \E g : Is(g, n)}
\* One level more: the calls below it are to the level that exists.
<1>1. ASSUME NEW n \in 0..Depth, NEW f,
             n > 0 => \A target, patch \in D(n - 1) : MergeInto(f, target, patch) = f[target][patch]
      PROVE  \E g : Is(g, n)
  <2> DEFINE h == [target \in D(n) |-> [patch \in D(n) |-> MergeInto(f, target, patch)]]
  <2>1. n > 0 => D(n - 1) \subseteq D(n)
    <3>1. ASSUME n > 0 PROVE n - 1 \in 0..n
      BY <3>1
    <3> QED BY <3>1, RisingPatches
  <2>2. \A target, patch \in D(n) : h[target][patch] = MergeInto(f, target, patch)
    OBVIOUS
  <2>3. n > 0 => \A target, patch \in D(n - 1) : h[target][patch] = f[target][patch]
    <3> HIDE DEF D, h
    <3> QED BY <1>1, <2>1, <2>2
  <2>4. \A target, patch \in D(n) : MergeInto(h, target, patch) = MergeInto(f, target, patch)
    <3> HIDE DEF h
    <3> QED BY <2>3, MergeUpTo
  <2>5. h = [target \in D(n) |-> [patch \in D(n) |-> MergeInto(h, target, patch)]]
    <3> DEFINE d(target, patch) == MergeInto(f, target, patch)
               e(target, patch) == MergeInto(h, target, patch)
    <3>1. h = [target \in D(n) |-> [patch \in D(n) |-> d(target, patch)]]
      OBVIOUS
    <3>2. \A target, patch \in D(n) : d(target, patch) = e(target, patch)
      BY <2>4
    <3>3. h = [target \in D(n) |-> [patch \in D(n) |-> e(target, patch)]]
      <4> HIDE DEF h, d, e, D
      <4> QED BY <3>1, <3>2
    <3> QED BY <3>3
  <2> HIDE DEF h
  <2>6. Is(h, n)
    BY <2>5
  <2> HIDE DEF Is
  <2> QED BY <2>6
<1>2. 0 \in S
  <2>1. 0 \in 0..Depth
    BY MergePatchAssumption DEF MergePatchAssumption
  <2>2. \E g : Is(g, 0)
    <3> HIDE DEF Is, D
    <3> QED BY <2>1, <1>1
  <2> HIDE DEF Is
  <2> QED BY <2>2
<1>3. ASSUME NEW n \in Nat, n \in S PROVE n + 1 \in S
  <2> SUFFICES ASSUME n + 1 \in 0..Depth PROVE \E g : Is(g, n + 1)
    <3> HIDE DEF Is
    <3> QED BY DEF S
  <2>1. n \in 0..Depth /\ (n + 1) - 1 = n
    BY MergePatchAssumption DEF MergePatchAssumption
  <2>2. PICK f : Is(f, n)
    <3> HIDE DEF Is
    <3> QED BY <1>3, <2>1
  <2>3. \A target, patch \in D(n) : MergeInto(f, target, patch) = f[target][patch]
    <3> DEFINE d(target, patch) == MergeInto(f, target, patch)
    <3>1. f = [target \in D(n) |-> [patch \in D(n) |-> d(target, patch)]]
      BY <2>2
    <3>2. \A target, patch \in D(n) : d(target, patch) = f[target][patch]
      <4> HIDE DEF d, D
      <4> QED BY <3>1
    <3> QED BY <3>2
  <2> HIDE DEF Is, D
  <2> QED BY <1>1, <2>1, <2>3
<1>4. \A n \in Nat : n \in S
  <2> HIDE DEF S
  <2> QED BY <1>2, <1>3, StepInduction
<1>5. \A n \in 0..Depth : \E g : Is(g, n)
  <2> HIDE DEF Is
  <2> QED BY <1>4
<1> QED BY <1>5

LEMMA MergeIs ==
    \A target, patch \in Values : applyMergePatch[target][patch] = MergeInto(applyMergePatch, target, patch)
<1>1. \E g : g = [target \in Values |-> [patch \in Values |-> MergeInto(g, target, patch)]]
  <2>1. Depth \in 0..Depth
    BY MergePatchAssumption DEF MergePatchAssumption
  <2> QED BY <2>1, MergeExists, Zenon DEF Values
<1>2. applyMergePatch = [target \in Values |-> [patch \in Values |-> MergeInto(applyMergePatch, target, patch)]]
  BY <1>1, Zenon DEF applyMergePatch
<1> DEFINE d(target, patch) == MergeInto(applyMergePatch, target, patch)
<1>3. applyMergePatch = [target \in Values |-> [patch \in Values |-> d(target, patch)]]
  BY <1>2
<1>4. \A target, patch \in Values : applyMergePatch[target][patch] = d(target, patch)
  <2> HIDE DEF d
  <2> QED BY <1>3
<1> QED BY <1>4

-----------------------------------------------------------------------------
(* A patch applied gives the document it was made for *)

\* Every level is among the values the functions are defined on.
LEMMA Documented ==
    /\ \A n \in 0..Depth : documents[n] \subseteq Values
    /\ \A n \in 0..Depth - 1 : Members(documents[n]) \subseteq Documents
    /\ \A n \in 0..Depth - 1 : \A m \in Members(patches[n]) : Object(m) \in Values
    /\ Null \in Values
<1> USE MergePatchAssumption DEF MergePatchAssumption
<1>1. ASSUME NEW n \in 0..Depth PROVE documents[n] \subseteq Values
  <2>1. patches[n] \subseteq patches[Depth]
    BY RisingPatches
  <2> QED BY <2>1, DocumentsArePatches DEF Values
<1>2. ASSUME NEW n \in 0..Depth - 1 PROVE Members(documents[n]) \subseteq Documents
  <2>1. documents[n] \subseteq documents[Depth - 1]
    BY RisingDocuments
  <2> QED BY <2>1, MembersMono DEF Documents
<1>3. ASSUME NEW n \in 0..Depth - 1, NEW m \in Members(patches[n]) PROVE Object(m) \in Values
  <2>1. patches[n] \subseteq patches[Depth - 1]
    BY RisingPatches
  <2>2. m \in Members(patches[Depth - 1])
    BY <2>1, MembersMono
  <2>3. patches[Depth] = Within(Nullable, patches[Depth - 1])
    BY LevelPatches
  <2> QED BY <2>2, <2>3 DEF Values, Within
<1>4. Null \in Values
  <2>1. patches[0] \subseteq patches[Depth]
    BY RisingPatches
  <2> QED BY <2>1, LevelPatches DEF Values, Nullable
<1> QED BY <1>1, <1>2, <1>3, <1>4

\* A document merged into nothing, or into a leaf, is itself.
LEMMA ApplyToNothing ==
    \A n \in 0..Depth : \A v \in documents[n], t \in Values :
        ~IsMap(t) => applyMergePatch[t][v] = v
<1> DEFINE Kept(n) == \A v \in documents[n], t \in Values : ~IsMap(t) => applyMergePatch[t][v] = v
           S == {n \in Nat : n \in 0..Depth => Kept(n)}
<1>1. ASSUME NEW n \in 0..Depth, n > 0 => Kept(n - 1) PROVE Kept(n)
  <2> SUFFICES ASSUME NEW v \in documents[n], NEW t \in Values, ~IsMap(t)
               PROVE  applyMergePatch[t][v] = v
    OBVIOUS
  <2>1. applyMergePatch[t][v] = MergeInto(applyMergePatch, t, v)
    BY Documented, MergeIs
  <2>2. CASE ~IsMap(v)
    BY <2>1, <2>2 DEF MergeInto
  <2>3. CASE IsMap(v)
    <3> DEFINE m == v.at
    <3>1. n > 0 /\ n - 1 \in 0..Depth /\ m \in Members(documents[n - 1]) /\ v = Object(m)
      BY <2>3, ADocument
    <3>2. \A k \in DOMAIN m : m[k] \in documents[n - 1]
      BY <3>1, OfMembers
    <3>3. \A k \in DOMAIN m : m[k] # Null
      BY <3>1, <3>2, ADocument
    <3>4. \A k \in DOMAIN m : applyMergePatch[Null][m[k]] = m[k]
      BY <1>1, <3>1, <3>2, Documented, LeafKinds
    <3>5. DOMAIN Empty = {}
      BY DEF Empty
    <3>6. m = [k \in DOMAIN m |-> m[k]]
      BY <3>1, OfMembers
    <3>7. MergeInto(applyMergePatch, t, v) = Object([k \in DOMAIN m |-> applyMergePatch[Null][m[k]]])
      <4>1. DOMAIN m \ {k \in DOMAIN m : m[k] = Null} = DOMAIN m
        BY <3>3
      <4> HIDE DEF m
      <4> QED BY <2>3, <3>5, <4>1 DEF MergeInto, m
    <3>8. [k \in DOMAIN m |-> applyMergePatch[Null][m[k]]] = [k \in DOMAIN m |-> m[k]]
      BY <3>4
    <3> QED BY <2>1, <3>1, <3>6, <3>7, <3>8
  <2> QED BY <2>2, <2>3
<1>2. 0 \in S
  <2>1. 0 \in 0..Depth
    BY MergePatchAssumption DEF MergePatchAssumption
  <2> HIDE DEF Kept
  <2> QED BY <1>1, <2>1
<1>3. ASSUME NEW n \in Nat, n \in S PROVE n + 1 \in S
  <2> HIDE DEF Kept
  <2> SUFFICES ASSUME n + 1 \in 0..Depth PROVE Kept(n + 1)
    OBVIOUS
  <2>1. n \in 0..Depth /\ (n + 1) - 1 = n
    BY MergePatchAssumption DEF MergePatchAssumption
  <2> QED BY <1>1, <1>3, <2>1
<1>4. \A n \in Nat : n \in S
  <2> HIDE DEF S
  <2> QED BY <1>2, <1>3, StepInduction
<1> QED BY <1>4

\* What the induction shows of two objects.
RebuiltTo(n, old, new) ==
    LET patch == diff[old][new] IN
    /\ patch \in Members(patches[n])
    /\ patch = Empty <=> old = new
    /\ \A scope \in SUBSET Names :
         applyMergePatch[Object(FilterTopics(old, scope))][Object(FilterTopics(patch, scope))]
             = Object(FilterTopics(new, scope))

\* What a patch holds at a key: just the keys that differ, null where one is
\* gone, and otherwise something that makes the old value the new.
LEMMA PatchEntries ==
    ASSUME NEW n \in 0..Depth - 1,
           n > 0 => \A old, new \in Members(documents[n - 1]) : RebuiltTo(n - 1, old, new),
           NEW old \in Members(documents[n]), NEW new \in Members(documents[n])
    PROVE  LET patch == diff[old][new] IN
           /\ patch \in Members(patches[n])
           /\ DOMAIN patch = {k \in DOMAIN new : k \notin DOMAIN old \/ old[k] # new[k]}
                                 \cup (DOMAIN old \ DOMAIN new)
           /\ \A k \in DOMAIN old \ DOMAIN new : patch[k] = Null
           /\ \A k \in DOMAIN patch \cap DOMAIN new :
                /\ patch[k] # Null
                /\ applyMergePatch[IF k \in DOMAIN old THEN old[k] ELSE Null][patch[k]] = new[k]
<1> USE MergePatchAssumption DEF MergePatchAssumption
<1> DEFINE patch == diff[old][new]
           sub(k) == diff[old[k].at][new[k].at]
           nested(k) == k \in DOMAIN old /\ IsMap(old[k]) /\ IsMap(new[k])
           gone == DOMAIN old \ DOMAIN new
           differs == {k \in DOMAIN new : k \notin DOMAIN old \/ old[k] # new[k]}
<1>0. n \in 0..Depth
  OBVIOUS
<1>1. /\ DOMAIN old \subseteq Names /\ DOMAIN new \subseteq Names
      /\ \A k \in DOMAIN old : old[k] \in documents[n]
      /\ \A k \in DOMAIN new : new[k] \in documents[n]
  BY OfMembers
<1>2. patch = DiffMembers(diff, old, new)
  <2>1. old \in Documents /\ new \in Documents
    BY Documented
  <2> QED BY <2>1, DiffIs
<1>3. ASSUME NEW k \in DOMAIN new, nested(k)
      PROVE  /\ Object(sub(k)) \in patches[n]
             /\ sub(k) = Empty <=> old[k] = new[k]
             /\ applyMergePatch[old[k]][Object(sub(k))] = new[k]
  <2> DEFINE o == old[k].at
             w == new[k].at
  <2>1. /\ n > 0 /\ n - 1 \in 0..Depth /\ n \in 1..Depth
        /\ o \in Members(documents[n - 1]) /\ old[k] = Object(o)
        /\ w \in Members(documents[n - 1]) /\ new[k] = Object(w)
    BY <1>0, <1>1, <1>3, ADocument
  <2>2. RebuiltTo(n - 1, o, w)
    BY <2>1
  <2>3. sub(k) \in Members(patches[n - 1])
    BY <2>2 DEF RebuiltTo
  <2>4. Object(sub(k)) \in patches[n]
    BY <2>1, <2>3, LevelPatches DEF Within
  <2>5. sub(k) = Empty <=> o = w
    BY <2>2 DEF RebuiltTo
  <2>6. \A V : \A m \in Members(V) : FilterTopics(m, Names) = m
    <3> SUFFICES ASSUME NEW V, NEW m \in Members(V) PROVE FilterTopics(m, Names) = m
      OBVIOUS
    <3>1. m = [k_1 \in DOMAIN m |-> m[k_1]] /\ DOMAIN m \cap Names = DOMAIN m
      BY OfMembers
    <3> QED BY <3>1 DEF FilterTopics
  <2>7. applyMergePatch[Object(FilterTopics(o, Names))][Object(FilterTopics(sub(k), Names))]
            = Object(FilterTopics(w, Names))
    BY <2>2 DEF RebuiltTo
  <2>8. o = w <=> Object(o) = Object(w)
    BY Kinds
  <2> HIDE DEF o, w, sub
  <2> QED BY <2>1, <2>3, <2>4, <2>5, <2>6, <2>7, <2>8
<1>4. DOMAIN patch = differs \cup gone
  <2>1. DOMAIN patch = {k \in DOMAIN new : IF nested(k) THEN sub(k) # Empty
                                           ELSE k \notin DOMAIN old \/ old[k] # new[k]} \cup gone
    <3> HIDE DEF patch
    <3> QED BY <1>2 DEF DiffMembers
  <2> HIDE DEF patch, sub
  <2> QED BY <2>1, <1>3
<1>5. /\ \A k \in gone : patch[k] = Null
      /\ \A k \in differs : patch[k] = IF nested(k) THEN Object(sub(k)) ELSE new[k]
  <2>1. \A k \in DOMAIN patch : patch[k] = IF k \in gone THEN Null
                                           ELSE IF nested(k) THEN Object(sub(k)) ELSE new[k]
    <3> HIDE DEF patch
    <3> QED BY <1>2 DEF DiffMembers
  <2> HIDE DEF patch, sub, nested
  <2> QED BY <1>4, <2>1
<1>6. ASSUME NEW k \in differs
      PROVE  /\ patch[k] \in patches[n] /\ patch[k] # Null
             /\ applyMergePatch[IF k \in DOMAIN old THEN old[k] ELSE Null][patch[k]] = new[k]
  <2>1. CASE nested(k)
    <3>1. Object(sub(k)) # Null
      BY Kinds
    <3> HIDE DEF patch, sub
    <3> QED BY <1>3, <1>5, <2>1, <3>1
  <2>2. CASE ~nested(k)
    <3>1. patch[k] = new[k] /\ new[k] \in documents[n]
      <4> HIDE DEF patch, sub, nested
      <4> QED BY <1>1, <1>5, <2>2
    <3>2. new[k] \in patches[n] /\ new[k] # Null /\ new[k] \in Values
      BY <1>0, <3>1, DocumentsArePatches, ADocument, Documented
    <3> DEFINE x == IF k \in DOMAIN old THEN old[k] ELSE Null
    <3>3. x \in Values
      BY <1>0, <1>1, Documented
    <3>4. applyMergePatch[x][new[k]] = new[k]
      <4>1. CASE IsMap(new[k])
        <5>1. ~IsMap(x)
          BY <2>2, <4>1, LeafKinds
        <5> HIDE DEF x
        <5> QED BY <1>0, <3>1, <3>3, <5>1, ApplyToNothing
      <4>2. CASE ~IsMap(new[k])
        <5> HIDE DEF x
        <5>1. applyMergePatch[x][new[k]] = MergeInto(applyMergePatch, x, new[k])
          BY <3>2, <3>3, MergeIs
        <5> QED BY <4>2, <5>1 DEF MergeInto
      <4> QED BY <4>1, <4>2
    <3> QED BY <3>1, <3>2, <3>4
  <2> QED BY <2>1, <2>2
<1>7. \A k \in gone : patch[k] \in patches[n]
  <2>1. 0 \in 0..n /\ Null \in patches[0]
    BY LevelPatches DEF Nullable
  <2>2. Null \in patches[n]
    BY <1>0, <2>1, RisingPatches
  <2> QED BY <1>5, <2>2
<1>8. patch \in Members(patches[n])
  <2>1. patch = [k \in DOMAIN patch |-> patch[k]]
    <3> HIDE DEF patch
    <3> QED BY <1>2 DEF DiffMembers
  <2>2. DOMAIN patch \in SUBSET Names
    BY <1>1, <1>4
  <2>3. \A k \in DOMAIN patch : patch[k] \in patches[n]
    BY <1>4, <1>6, <1>7
  <2> HIDE DEF patch
  <2>4. patch \in [DOMAIN patch -> patches[n]]
    BY <2>1, <2>3
  <2> QED BY <2>2, <2>4, ToMembers
<1>9. DOMAIN patch \cap DOMAIN new = differs
  BY <1>4
<1> HIDE DEF patch, sub, nested
<1> QED BY <1>4, <1>5, <1>6, <1>8, <1>9 DEF patch

\* From the members of two objects to the objects: the domains first, then each key.
LEMMA RebuiltOneLevelMore ==
    ASSUME NEW n \in 0..Depth - 1,
           n > 0 => \A old, new \in Members(documents[n - 1]) : RebuiltTo(n - 1, old, new)
    PROVE  \A old, new \in Members(documents[n]) : RebuiltTo(n, old, new)
<1> USE MergePatchAssumption DEF MergePatchAssumption
<1> SUFFICES ASSUME NEW old \in Members(documents[n]), NEW new \in Members(documents[n])
             PROVE  RebuiltTo(n, old, new)
  OBVIOUS
<1> DEFINE patch == diff[old][new]
           differs == {k \in DOMAIN new : k \notin DOMAIN old \/ old[k] # new[k]}
           gone == DOMAIN old \ DOMAIN new
           was(k) == IF k \in DOMAIN old THEN old[k] ELSE Null
<1>1. /\ patch \in Members(patches[n])
      /\ DOMAIN patch = differs \cup gone
      /\ \A k \in gone : patch[k] = Null
      /\ \A k \in DOMAIN patch \cap DOMAIN new :
           patch[k] # Null /\ applyMergePatch[was(k)][patch[k]] = new[k]
  BY PatchEntries
<1>2. /\ old = [k \in DOMAIN old |-> old[k]] /\ new = [k \in DOMAIN new |-> new[k]]
      /\ patch = [k \in DOMAIN patch |-> patch[k]]
  BY <1>1, OfMembers
<1>3. patch = Empty <=> old = new
  <2>1. patch = Empty <=> DOMAIN patch = {}
    <3> HIDE DEF patch
    <3> QED BY <1>2 DEF Empty
  <2>2. DOMAIN patch = {} <=> DOMAIN old = DOMAIN new /\ \A k \in DOMAIN new : old[k] = new[k]
    <3> HIDE DEF patch
    <3> QED BY <1>1
  <2>3. old = new <=> DOMAIN old = DOMAIN new /\ \A k \in DOMAIN new : old[k] = new[k]
    BY <1>2
  <2> QED BY <2>1, <2>2, <2>3
<1>4. ASSUME NEW scope \in SUBSET Names
      PROVE  applyMergePatch[Object(FilterTopics(old, scope))][Object(FilterTopics(patch, scope))]
                 = Object(FilterTopics(new, scope))
  <2> DEFINE o == FilterTopics(old, scope)
             p == FilterTopics(patch, scope)
             w == FilterTopics(new, scope)
             A == applyMergePatch
  <2> HIDE DEF patch
  <2>1. /\ DOMAIN o = DOMAIN old \cap scope /\ \A k \in DOMAIN o : o[k] = old[k]
        /\ DOMAIN p = DOMAIN patch \cap scope /\ \A k \in DOMAIN p : p[k] = patch[k]
    BY DEF FilterTopics
  <2>2. Object(o) \in Values /\ Object(p) \in Values
    <3>1. ASSUME NEW V, NEW m \in Members(V) PROVE FilterTopics(m, scope) \in Members(V)
      <4> DEFINE D == DOMAIN m \cap scope
      <4>1. D \in SUBSET Names /\ \A k \in D : m[k] \in V
        BY OfMembers
      <4>2. FilterTopics(m, scope) \in [D -> V]
        BY <4>1 DEF FilterTopics
      <4> QED BY <4>1, <4>2, ToMembers
    <3>2. documents[n] \subseteq patches[n]
      BY DocumentsArePatches
    <3>3. o \in Members(patches[n]) /\ p \in Members(patches[n])
      BY <1>1, <3>1, <3>2, MembersMono
    <3> QED BY <3>3, Documented
  <2>3. IsMap(Object(o)) /\ Object(o).at = o /\ IsMap(Object(p)) /\ Object(p).at = p
    BY Kinds
  <2> DEFINE keys == (DOMAIN o \cup DOMAIN p) \ {k \in DOMAIN p : p[k] = Null}
             at(k) == IF k \in DOMAIN p THEN A[IF k \in DOMAIN o THEN o[k] ELSE Null][p[k]]
                      ELSE o[k]
  <2>4. A[Object(o)][Object(p)] = Object([k \in keys |-> at(k)])
    <3> HIDE DEF o, p
    <3> QED BY <2>2, <2>3, MergeIs DEF MergeInto
  <2>5. keys = DOMAIN new \cap scope
    BY <1>1, <2>1
  <2>6. ASSUME NEW k \in DOMAIN new \cap scope PROVE at(k) = new[k]
    <3>1. CASE k \in DOMAIN p
      <4>1. p[k] = patch[k] /\ (IF k \in DOMAIN o THEN o[k] ELSE Null) = was(k)
            /\ k \in DOMAIN patch \cap DOMAIN new
        BY <2>1, <3>1
      <4> HIDE DEF o, p, was
      <4> QED BY <1>1, <3>1, <4>1
    <3>2. CASE k \notin DOMAIN p
      <4>1. k \in DOMAIN o /\ o[k] = old[k] /\ old[k] = new[k]
        BY <1>1, <2>1, <3>2
      <4> HIDE DEF o, p
      <4> QED BY <3>2, <4>1
    <3> QED BY <3>1, <3>2
  <2>7. [k \in keys |-> at(k)] = w
    <3> HIDE DEF keys, at
    <3>1. [k \in keys |-> at(k)] = [k \in DOMAIN new \cap scope |-> new[k]]
      BY <2>5, <2>6
    <3> QED BY <3>1 DEF FilterTopics
  <2> HIDE DEF keys, at, w
  <2> QED BY <2>4, <2>7 DEF w
<1> HIDE DEF patch
<1> QED BY <1>1, <1>3, <1>4 DEF RebuiltTo, patch

\* Every patch the server's diff makes rebuilds the document, whole or a client's
\* part of it, and is empty just for equal documents (mergepatch.go, protocol.dart):
\* for every set of keys and of leaves, and however deep objects are nested.
THEOREM Rebuilding == Rebuilds
<1> USE MergePatchAssumption DEF MergePatchAssumption
<1> DEFINE Good(n) == \A old, new \in Members(documents[n]) : RebuiltTo(n, old, new)
           S == {n \in Nat : n \in 0..Depth - 1 => Good(n)}
<1>1. 0 \in S
  <2>1. 0 \in 0..Depth - 1
    OBVIOUS
  <2>2. Good(0)
    BY <2>1, RebuiltOneLevelMore
  <2> HIDE DEF Good
  <2> QED BY <2>2
<1>2. ASSUME NEW n \in Nat, n \in S PROVE n + 1 \in S
  <2> SUFFICES ASSUME n + 1 \in 0..Depth - 1 PROVE Good(n + 1)
    <3> HIDE DEF Good
    <3> QED OBVIOUS
  <2>1. n \in 0..Depth - 1 /\ (n + 1) - 1 = n
    OBVIOUS
  <2>2. Good(n)
    <3> HIDE DEF Good
    <3> QED BY <1>2, <2>1
  <2> QED BY <2>1, <2>2, RebuiltOneLevelMore
<1>3. \A n \in Nat : n \in S
  <2> HIDE DEF S
  <2> QED BY <1>1, <1>2, StepInduction
<1>4. Good(Depth - 1)
  <2>1. Depth - 1 \in Nat /\ Depth - 1 \in 0..Depth - 1
    OBVIOUS
  <2> HIDE DEF Good
  <2> QED BY <1>3, <2>1
<1> QED BY <1>4 DEF Rebuilds, RebuiltTo, Documents

\* So every behaviour of the state stream starts with patches that rebuild.
THEOREM Rebuilt == Spec => []PatchesRebuild
<1>1. PatchesRebuild
  BY Rebuilding DEF PatchesRebuild
<1> QED BY <1>1, PTL

=============================================================================
