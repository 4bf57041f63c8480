---------------------------- MODULE SurfaceSync ----------------------------
(***************************************************************************)
(* The button surface: Companion's key renders reach the satellite reader, *)
(* the surface manager caches and broadcasts them (api/surface.go), each   *)
(* connection's lane coalesces them (SurfaceLane), and the client mirrors  *)
(* them, decoding bitmaps asynchronously (services/surface_state.dart).    *)
(*                                                                         *)
(* A face is everything a key shows; a face in Plain comes without a       *)
(* bitmap (the page-navigation types).  The grid's dimensions never change *)
(* after the start, so a layout is only its sequence number.  Two things   *)
(* are history: lane frames' era and the client's era.                     *)
(***************************************************************************)
EXTENDS SurfaceLane

CONSTANTS Clients, Keys, Faces, Plain, NoFace, Nobody,
          SocketBuffer,    \* bound: surface frames written and not yet handled
          MaxSeq,          \* bound: key renders Companion sends
          MaxRebaselines   \* bound: registrations and clears after the first

ASSUME SurfaceAssumption ==
    /\ Plain \subseteq Faces /\ NoFace \notin Faces
    /\ IsFiniteSet(Keys) /\ NoKey \notin Keys /\ Nobody \notin Clients
    /\ SocketBuffer \in Nat \ {0} /\ MaxSeq \in Nat /\ MaxRebaselines \in Nat

VARIABLES
    seq,       \* surfaceManager.seq
    cache,     \* surfaceManager.keys: the last frame of each key, or Empty
    era,       \* re-baselines so far (bounds them)
    pending,   \* the satellite reader's frame, cached but not yet broadcast
    owner,     \* the connection whose replay holds surfaceManager.mu, or Nobody
    todo,      \* the cached keys that replay has still to push
    stage,     \* where a connection's read goroutine is
    members,   \* hub.clients
    lane,      \* the surface lane of each connection
    wire,      \* surface frames written and not yet handled by the client
    sized,     \* SurfaceState.hasLayout
    shown,     \* SurfaceState._keys and _seq
    decoding,  \* _decodeBitmap calls in flight
    rebased    \* history: the era of the last layout the client handled

managerVars == <<seq, cache, era, pending>>
replayVars  == <<owner, todo>>
clientVars  == <<sized, shown, decoding, rebased>>
vars == <<seq, cache, era, pending, owner, todo, stage, members, lane, wire,
          sized, shown, decoding, rebased>>

-----------------------------------------------------------------------------
Empty   == KeyFrame(NoKey, 0, NoFace, 0)
Frames  == [key : Keys \cup {NoKey}, seq : Nat, face : Faces \cup {NoFace}, era : Nat]
Idle    == {}
NoEntry == [seq |-> 0, face |-> NoFace, image |-> NoFace, era |-> 0]
Entries == [seq : Nat, face : Faces \cup {NoFace}, image : Faces \cup {NoFace}, era : Nat]
Decodes == [key : Keys, seq : Nat, face : Faces]

Cached   == {k \in Keys : cache[k] # Empty}
Showing(c, k) == shown[c][k] # NoEntry

Init ==
    /\ seq = 0 /\ era = 0 /\ pending = Idle
    /\ cache = [k \in Keys |-> Empty]
    /\ owner = Nobody /\ todo = {}
    /\ stage = [c \in Clients |-> "down"]
    /\ members = {}
    /\ lane = [c \in Clients |-> <<>>]
    /\ wire = [c \in Clients |-> <<>>]
    /\ sized = [c \in Clients |-> FALSE]
    /\ shown = [c \in Clients |-> [k \in Keys |-> NoEntry]]
    /\ decoding = [c \in Clients |-> {}]
    /\ rebased = [c \in Clients |-> 0]

-----------------------------------------------------------------------------
(* The satellite reader: one line at a time, cached and then broadcast *)

\* onKey, under mu.
CacheKey(k, face) ==
    LET f == KeyFrame(k, seq + 1, face, era) IN
    /\ pending = Idle /\ owner = Nobody
    /\ seq < MaxSeq
    /\ seq' = seq + 1
    /\ cache' = [cache EXCEPT ![k] = f]
    /\ pending' = {f}
    /\ UNCHANGED <<era, stage, members, lane, wire>>
    /\ UNCHANGED replayVars /\ UNCHANGED clientVars

\* onClear, and onLayout on a registration: an empty cache, under mu.  The
\* sequence does not advance.
Rebaseline ==
    /\ pending = Idle /\ owner = Nobody
    /\ era < MaxRebaselines
    /\ era' = era + 1
    /\ cache' = [k \in Keys |-> Empty]
    /\ pending' = {LayoutFrame(seq, NoFace, era + 1)}
    /\ UNCHANGED <<seq, stage, members, lane, wire>>
    /\ UNCHANGED replayVars /\ UNCHANGED clientVars

\* broadcastSurfaceKey and broadcastSurfaceLayout, after mu is released.
BroadcastPending ==
    /\ pending # Idle
    /\ lane' = [c \in Clients |->
                  IF c \in members THEN Push(lane[c], CHOOSE f \in pending : TRUE)
                  ELSE lane[c]]
    /\ pending' = Idle
    /\ UNCHANGED <<seq, cache, era, stage, members, wire>>
    /\ UNCHANGED replayVars /\ UNCHANGED clientVars

-----------------------------------------------------------------------------
(* A connection's read goroutine *)

\* run up to the hub registration (the state stream's snapshot is StateSync's).
Connect(c) ==
    /\ stage[c] = "down"
    /\ stage' = [stage EXCEPT ![c] = "joined"]
    /\ members' = members \cup {c}
    /\ UNCHANGED <<lane, wire>>
    /\ UNCHANGED managerVars /\ UNCHANGED replayVars /\ UNCHANGED clientVars

\* handleSubscription: out of the hub ...
Leave(c) ==
    /\ stage[c] = "serving"
    /\ stage' = [stage EXCEPT ![c] = "away"]
    /\ members' = members \ {c}
    /\ UNCHANGED <<lane, wire>>
    /\ UNCHANGED managerVars /\ UNCHANGED replayVars /\ UNCHANGED clientVars

\* Fault: no replay after a subscription change.
Rejoin_NoReplay(c) ==
    /\ stage[c] = "away"
    /\ stage' = [stage EXCEPT ![c] = "serving"]
    /\ members' = members \cup {c}
    /\ UNCHANGED <<lane, wire>>
    /\ UNCHANGED managerVars /\ UNCHANGED replayVars /\ UNCHANGED clientVars

\* ... and in again, before the replay.
Rejoin(c) ==
    /\ stage[c] = "away"
    /\ stage' = [stage EXCEPT ![c] = "joined"]
    /\ members' = members \cup {c}
    /\ UNCHANGED <<lane, wire>>
    /\ UNCHANGED managerVars /\ UNCHANGED replayVars /\ UNCHANGED clientVars

\* sendInitial: mu is held from the layout to the last cached key.
ReplayLayout(c) ==
    /\ stage[c] = "joined" /\ owner = Nobody
    /\ owner' = c
    /\ todo' = Cached
    /\ lane' = [lane EXCEPT ![c] = Push(@, LayoutFrame(seq, NoFace, era))]
    /\ stage' = [stage EXCEPT ![c] = "replaying"]
    /\ UNCHANGED <<members, wire>> /\ UNCHANGED managerVars /\ UNCHANGED clientVars

ReplayKey(c, k) ==
    /\ stage[c] = "replaying" /\ k \in todo
    /\ lane' = [lane EXCEPT ![c] = Push(@, cache[k])]
    /\ todo' = todo \ {k}
    /\ UNCHANGED <<owner, stage, members, wire>>
    /\ UNCHANGED managerVars /\ UNCHANGED clientVars

ReplayEnd(c) ==
    /\ stage[c] = "replaying" /\ todo = {}
    /\ owner' = Nobody /\ todo' = {}
    /\ stage' = [stage EXCEPT ![c] = "serving"]
    /\ UNCHANGED <<members, lane, wire>> /\ UNCHANGED managerVars /\ UNCHANGED clientVars

\* writeLoop: pop the oldest surface frame (no state frame waits) and write it.
Write(c) ==
    /\ stage[c] # "down" /\ lane[c] # <<>> /\ Len(wire[c]) < SocketBuffer
    /\ wire' = [wire EXCEPT ![c] = Append(@, Head(lane[c]))]
    /\ lane' = [lane EXCEPT ![c] = Tail(@)]
    /\ UNCHANGED <<stage, members>>
    /\ UNCHANGED managerVars /\ UNCHANGED replayVars /\ UNCHANGED clientVars

\* The connection ends: the replay it may be in still releases mu, its frames
\* go nowhere, and the client resets its surface; decodes run on.
Disconnect(c) ==
    /\ stage[c] # "down"
    /\ stage' = [stage EXCEPT ![c] = "down"]
    /\ members' = members \ {c}
    /\ owner' = IF owner = c THEN Nobody ELSE owner
    /\ todo' = IF owner = c THEN {} ELSE todo
    /\ lane' = [lane EXCEPT ![c] = <<>>]
    /\ wire' = [wire EXCEPT ![c] = <<>>]
    /\ sized' = [sized EXCEPT ![c] = FALSE]
    /\ shown' = [shown EXCEPT ![c] = [k \in Keys |-> NoEntry]]
    /\ rebased' = [rebased EXCEPT ![c] = 0]
    /\ UNCHANGED decoding /\ UNCHANGED managerVars

-----------------------------------------------------------------------------
(* The client *)

\* Fault: a key at the layout's own sequence survives it.
ApplyLayout_KeepsTies(c, f) ==
    /\ sized' = [sized EXCEPT ![c] = TRUE]
    /\ shown' = [shown EXCEPT ![c] =
                   [k \in Keys |-> IF @[k].seq < f.seq THEN NoEntry ELSE @[k]]]
    /\ rebased' = [rebased EXCEPT ![c] = f.era]
    /\ UNCHANGED decoding

\* applyLayout: the grid is sized; keys at or below its sequence are dropped.
ApplyLayout(c, f) ==
    /\ sized' = [sized EXCEPT ![c] = TRUE]
    /\ shown' = [shown EXCEPT ![c] =
                   [k \in Keys |-> IF @[k].seq <= f.seq THEN NoEntry ELSE @[k]]]
    /\ rebased' = [rebased EXCEPT ![c] = f.era]
    /\ UNCHANGED decoding

\* applyKey: nothing for a stale frame; otherwise the old image is carried
\* forward and, on a sized grid, the new one's decoding starts.
ApplyKey(c, f) ==
    /\ IF Showing(c, f.key) /\ f.seq <= shown[c][f.key].seq
       THEN UNCHANGED <<shown, decoding>>
       ELSE /\ shown' = [shown EXCEPT ![c][f.key] =
                  [seq |-> f.seq, face |-> f.face, image |-> @.image, era |-> f.era]]
            /\ decoding' = [decoding EXCEPT ![c] =
                  IF f.face \notin Plain /\ sized[c]
                  THEN @ \cup {[key |-> f.key, seq |-> f.seq, face |-> f.face]}
                  ELSE @]
    /\ UNCHANGED <<sized, rebased>>

Deliver(c) ==
    LET f == Head(wire[c]) IN
    /\ wire[c] # <<>>
    /\ wire' = [wire EXCEPT ![c] = Tail(@)]
    /\ IF IsLayout(f) THEN ApplyLayout(c, f) ELSE ApplyKey(c, f)
    /\ UNCHANGED <<stage, members, lane>> /\ UNCHANGED managerVars /\ UNCHANGED replayVars

\* Fault: the last decode to finish wins.
Decoded_LastWins(c, d) ==
    /\ d \in decoding[c]
    /\ decoding' = [decoding EXCEPT ![c] = @ \ {d}]
    /\ shown' = IF Showing(c, d.key)
                THEN [shown EXCEPT ![c][d.key].image = d.face]
                ELSE shown
    /\ UNCHANGED <<sized, rebased, stage, members, lane, wire>>
    /\ UNCHANGED managerVars /\ UNCHANGED replayVars

\* _decodeBitmap completes: the image is kept only if the key still shows the
\* update it was decoded for.
Decoded(c, d) ==
    /\ d \in decoding[c]
    /\ decoding' = [decoding EXCEPT ![c] = @ \ {d}]
    /\ shown' = IF Showing(c, d.key) /\ shown[c][d.key].seq = d.seq
                THEN [shown EXCEPT ![c][d.key].image = d.face]
                ELSE shown
    /\ UNCHANGED <<sized, rebased, stage, members, lane, wire>>
    /\ UNCHANGED managerVars /\ UNCHANGED replayVars

-----------------------------------------------------------------------------
Next ==
    \/ \E k \in Keys, face \in Faces : CacheKey(k, face)
    \/ Rebaseline
    \/ BroadcastPending
    \/ \E c \in Clients :
         \/ Connect(c) \/ Leave(c) \/ Rejoin(c)
         \/ ReplayLayout(c) \/ (\E k \in Keys : ReplayKey(c, k)) \/ ReplayEnd(c)
         \/ Write(c) \/ Deliver(c) \/ Disconnect(c)
         \/ \E d \in decoding[c] : Decoded(c, d)

Spec == Init /\ [][Next]_vars

\* Goroutines and the event loop run, and a replay waiting for mu gets it once it
\* stays free.  Companion is never obliged to render or to clear.
Replay(c) == ReplayLayout(c) \/ (\E k \in Keys : ReplayKey(c, k)) \/ ReplayEnd(c)
Fairness ==
    /\ WF_vars(BroadcastPending)
    /\ \A c \in Clients :
         /\ WF_vars(Rejoin(c)) /\ WF_vars(Replay(c))
         /\ WF_vars(Write(c)) /\ WF_vars(Deliver(c))
         /\ WF_vars(\E d \in decoding[c] : Decoded(c, d))
FairSpec == Spec /\ Fairness

-----------------------------------------------------------------------------
(* Properties *)

\* Every variable has its type, and a lane never outgrows one surface: one
\* frame per key and one layout, however fast Companion renders and however
\* slowly the client drains (the ceiling sendQueue's comment claims).
TypeOK ==
    /\ seq \in 0..MaxSeq /\ era \in 0..MaxRebaselines
    /\ cache \in [Keys -> Frames]
    /\ pending \in SUBSET Frames
    /\ owner \in Clients \cup {Nobody} /\ todo \in SUBSET Keys
    /\ stage \in [Clients -> {"down", "joined", "replaying", "serving", "away"}]
    /\ members \in SUBSET Clients
    /\ \A c \in Clients : wire[c] \in Seq(Frames) /\ lane[c] \in Seq(Frames)
    /\ sized \in [Clients -> BOOLEAN]
    /\ shown \in [Clients -> [Keys -> Entries]]
    /\ \A c \in Clients : decoding[c] \subseteq Decodes
    /\ rebased \in [Clients -> Nat]
    /\ \A c \in Clients : Len(lane[c]) <= Cardinality(Keys) + 1

\* Nothing is left to reach c: no frame, no broadcast, no replay, no decoding.
AtRest(c) == /\ stage[c] = "serving" /\ pending = Idle
             /\ lane[c] = <<>> /\ wire[c] = <<>> /\ decoding[c] = {}
SameFaces(c) == \A k \in Keys : shown[c][k].face = cache[k].face
SameImages(c) == \A k \in Cached : cache[k].face \notin Plain => shown[c][k].image = cache[k].face

\* A client at rest shows the cached surface: the latest face of every key, its
\* own bitmap and not an earlier one, and no key Companion has blanked; the
\* coalescing, the replay racing live updates, and decodes finishing out of
\* order lose nothing (sendInitial, pushSurfaceKey, applyKey).
SettledSurface == \A c \in Clients : AtRest(c) => SameFaces(c) /\ SameImages(c)

\* A re-baseline is final: once a client has handled one, no render from before
\* it is painted again (the repaint that sendInitial's comment warns of).
NoResurrection ==
    \A c \in Clients, k \in Keys : Showing(c, k) => shown[c][k].era >= rebased[c]

\* A client that stays connected and leaves its subscription alone ends up
\* showing the surface, decoded.
SurfaceSettles ==
    \A c \in Clients :
        <>[](stage[c] \notin {"down", "away"}) => <>[](SameFaces(c) /\ SameImages(c))
=============================================================================
