---------------------------- MODULE SurfaceLane ----------------------------
(***************************************************************************)
(* The surface lane of a connection's send queue (api/sendqueue.go): a     *)
(* FIFO that coalesces instead of overflowing.  A frame is a key's render  *)
(* or a re-baseline (layout), stamped with the surface sequence it was     *)
(* taken at; keyOf a layout is NoKey.  era counts the re-baselines before  *)
(* the frame: history, for the properties.                                 *)
(***************************************************************************)
EXTENDS Integers, Sequences, FiniteSets

CONSTANT NoKey

KeyFrame(k, s, face, era) == [key |-> k, seq |-> s, face |-> face, era |-> era]
LayoutFrame(s, face, era) == KeyFrame(NoKey, s, face, era)
IsLayout(f) == f.key = NoKey

\* Where frames for k wait: at most one place.
Queued(lane, k) == {i \in DOMAIN lane : lane[i].key = k}

\* pushSurfaceKey: the highest sequence wins, and a newer render takes the
\* place the older one holds.
PushKey(lane, f) ==
    IF Queued(lane, f.key) = {} THEN Append(lane, f)
    ELSE LET i == CHOOSE j \in Queued(lane, f.key) : TRUE
         IN  IF lane[i].seq >= f.seq THEN lane ELSE [lane EXCEPT ![i] = f]

\* What stays of a lane when only the places in I are kept, in order.
Keep(lane, I) ==
    [n \in 1..Cardinality(I) |-> lane[CHOOSE i \in I : Cardinality({j \in I : j <= i}) = n]]

\* pushSurfaceLayout: only the newest layout stays (the incoming one on a tie),
\* and with it only the keys it does not cover.
PushLayout(lane, f) ==
    IF \E i \in DOMAIN lane : IsLayout(lane[i]) /\ lane[i].seq > f.seq
    THEN lane
    ELSE LET uncovered == {i \in DOMAIN lane : ~IsLayout(lane[i]) /\ lane[i].seq > f.seq}
         IN  Append(Keep(lane, uncovered), f)

Push(lane, f) == IF IsLayout(f) THEN PushLayout(lane, f) ELSE PushKey(lane, f)
=============================================================================
