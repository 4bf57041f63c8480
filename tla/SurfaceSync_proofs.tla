------------------------ MODULE SurfaceSync_proofs -------------------------
(***************************************************************************)
(* A client at rest shows the cached surface, no re-baseline is undone and *)
(* renders arrive in order: for any number of clients, keys and faces, any *)
(* renders and any bounds.                                                 *)
(***************************************************************************)
EXTENDS SurfaceSync, FiniteSetTheorems, TLAPS

\* What is under way to c's client: its socket, then its lane.
Pipe(c) == wire[c] \o lane[c]

\* A render of k that Companion did send, and, unless k was blanked since, no
\* newer than the cached one.
Genuine(k, s, face) ==
    /\ s \in 1..seq /\ face \in Faces
    /\ k \in Cached => s <= cache[k].seq /\ (s = cache[k].seq => face = cache[k].face)

Types ==
    /\ seq \in 0..MaxSeq /\ era \in 0..MaxRebaselines
    /\ cache \in [Keys -> Frames]
    /\ owner \in Clients \cup {Nobody} /\ todo \in SUBSET Keys
    /\ stage \in [Clients -> {"down", "joined", "replaying", "serving", "away"}]
    /\ members \in SUBSET Clients
    /\ lane \in [Clients -> Seq(Frames)] /\ wire \in [Clients -> Seq(Frames)]
    /\ sized \in [Clients -> BOOLEAN]
    /\ shown \in [Clients -> [Keys -> Entries]]
    /\ decoding \in [Clients -> SUBSET Decodes]
    /\ rebased \in [Clients -> Nat]

\* The cache is of the present era, and the reader's frame is the surface's
\* newest: a layout's sequence is the present one and covers every render.
CacheInv ==
    /\ \A k \in Cached : /\ cache[k].key = k /\ cache[k].seq \in 1..seq
                         /\ cache[k].face \in Faces /\ cache[k].era = era
    /\ pending # Idle =>
         \E f \in pending :
            /\ pending = {f} /\ f \in Frames /\ f.era = era
            /\ IF IsLayout(f) THEN f.seq = seq /\ Cached = {} ELSE f = cache[f.key]

\* The replay that holds mu, and who is in the hub.
ReplayInv ==
    /\ todo \subseteq Cached /\ (owner = Nobody => todo = {})
    /\ \A c \in Clients : /\ owner = c <=> stage[c] = "replaying"
                          /\ stage[c] \in {"joined", "replaying", "serving"} => c \in members

\* Frames under way: of the past, and not of before the client's last layout.
FrameInv(c) ==
    \A i \in 1..Len(Pipe(c)) :
        LET g == Pipe(c)[i] IN
        /\ g.seq <= seq /\ rebased[c] <= g.era /\ g.era <= era
        /\ ~IsLayout(g) => Genuine(g.key, g.seq, g.face)

\* A layout covers whatever is ahead of it, and the client's whole mirror; it is
\* no younger than what is behind it; and in the lane it is in front.
LayoutInv(c) ==
    \A i \in 1..Len(Pipe(c)) : IsLayout(Pipe(c)[i]) =>
        /\ i <= Len(wire[c]) + 1
        /\ \A j \in 1..Len(Pipe(c)) : /\ j < i => Pipe(c)[j].seq <= Pipe(c)[i].seq
                                      /\ j > i => Pipe(c)[j].era >= Pipe(c)[i].era
        /\ \A k \in Keys : shown[c][k].seq <= Pipe(c)[i].seq

\* A lane holds one frame for a key, and one layout.
SingleInv(c) ==
    \A i, j \in 1..Len(lane[c]) : lane[c][i].key = lane[c][j].key => i = j

\* What the client shows and decodes.
MirrorInv(c) ==
    /\ rebased[c] <= era
    /\ \A k \in Keys : Showing(c, k) =>
          /\ Genuine(k, shown[c][k].seq, shown[c][k].face)
          /\ rebased[c] <= shown[c][k].era
    /\ \A d \in decoding[c] : Genuine(d.key, d.seq, d.face)

\* On a sized grid the cached render's bitmap is shown or being decoded.
ImageInv(c) ==
    \A k \in Cached :
        sized[c] /\ shown[c][k].seq = cache[k].seq /\ cache[k].face \notin Plain =>
            \/ shown[c][k].image = cache[k].face
            \/ [key |-> k, seq |-> cache[k].seq, face |-> cache[k].face] \in decoding[c]

HasLayout(c) == \E i \in 1..Len(Pipe(c)) : IsLayout(Pipe(c)[i])
SizedInv(c)  == stage[c] \in {"replaying", "serving"} => sized[c] \/ HasLayout(c)

\* c is owed the surface's k: its replay is over, or past k.
Due(c, k) == stage[c] = "serving" \/ (stage[c] = "replaying" /\ k \notin todo)

\* The cached render of k is under way with no layout behind it.
UnderWay(c, k) ==
    \E i \in 1..Len(Pipe(c)) :
       /\ Pipe(c)[i].key = k /\ Pipe(c)[i].seq = cache[k].seq
       /\ \A j \in 1..Len(Pipe(c)) : j > i => ~IsLayout(Pipe(c)[j])

\* It is to be broadcast, under way, or shown with no layout to come.
Covered(c, k) ==
    \/ pending = {cache[k]}
    \/ UnderWay(c, k)
    \/ shown[c][k].seq = cache[k].seq /\ ~HasLayout(c)

\* A layout is under way with no render of k behind it.
Wiped(c, k) ==
    \E i \in 1..Len(Pipe(c)) :
       /\ IsLayout(Pipe(c)[i])
       /\ \A j \in 1..Len(Pipe(c)) : j > i => Pipe(c)[j].key # k

\* A layout is to be broadcast or under way; or k is blank, with no render to come.
Blanked(c, k) ==
    \/ \E f \in pending : IsLayout(f)
    \/ Wiped(c, k)
    \/ ~Showing(c, k) /\ \A j \in 1..Len(Pipe(c)) : Pipe(c)[j].key # k

OwedInv(c) ==
    \A k \in Keys : Due(c, k) => IF k \in Cached THEN Covered(c, k) ELSE Blanked(c, k)

ClientInv(c) == /\ FrameInv(c) /\ LayoutInv(c) /\ SingleInv(c) /\ MirrorInv(c)
                /\ ImageInv(c) /\ SizedInv(c) /\ OwedInv(c)
SurfaceInv == Types /\ CacheInv /\ ReplayInv /\ \A c \in Clients : ClientInv(c)

-----------------------------------------------------------------------------
(* Pipes and lanes *)

LEMMA EmptyType == Empty \in Frames /\ NoEntry \in Entries
BY DEF Empty, KeyFrame, Frames, NoEntry, Entries

LEMMA ElementIn ==
    ASSUME NEW S, NEW s \in Seq(S)
    PROVE  Len(s) \in Nat /\ DOMAIN s = 1..Len(s) /\ \A i \in 1..Len(s) : s[i] \in S
OBVIOUS

LEMMA FrameType ==
    ASSUME NEW f \in Frames
    PROVE  f.key \in Keys \cup {NoKey} /\ f.seq \in Nat /\ f.era \in Nat
BY DEF Frames

LEMMA JoinAt ==
    ASSUME NEW w \in Seq(Frames), NEW q \in Seq(Frames)
    PROVE  /\ w \o q \in Seq(Frames) /\ Len(w \o q) = Len(w) + Len(q)
           /\ Len(w) \in Nat /\ Len(q) \in Nat
           /\ \A i \in 1..Len(w) : (w \o q)[i] = w[i]
           /\ \A i \in 1..Len(q) : (w \o q)[Len(w) + i] = q[i]
OBVIOUS

LEMMA PipeType ==
    ASSUME Types, NEW c \in Clients
    PROVE  /\ wire[c] \in Seq(Frames) /\ lane[c] \in Seq(Frames)
           /\ Pipe(c) \in Seq(Frames) /\ Len(Pipe(c)) \in Nat
           /\ Len(wire[c]) \in Nat /\ Len(lane[c]) \in Nat
           /\ Len(Pipe(c)) = Len(wire[c]) + Len(lane[c])
           /\ \A i \in 1..Len(Pipe(c)) :
                 /\ Pipe(c)[i] \in Frames /\ Pipe(c)[i].seq \in Nat /\ Pipe(c)[i].era \in Nat
                 /\ Pipe(c)[i].key \in Keys \cup {NoKey}
<1>1. wire[c] \in Seq(Frames) /\ lane[c] \in Seq(Frames)
  BY DEF Types
<1>2. /\ Pipe(c) \in Seq(Frames) /\ Len(Pipe(c)) = Len(wire[c]) + Len(lane[c])
      /\ Len(wire[c]) \in Nat /\ Len(lane[c]) \in Nat
  BY <1>1, JoinAt DEF Pipe
<1>3. \A i \in 1..Len(Pipe(c)) : Pipe(c)[i] \in Frames
  BY <1>2, ElementIn
<1>4. \A i \in 1..Len(Pipe(c)) :
         /\ Pipe(c)[i].seq \in Nat /\ Pipe(c)[i].era \in Nat
         /\ Pipe(c)[i].key \in Keys \cup {NoKey}
  BY <1>3, FrameType
<1>5. Len(Pipe(c)) \in Nat
  BY <1>2, ElementIn
<1> QED BY <1>1, <1>2, <1>3, <1>4, <1>5

\* r is q with f at place n: behind the others, or instead of an older frame of
\* its key; or there is no older one there.
Arrives(q, r, n, f) ==
    /\ Len(q) <= Len(r) /\ n \in 1..Len(r)
    /\ r[n].key = f.key /\ r[n].seq >= f.seq
    /\ r[n] = f \/ (n <= Len(q) /\ r[n] = q[n])
    /\ n <= Len(q) => q[n].key = f.key
    /\ \A i \in 1..Len(r) : i # n => i <= Len(q) /\ r[i] = q[i]

\* pushSurfaceKey: a key's frame takes one place, and moves no other.
LEMMA KeyInLane ==
    ASSUME NEW q \in Seq(Frames), NEW f \in Frames, ~IsLayout(f)
    PROVE  /\ Push(q, f) \in Seq(Frames)
           /\ \E n \in 1..Len(Push(q, f)) :
                /\ Arrives(q, Push(q, f), n, f)
                /\ n > Len(q) => \A i \in 1..Len(q) : q[i].key # f.key
<1> DEFINE r == Push(q, f)
<1>0. /\ f.seq \in Nat /\ Len(q) \in Nat /\ DOMAIN q = 1..Len(q)
      /\ \A i \in 1..Len(q) : q[i] \in Frames
  BY ElementIn, FrameType
<1>1. CASE Queued(q, f.key) = {}
  <2>1. r = Append(q, f)
    BY <1>1 DEF Push, PushKey
  <2>2. \A i \in 1..Len(q) : q[i].key # f.key
    BY <1>0, <1>1 DEF Queued
  <2>3. /\ r \in Seq(Frames) /\ Len(r) = Len(q) + 1 /\ r[Len(q) + 1] = f
        /\ \A i \in 1..Len(q) : r[i] = q[i]
    BY <2>1
  <2>4. Arrives(q, r, Len(q) + 1, f)
    BY <1>0, <2>3 DEF Arrives
  <2> QED BY <1>0, <2>2, <2>3, <2>4
<1>2. CASE Queued(q, f.key) # {}
  <2> DEFINE n == CHOOSE j \in Queued(q, f.key) : TRUE
  <2>1. n \in 1..Len(q) /\ q[n].key = f.key
    BY <1>0, <1>2 DEF Queued
  <2>2. r = IF q[n].seq >= f.seq THEN q ELSE [q EXCEPT ![n] = f]
    BY <1>2 DEF Push, PushKey
  <2>3. q[n] \in Frames /\ q[n].seq \in Nat
    BY <1>0, <2>1, FrameType
  <2> HIDE DEF n, r
  <2>4. CASE q[n].seq >= f.seq
    <3>1. r = q
      BY <2>2, <2>4
    <3>2. Arrives(q, r, n, f)
      BY <1>0, <2>1, <2>4, <3>1 DEF Arrives
    <3> QED BY <1>0, <2>1, <3>1, <3>2 DEF r
  <2>5. CASE ~(q[n].seq >= f.seq)
    <3>1. r = [q EXCEPT ![n] = f]
      BY <2>2, <2>5
    <3>2. r \in Seq(Frames) /\ Len(r) = Len(q)
      BY <2>1, <3>1
    <3>3. r[n] = f /\ \A i \in 1..Len(q) : i # n => r[i] = q[i]
      BY <1>0, <2>1, <3>1
    <3>4. Arrives(q, r, n, f)
      BY <1>0, <2>1, <3>2, <3>3 DEF Arrives
    <3> QED BY <1>0, <2>1, <3>2, <3>4 DEF r
  <2> QED BY <2>4, <2>5
<1> QED BY <1>1, <1>2

\* The same seen in the pipe the lane ends.
LEMMA KeyInPipe ==
    ASSUME NEW w \in Seq(Frames), NEW q \in Seq(Frames), NEW r \in Seq(Frames),
           NEW f, NEW n \in 1..Len(r), Arrives(q, r, n, f)
    PROVE  Arrives(w \o q, w \o r, Len(w) + n, f)
<1> DEFINE P == w \o q
<1> DEFINE R == w \o r
<1>1. /\ Len(P) = Len(w) + Len(q) /\ Len(w) \in Nat /\ Len(q) \in Nat
      /\ \A i \in 1..Len(w) : P[i] = w[i]
      /\ \A i \in 1..Len(q) : P[Len(w) + i] = q[i]
  BY JoinAt
<1>2. /\ Len(R) = Len(w) + Len(r) /\ Len(r) \in Nat
      /\ \A i \in 1..Len(w) : R[i] = w[i]
      /\ \A i \in 1..Len(r) : R[Len(w) + i] = r[i]
  BY JoinAt
<1> HIDE DEF P, R
<1>3. /\ Len(q) <= Len(r) /\ r[n].key = f.key /\ r[n].seq >= f.seq
      /\ r[n] = f \/ (n <= Len(q) /\ r[n] = q[n])
      /\ n <= Len(q) => q[n].key = f.key
  BY DEF Arrives
<1>4. \A i \in 1..Len(r) : i # n => i <= Len(q) /\ r[i] = q[i]
  BY DEF Arrives
<1>5. R[Len(w) + n] = r[n] /\ (n <= Len(q) => P[Len(w) + n] = q[n])
  BY <1>1, <1>2
<1>6. ASSUME NEW i \in 1..Len(R), i # Len(w) + n
      PROVE  i <= Len(P) /\ R[i] = P[i]
  <2>1. CASE i <= Len(w)
    <3>1. i \in 1..Len(w) /\ Len(w) <= Len(P)
      BY <1>1, <1>2, <2>1
    <3>2. R[i] = w[i] /\ P[i] = w[i]
      BY <1>1, <1>2, <3>1
    <3> QED BY <1>1, <3>1, <3>2
  <2>2. CASE i > Len(w)
    <3>1. PICK m \in 1..Len(r) : i = Len(w) + m
      <4>1. i - Len(w) \in 1..Len(r) /\ i = Len(w) + (i - Len(w))
        BY <1>1, <1>2, <2>2
      <4> QED BY <4>1
    <3>2. m <= Len(q) /\ r[m] = q[m]
      BY <1>1, <1>4, <1>6, <3>1
    <3>3. m \in 1..Len(q)
      BY <3>2
    <3>4. P[Len(w) + m] = q[m] /\ R[Len(w) + m] = r[m]
      BY <1>1, <1>2, <3>3
    <3>5. Len(w) + m <= Len(P)
      BY <1>1, <3>3
    <3> QED BY <3>1, <3>2, <3>4, <3>5
  <2> QED BY <1>1, <1>2, <2>1, <2>2
<1>7. Len(P) <= Len(R) /\ Len(w) + n \in 1..Len(R) /\ (n <= Len(q) <=> Len(w) + n <= Len(P))
  BY <1>1, <1>2, <1>3
<1>8. Arrives(P, R, Len(w) + n, f)
  BY <1>3, <1>5, <1>6, <1>7 DEF Arrives
<1> QED BY <1>8 DEF P, R

\* pushSurfaceLayout: a layout that covers the lane is all that stays of it.
LEMMA LayoutInLane ==
    ASSUME NEW q \in Seq(Frames), NEW f \in Frames, IsLayout(f),
           \A i \in 1..Len(q) : q[i].seq <= f.seq
    PROVE  Push(q, f) = <<f>>
<1>1. DOMAIN q = 1..Len(q) /\ f.seq \in Nat /\ \A i \in 1..Len(q) : q[i].seq \in Nat
  BY ElementIn, FrameType
<1> DEFINE I == {i \in DOMAIN q : ~IsLayout(q[i]) /\ q[i].seq > f.seq}
<1>2. ~ \E i \in DOMAIN q : IsLayout(q[i]) /\ q[i].seq > f.seq
  BY <1>1
<1>3. I = {}
  BY <1>1
<1>4. Push(q, f) = Append(Keep(q, I), f)
  BY <1>2 DEF Push, PushLayout
<1>5. Cardinality({}) = 0
  BY FS_EmptySet
<1> HIDE DEF I
<1>6. Keep(q, I) = <<>>
  BY <1>3, <1>5 DEF Keep
<1> QED BY <1>4, <1>6

-----------------------------------------------------------------------------
(* A frame pushed into c's lane *)

\* The client's part of every step but its own.
Core(c) == FrameInv(c) /\ LayoutInv(c) /\ SingleInv(c) /\ MirrorInv(c) /\ ImageInv(c)

Steady   == seq' = seq /\ cache' = cache /\ era' = era
Unread(c) == /\ sized'[c] = sized[c] /\ shown'[c] = shown[c]
             /\ decoding'[c] = decoding[c] /\ rebased'[c] = rebased[c]
Still(c)  == Unread(c) /\ wire'[c] = wire[c] /\ lane'[c] = lane[c]

Pushed(c, f) == /\ Steady /\ Unread(c) /\ wire'[c] = wire[c]
                /\ lane'[c] = Push(lane[c], f)

LEMMA Numbers ==
    ASSUME Types
    PROVE  /\ seq \in Nat /\ era \in Nat
           /\ \A c \in Clients : rebased[c] \in Nat
           /\ \A c \in Clients, k \in Keys : shown[c][k].seq \in Nat /\ shown[c][k].era \in Nat
           /\ \A k \in Keys : cache[k] \in Frames /\ cache[k].seq \in Nat /\ cache[k].era \in Nat
<1>1. seq \in Nat /\ era \in Nat
  BY SurfaceAssumption DEF Types
<1>2. \A c \in Clients : rebased[c] \in Nat
  BY DEF Types
<1>3. \A k \in Keys : cache[k] \in Frames
  BY DEF Types
<1>4. \A k \in Keys : cache[k].seq \in Nat /\ cache[k].era \in Nat
  BY <1>3, FrameType
<1>5. \A c \in Clients, k \in Keys : shown[c][k] \in Entries
  BY DEF Types
<1>6. \A c \in Clients, k \in Keys : shown[c][k].seq \in Nat /\ shown[c][k].era \in Nat
  BY <1>5 DEF Entries
<1> QED BY <1>1, <1>2, <1>3, <1>4, <1>6

\* A cached render is genuine and of the present era.
LEMMA CachedFrame ==
    ASSUME Types, CacheInv, NEW k \in Cached
    PROVE  /\ k \in Keys /\ cache[k] \in Frames /\ ~IsLayout(cache[k]) /\ cache[k].key = k
           /\ cache[k].seq \in 1..seq /\ cache[k].face \in Faces /\ cache[k].era = era
<1>1. k \in Keys /\ cache[k].key = k
  BY DEF Cached, CacheInv
<1>2. cache[k].seq \in 1..seq /\ cache[k].face \in Faces /\ cache[k].era = era
  BY DEF CacheInv
<1> QED BY <1>1, <1>2, Numbers, SurfaceAssumption DEF IsLayout

LEMMA StillCore ==
    ASSUME NEW c \in Clients, Steady, Still(c), Core(c)
    PROVE  Core(c)' /\ Pipe(c)' = Pipe(c)
<1>1. Pipe(c)' = Pipe(c)
  BY DEF Pipe, Still
<1>2. FrameInv(c)'
  BY <1>1 DEF Core, FrameInv, Genuine, Cached, Steady, Still, Unread
<1>3. LayoutInv(c)'
  BY <1>1 DEF Core, LayoutInv, Still, Unread
<1>4. SingleInv(c)'
  BY DEF Core, SingleInv, Still
<1>5. MirrorInv(c)'
  BY DEF Core, MirrorInv, Genuine, Cached, Showing, Steady, Still, Unread
<1>6. ImageInv(c)'
  BY DEF Core, ImageInv, Cached, Steady, Still, Unread
<1> QED BY <1>1, <1>2, <1>3, <1>4, <1>5, <1>6 DEF Core

\* A cached render takes one place of the lane.
LEMMA KeyLands ==
    ASSUME Types, CacheInv, NEW c \in Clients, SingleInv(c), NEW k \in Cached, Pushed(c, cache[k])
    PROVE  /\ lane'[c] \in Seq(Frames) /\ SingleInv(c)'
           /\ \E n \in Nat : n > Len(wire[c]) /\ Arrives(Pipe(c), Pipe(c)', n, cache[k])
<1>1. cache[k] \in Frames /\ ~IsLayout(cache[k])
  BY CachedFrame
<1>2. wire[c] \in Seq(Frames) /\ lane[c] \in Seq(Frames)
  BY DEF Types
<1> DEFINE q == lane[c]
<1> DEFINE r == lane'[c]
<1>3. r = Push(q, cache[k])
  BY DEF Pushed
<1>0. /\ Push(q, cache[k]) \in Seq(Frames)
      /\ \E m \in 1..Len(Push(q, cache[k])) :
           /\ Arrives(q, Push(q, cache[k]), m, cache[k])
           /\ m > Len(q) => \A i \in 1..Len(q) : q[i].key # cache[k].key
  BY <1>1, <1>2, KeyInLane
<1>4. r \in Seq(Frames) /\ Len(r) \in Nat
  BY <1>0, <1>3, ElementIn
<1>5. PICK m \in 1..Len(r) :
        /\ Arrives(q, r, m, cache[k])
        /\ m > Len(q) => \A i \in 1..Len(q) : q[i].key # cache[k].key
  BY <1>0, <1>3
<1>6. Arrives(wire[c] \o q, wire[c] \o r, Len(wire[c]) + m, cache[k])
  BY <1>2, <1>4, <1>5, KeyInPipe
<1>7. Pipe(c) = wire[c] \o q /\ Pipe(c)' = wire[c] \o r
  BY DEF Pipe, Pushed
<1>8. Len(wire[c]) + m \in Nat /\ Len(wire[c]) + m > Len(wire[c])
  BY <1>2, <1>4, ElementIn
<1>9. \A i, j \in 1..Len(q) : q[i].key = q[j].key => i = j
  BY DEF SingleInv
<1> HIDE DEF q, r
<1>10. Len(q) \in Nat
  BY <1>2, ElementIn DEF q
<1>11. /\ \A i \in 1..Len(r) : i # m => i <= Len(q) /\ r[i] = q[i]
       /\ r[m].key = cache[k].key
       /\ m <= Len(q) => q[m].key = cache[k].key
  BY <1>5 DEF Arrives
<1>12. \A i \in 1..Len(r) : i # m => r[i].key # r[m].key
  <2> SUFFICES ASSUME NEW i \in 1..Len(r), i # m PROVE r[i].key # r[m].key
    OBVIOUS
  <2>1. i \in 1..Len(q) /\ r[i] = q[i]
    BY <1>4, <1>10, <1>11
  <2>2. CASE m > Len(q)
    BY <1>5, <1>11, <2>1, <2>2
  <2>3. CASE m <= Len(q)
    <3>1. m \in 1..Len(q) /\ q[m].key = r[m].key
      BY <1>10, <1>11, <2>3
    <3> QED BY <1>9, <2>1, <3>1
  <2> QED BY <1>4, <1>10, <2>2, <2>3
<1>13. \A i \in 1..Len(r) : i # m => i \in 1..Len(q) /\ r[i] = q[i]
  BY <1>4, <1>10, <1>11
<1>14. \A i, j \in 1..Len(r) : r[i].key = r[j].key => i = j
  BY <1>9, <1>12, <1>13
<1>15. SingleInv(c)'
  BY <1>14 DEF SingleInv, r
<1> QED BY <1>4, <1>6, <1>7, <1>8, <1>15 DEF r

LEMMA KeyCore ==
    ASSUME Types, CacheInv, NEW c \in Clients, Core(c), NEW k \in Cached, Pushed(c, cache[k])
    PROVE  Core(c)'
<1> DEFINE P == Pipe(c)
<1> DEFINE R == Pipe(c)'
<1> DEFINE f == cache[k]
<1>1. PICK n \in Nat : n > Len(wire[c]) /\ Arrives(P, R, n, f)
  BY KeyLands DEF Core
<1>2. /\ k \in Keys /\ f.key = k /\ ~IsLayout(f) /\ f.seq \in 1..seq /\ f.era = era
      /\ f.face \in Faces /\ f.seq \in Nat
  BY CachedFrame, Numbers
<1>3. /\ Steady /\ sized'[c] = sized[c] /\ shown'[c] = shown[c] /\ decoding'[c] = decoding[c]
      /\ rebased'[c] = rebased[c] /\ wire'[c] = wire[c]
  BY DEF Pushed, Unread
<1>4. SingleInv(c)'
  BY KeyLands DEF Core
<1>5. MirrorInv(c)' /\ ImageInv(c)'
  BY <1>3 DEF Core, MirrorInv, ImageInv, Genuine, Cached, Showing, Steady
<1>6. Len(P) \in Nat /\ Len(wire[c]) \in Nat /\ \A i \in 1..Len(P) : P[i].seq \in Nat /\ P[i].era \in Nat
  BY PipeType
<1>7. seq \in Nat /\ era \in Nat /\ rebased[c] \in Nat /\ rebased[c] <= era
  BY Numbers DEF Core, MirrorInv
<1>8. /\ \A i \in 1..Len(R) : i # n => i \in 1..Len(P) /\ R[i] = P[i]
      /\ R[n] = f \/ (n \in 1..Len(P) /\ R[n] = P[n])
      /\ n \in 1..Len(R) /\ R[n].key = k
  BY <1>1, <1>2, <1>6 DEF Arrives
<1>9. /\ Genuine(k, f.seq, f.face) /\ f.seq <= seq /\ rebased[c] <= f.era /\ f.era <= era
  BY <1>2, <1>7 DEF Genuine
<1>10. \A i \in 1..Len(P) :
         /\ P[i].seq <= seq /\ rebased[c] <= P[i].era /\ P[i].era <= era
         /\ ~IsLayout(P[i]) => Genuine(P[i].key, P[i].seq, P[i].face)
  BY DEF Core, FrameInv
<1>11. \A i \in 1..Len(P) : IsLayout(P[i]) =>
         /\ i <= Len(wire[c]) + 1
         /\ \A j \in 1..Len(P) : (j < i => P[j].seq <= P[i].seq) /\ (j > i => P[j].era >= P[i].era)
         /\ \A x \in Keys : shown[c][x].seq <= P[i].seq
  BY DEF Core, LayoutInv
<1> HIDE DEF P, R, f
<1>12. \A i \in 1..Len(R) :
         /\ R[i].seq <= seq /\ rebased[c] <= R[i].era /\ R[i].era <= era
         /\ ~IsLayout(R[i]) => Genuine(R[i].key, R[i].seq, R[i].face)
  BY <1>2, <1>8, <1>9, <1>10
<1>13. FrameInv(c)'
  BY <1>3, <1>12 DEF FrameInv, Genuine, Cached, Steady, R
<1>14. ASSUME NEW i \in 1..Len(R), IsLayout(R[i])
       PROVE  /\ i <= Len(wire[c]) + 1
              /\ \A j \in 1..Len(R) : (j < i => R[j].seq <= R[i].seq) /\ (j > i => R[j].era >= R[i].era)
              /\ \A x \in Keys : shown[c][x].seq <= R[i].seq
  <2>1. i # n
    BY <1>2, <1>8, <1>14, SurfaceAssumption DEF IsLayout
  <2>2. i \in 1..Len(P) /\ R[i] = P[i] /\ IsLayout(P[i])
    BY <1>8, <1>14, <2>1
  <2>3. i <= Len(wire[c]) + 1 /\ \A x \in Keys : shown[c][x].seq <= R[i].seq
    BY <1>11, <2>2
  <2>4. i < n
    BY <1>1, <1>6, <2>1, <2>3
  <2>5. ASSUME NEW j \in 1..Len(R)
        PROVE  (j < i => R[j].seq <= R[i].seq) /\ (j > i => R[j].era >= R[i].era)
    <3>1. CASE j # n \/ R[n] # f
      <4>1. j \in 1..Len(P) /\ R[j] = P[j]
        BY <1>8, <3>1
      <4> QED BY <1>11, <2>2, <4>1
    <3>2. CASE j = n /\ R[n] = f
      BY <1>2, <1>6, <1>10, <2>2, <2>4, <3>2
    <3> QED BY <3>1, <3>2
  <2> QED BY <2>3, <2>5
<1>15. LayoutInv(c)'
  BY <1>3, <1>14 DEF LayoutInv, R
<1> QED BY <1>4, <1>5, <1>13, <1>15 DEF Core

\* What a cached render's arrival does to what is owed.
LEMMA KeyOwed ==
    ASSUME Types, CacheInv, NEW c \in Clients, Core(c), NEW k \in Cached, Pushed(c, cache[k])
    PROVE  /\ HasLayout(c)' = HasLayout(c)
           /\ UnderWay(c, k)'
           /\ \A x \in Keys : UnderWay(c, x) => UnderWay(c, x)'
           /\ \A x \in Keys \ {k} : Wiped(c, x) => Wiped(c, x)'
           /\ \A x \in Keys \ {k} : (\A j \in 1..Len(Pipe(c)) : Pipe(c)[j].key # x)
                                      => \A j \in 1..Len(Pipe(c)') : Pipe(c)'[j].key # x
<1> DEFINE P == Pipe(c)
<1> DEFINE R == Pipe(c)'
<1> DEFINE f == cache[k]
<1>1. PICK n \in Nat : n > Len(wire[c]) /\ Arrives(P, R, n, f)
  BY KeyLands DEF Core
<1>2. k \in Keys /\ f.key = k /\ f.seq \in Nat /\ cache' = cache /\ ~IsLayout(f)
  BY CachedFrame, Numbers DEF Pushed, Steady
<1>3. Len(P) \in Nat /\ Len(wire[c]) \in Nat /\ \A i \in 1..Len(P) : P[i].seq \in Nat
  BY PipeType
<1>4. /\ \A i \in 1..Len(R) : i # n => i \in 1..Len(P) /\ R[i] = P[i]
      /\ R[n] = f \/ (n \in 1..Len(P) /\ R[n] = P[n])
      /\ n \in 1..Len(R) /\ R[n].key = k /\ R[n].seq >= f.seq
      /\ n \in 1..Len(P) => P[n].key = k
      /\ Len(P) <= Len(R)
  BY <1>1, <1>2, <1>3 DEF Arrives
<1>5. \A i \in 1..Len(P) : ~IsLayout(P[i]) => Genuine(P[i].key, P[i].seq, P[i].face)
  BY DEF Core, FrameInv
<1>6. \A i \in 1..Len(P) : IsLayout(P[i]) => i <= Len(wire[c]) + 1
  BY DEF Core, LayoutInv
<1>7. UnderWay(c, k)' <=>
        \E i \in 1..Len(R) : /\ R[i].key = k /\ R[i].seq = cache'[k].seq
                             /\ \A j \in 1..Len(R) : j > i => ~IsLayout(R[j])
  BY DEF UnderWay
<1> HIDE DEF P, R, f
<1>8. ~IsLayout(R[n])
  BY <1>2, <1>4, SurfaceAssumption DEF IsLayout
<1>9. R[n].seq = f.seq
  <2>1. CASE R[n] = f
    BY <2>1
  <2>2. CASE n \in 1..Len(P) /\ R[n] = P[n]
    <3>1. ~IsLayout(P[n]) /\ P[n].key = k
      BY <1>4, <1>8, <2>2
    <3>2. P[n].seq <= f.seq
      BY <1>5, <2>2, <3>1 DEF Genuine, f
    <3> QED BY <1>2, <1>3, <1>4, <2>2, <3>2
  <2> QED BY <1>4, <2>1, <2>2
<1>10. \A j \in 1..Len(R) : j > n => ~IsLayout(R[j])
  <2> SUFFICES ASSUME NEW j \in 1..Len(R), j > n, IsLayout(R[j]) PROVE FALSE
    OBVIOUS
  <2>1. j \in 1..Len(P) /\ IsLayout(P[j])
    BY <1>4
  <2> QED BY <1>1, <1>3, <1>6, <2>1
<1>11. UnderWay(c, k)'
  BY <1>2, <1>4, <1>7, <1>9, <1>10 DEF f
<1>12. \A i \in 1..Len(P) : i # n => i \in 1..Len(R) /\ R[i] = P[i]
  BY <1>3, <1>4
<1>13. \A i \in 1..Len(P) : R[i].key = P[i].key /\ i \in 1..Len(R)
  BY <1>4, <1>12
<1>14. \A i \in 1..Len(R) : i \in 1..Len(P) \/ i = n
  BY <1>4
<1>15. HasLayout(c)' = HasLayout(c)
  <2>1. (\E i \in 1..Len(P) : P[i].key = NoKey) <=> (\E i \in 1..Len(R) : R[i].key = NoKey)
    BY <1>2, <1>4, <1>13, <1>14, SurfaceAssumption
  <2> QED BY <2>1 DEF HasLayout, IsLayout, P, R
<1>16. ASSUME NEW x \in Keys, UnderWay(c, x) PROVE UnderWay(c, x)'
  <2>1. CASE x = k
    BY <1>11, <2>1
  <2>2. CASE x # k
    <3>1. PICK i \in 1..Len(P) : /\ P[i].key = x /\ P[i].seq = cache[x].seq
                                 /\ \A j \in 1..Len(P) : j > i => ~IsLayout(P[j])
      BY <1>16 DEF UnderWay, P
    <3>2. i # n
      BY <1>4, <2>2, <3>1
    <3>3. i \in 1..Len(R) /\ R[i] = P[i]
      BY <1>12, <3>2
    <3>4. \A j \in 1..Len(R) : j > i => ~IsLayout(R[j])
      BY <1>4, <1>8, <3>1
    <3> QED BY <1>2, <3>1, <3>3, <3>4 DEF UnderWay, R
  <2> QED BY <2>1, <2>2
<1>17. ASSUME NEW x \in Keys \ {k}, Wiped(c, x) PROVE Wiped(c, x)'
  <2>1. PICK i \in 1..Len(P) : IsLayout(P[i]) /\ \A j \in 1..Len(P) : j > i => P[j].key # x
    BY <1>17 DEF Wiped, P
  <2>2. i \in 1..Len(R) /\ IsLayout(R[i])
    BY <1>13, <2>1 DEF IsLayout
  <2>3. \A j \in 1..Len(R) : j > i => R[j].key # x
    BY <1>4, <2>1
  <2> QED BY <2>2, <2>3 DEF Wiped, R
<1>18. ASSUME NEW x \in Keys \ {k}, \A j \in 1..Len(P) : P[j].key # x
       PROVE  \A j \in 1..Len(R) : R[j].key # x
  BY <1>4, <1>18
<1> QED BY <1>11, <1>15, <1>16, <1>17, <1>18 DEF P, R

\* A layout of the present sequence is all that is left of the lane.
\* A layout leaves of the pipe what is on the socket, and stands behind that.
LEMMA LayoutInPipe ==
    ASSUME Types, NEW c \in Clients, Core(c),
           NEW f \in Frames, IsLayout(f), f.seq = seq, Pushed(c, f)
    PROVE  /\ lane'[c] = <<f>>
           /\ Len(Pipe(c)') = Len(wire[c]) + 1 /\ Pipe(c)'[Len(wire[c]) + 1] = f
           /\ \A i \in 1..Len(wire[c]) : i \in 1..Len(Pipe(c)) /\ Pipe(c)'[i] = Pipe(c)[i]
<1> DEFINE P == Pipe(c)
<1> DEFINE R == Pipe(c)'
<1> DEFINE L == Len(wire[c])
<1>1. /\ wire[c] \in Seq(Frames) /\ lane[c] \in Seq(Frames) /\ L \in Nat
      /\ Len(P) = L + Len(lane[c]) /\ Len(P) \in Nat /\ Len(lane[c]) \in Nat
  BY PipeType
<1>2. /\ \A i \in 1..L : P[i] = wire[c][i]
      /\ \A i \in 1..Len(lane[c]) : P[L + i] = lane[c][i]
  BY <1>1, JoinAt DEF Pipe
<1>3. \A i \in 1..Len(P) : P[i].seq <= seq
  BY DEF Core, FrameInv
<1>4. \A i \in 1..Len(lane[c]) : lane[c][i].seq <= f.seq
  <2> SUFFICES ASSUME NEW i \in 1..Len(lane[c]) PROVE lane[c][i].seq <= f.seq
    OBVIOUS
  <2>1. L + i \in 1..Len(P)
    <3> HIDE DEF L, P
    <3> QED BY <1>1
  <2> QED BY <1>2, <1>3, <2>1
<1>5. wire'[c] = wire[c] /\ lane'[c] = Push(lane[c], f)
  BY DEF Pushed
<1>6. lane'[c] = <<f>>
  BY <1>1, <1>4, <1>5, LayoutInLane
<1>7. <<f>> \in Seq(Frames) /\ Len(<<f>>) = 1 /\ <<f>>[1] = f /\ 1 \in 1..Len(<<f>>)
  OBVIOUS
<1>8. R = wire[c] \o <<f>>
  BY <1>5, <1>6 DEF Pipe
<1>9. /\ Len(R) = L + Len(<<f>>) /\ \A i \in 1..L : R[i] = wire[c][i]
      /\ \A i \in 1..Len(<<f>>) : R[L + i] = <<f>>[i]
  BY <1>1, <1>7, <1>8, JoinAt
<1>10. R[L + 1] = <<f>>[1]
  BY <1>7, <1>9
<1> HIDE DEF P, R, L
<1>11. \A i \in 1..L : i \in 1..Len(P)
  BY <1>1
<1>12. Len(R) = L + 1 /\ R[L + 1] = f /\ \A i \in 1..L : R[i] = P[i]
  BY <1>2, <1>7, <1>9, <1>10 DEF L
<1> QED BY <1>6, <1>11, <1>12 DEF P, R, L

LEMMA LayoutLands ==
    ASSUME Types, NEW c \in Clients, Core(c),
           NEW f \in Frames, IsLayout(f), f.seq = seq, f.era = era, Pushed(c, f)
    PROVE  /\ lane'[c] \in Seq(Frames) /\ Core(c)'
           /\ HasLayout(c)' /\ \A x \in Keys : Wiped(c, x)'
<1> DEFINE P == Pipe(c)
<1> DEFINE R == Pipe(c)'
<1> DEFINE L == Len(wire[c])
<1>1. /\ wire[c] \in Seq(Frames) /\ lane[c] \in Seq(Frames) /\ L \in Nat
      /\ Len(P) = L + Len(lane[c]) /\ Len(P) \in Nat /\ Len(lane[c]) \in Nat
  BY PipeType
<1>0. \A i \in 1..Len(P) : P[i].seq \in Nat /\ P[i].era \in Nat
  BY PipeType
<1>3. \A i \in 1..Len(P) :
         /\ P[i].seq <= seq /\ rebased[c] <= P[i].era /\ P[i].era <= era
         /\ ~IsLayout(P[i]) => Genuine(P[i].key, P[i].seq, P[i].face)
  BY DEF Core, FrameInv
<1>5. /\ Steady /\ sized'[c] = sized[c] /\ shown'[c] = shown[c] /\ decoding'[c] = decoding[c]
      /\ rebased'[c] = rebased[c] /\ wire'[c] = wire[c]
  BY DEF Pushed, Unread
<1>6. lane'[c] = <<f>>
  BY LayoutInPipe
<1>7. <<f>> \in Seq(Frames) /\ Len(<<f>>) = 1 /\ <<f>>[1] = f
  OBVIOUS
<1>9. /\ Len(R) = L + 1 /\ \A i \in 1..L : R[i] = P[i]
      /\ R[L + 1] = f
  BY LayoutInPipe
<1>10. seq \in Nat /\ era \in Nat /\ rebased[c] \in Nat /\ rebased[c] <= era
  BY Numbers DEF Core, MirrorInv
<1>11. \A i \in 1..Len(P) : IsLayout(P[i]) =>
         /\ \A j \in 1..Len(P) : (j < i => P[j].seq <= P[i].seq) /\ (j > i => P[j].era >= P[i].era)
         /\ \A x \in Keys : shown[c][x].seq <= P[i].seq
  BY DEF Core, LayoutInv
<1>12. \A x \in Keys : shown[c][x].seq <= seq
  <2> SUFFICES ASSUME NEW x \in Keys PROVE shown[c][x].seq <= seq
    OBVIOUS
  <2>1. CASE Showing(c, x)
    BY <2>1, <1>10, Numbers DEF Core, MirrorInv, Genuine
  <2>2. CASE ~Showing(c, x)
    BY <2>2, <1>10 DEF Showing, NoEntry
  <2> QED BY <2>1, <2>2
<1>13. MirrorInv(c)' /\ ImageInv(c)'
  BY <1>5 DEF Core, MirrorInv, ImageInv, Genuine, Cached, Showing, Steady
<1>14. SingleInv(c)'
  BY <1>6, <1>7 DEF SingleInv
<1> HIDE DEF P, R, L
<1>15. \A i \in 1..Len(R) : (i \in 1..L /\ i \in 1..Len(P) /\ R[i] = P[i]) \/ (i = L + 1 /\ R[i] = f)
  BY <1>1, <1>9
<1>16. \A i \in 1..Len(R) :
         /\ R[i].seq <= seq /\ rebased[c] <= R[i].era /\ R[i].era <= era
         /\ ~IsLayout(R[i]) => Genuine(R[i].key, R[i].seq, R[i].face)
  BY <1>3, <1>10, <1>15
<1>17. FrameInv(c)'
  BY <1>5, <1>16 DEF FrameInv, Genuine, Cached, Steady, R
<1>18. ASSUME NEW i \in 1..Len(R), IsLayout(R[i])
       PROVE  /\ i <= L + 1
              /\ \A j \in 1..Len(R) : (j < i => R[j].seq <= R[i].seq) /\ (j > i => R[j].era >= R[i].era)
              /\ \A x \in Keys : shown[c][x].seq <= R[i].seq
  <2>1. CASE i \in 1..L /\ i \in 1..Len(P) /\ R[i] = P[i]
    <3>1. ASSUME NEW j \in 1..Len(R)
          PROVE  (j < i => R[j].seq <= R[i].seq) /\ (j > i => R[j].era >= R[i].era)
      <4>1. CASE j \in 1..Len(P) /\ R[j] = P[j]
        BY <1>11, <1>18, <2>1, <4>1
      <4>2. CASE j = L + 1 /\ R[j] = f
        BY <1>0, <1>1, <1>3, <2>1, <4>2
      <4> QED BY <1>15, <4>1, <4>2
    <3> QED BY <1>1, <1>11, <1>18, <2>1, <3>1
  <2>2. CASE i = L + 1 /\ R[i] = f
    <3>1. ASSUME NEW j \in 1..Len(R)
          PROVE  (j < i => R[j].seq <= R[i].seq) /\ (j > i => R[j].era >= R[i].era)
      BY <1>1, <1>9, <1>16, <2>2
    <3> QED BY <1>1, <1>12, <2>2, <3>1
  <2> QED BY <1>15, <2>1, <2>2
<1>19. LayoutInv(c)'
  BY <1>5, <1>18 DEF LayoutInv, R, L
<1>20. L + 1 \in 1..Len(R) /\ IsLayout(R[L + 1]) /\ \A j \in 1..Len(R) : ~(j > L + 1)
  BY <1>1, <1>9
<1>21. HasLayout(c)'
  BY <1>20 DEF HasLayout, R
<1>22. \A x \in Keys : Wiped(c, x)'
  BY <1>20 DEF Wiped, R
<1> QED BY <1>6, <1>7, <1>13, <1>14, <1>17, <1>19, <1>21, <1>22 DEF Core

-----------------------------------------------------------------------------
(* A frame handled by c's client *)

LEMMA Popped ==
    ASSUME Types, NEW c \in Clients, Deliver(c)
    PROVE  /\ Len(Pipe(c)) \in Nat \ {0} /\ Len(Pipe(c)') = Len(Pipe(c)) - 1
           /\ \A i \in 1..Len(Pipe(c)') : Pipe(c)'[i] = Pipe(c)[i + 1] /\ i + 1 \in 1..Len(Pipe(c))
           /\ 1 \in 1..Len(Pipe(c)) /\ Pipe(c)[1] = Head(wire[c])
           /\ Len(wire'[c]) = Len(wire[c]) - 1 /\ wire'[c] \in Seq(Frames)
           /\ lane' = lane /\ Steady
<1> DEFINE w == wire[c]
<1> DEFINE q == lane[c]
<1>1. /\ w \in Seq(Frames) /\ q \in Seq(Frames) /\ Len(w) \in Nat /\ Len(q) \in Nat
      /\ Len(Pipe(c)) = Len(w) + Len(q)
  BY PipeType
<1>2. w # <<>> /\ wire'[c] = Tail(w) /\ lane' = lane
  BY DEF Deliver, Types
<1>3. Steady
  BY DEF Deliver, managerVars, Steady
<1> HIDE DEF w, q
<1>4. /\ Tail(w) \in Seq(Frames) /\ Len(w) >= 1 /\ Len(Tail(w)) = Len(w) - 1
      /\ \A i \in 1..Len(Tail(w)) : Tail(w)[i] = w[i + 1]
      /\ Head(w) = w[1]
  BY <1>1, <1>2
<1>5. Pipe(c) = w \o q /\ Pipe(c)' = Tail(w) \o q
  BY <1>2 DEF Pipe, w, q
<1>6. /\ \A i \in 1..Len(w) : (w \o q)[i] = w[i]
      /\ \A i \in 1..Len(q) : (w \o q)[Len(w) + i] = q[i]
  BY <1>1, JoinAt
<1>7. /\ Len(Tail(w) \o q) = Len(Tail(w)) + Len(q)
      /\ \A i \in 1..Len(Tail(w)) : (Tail(w) \o q)[i] = Tail(w)[i]
      /\ \A i \in 1..Len(q) : (Tail(w) \o q)[Len(Tail(w)) + i] = q[i]
  BY <1>1, <1>4, JoinAt
<1> DEFINE P == w \o q
<1> DEFINE R == Tail(w) \o q
<1>8. Len(P) = Len(w) + Len(q) /\ Len(R) = Len(w) + Len(q) - 1
  BY <1>1, <1>4, <1>5, <1>7
<1>9. ASSUME NEW i \in 1..Len(R) PROVE R[i] = P[i + 1] /\ i + 1 \in 1..Len(P)
  <2>1. CASE i < Len(w)
    <3>1. i \in 1..Len(Tail(w)) /\ i + 1 \in 1..Len(w)
      BY <1>1, <1>4, <1>8, <2>1
    <3> QED BY <1>1, <1>4, <1>6, <1>7, <1>8, <3>1
  <2>2. CASE i >= Len(w)
    <3>1. PICK m \in 1..Len(q) : i + 1 = Len(w) + m
      <4>1. i + 1 - Len(w) \in 1..Len(q) /\ i + 1 = Len(w) + (i + 1 - Len(w))
        BY <1>1, <1>8, <2>2
      <4> QED BY <4>1
    <3>2. i = Len(Tail(w)) + m
      BY <1>1, <1>4, <1>8, <3>1
    <3>3. R[i] = q[m]
      BY <1>7, <3>2
    <3>4. P[i + 1] = q[m]
      BY <1>6, <3>1
    <3>5. i + 1 \in 1..Len(P)
      BY <1>1, <1>8, <3>1
    <3> QED BY <3>3, <3>4, <3>5
  <2> QED BY <1>1, <1>8, <2>1, <2>2
<1>10. 1 \in 1..Len(P) /\ P[1] = Head(w)
  BY <1>1, <1>4, <1>6, <1>8
<1>11. Len(P) \in Nat \ {0} /\ Len(R) = Len(P) - 1
  BY <1>1, <1>4, <1>8
<1>12. Len(wire'[c]) = Len(wire[c]) - 1 /\ wire'[c] \in Seq(Frames)
  BY <1>2, <1>4 DEF w
<1> HIDE DEF P, R
<1>13. Pipe(c) = P /\ Pipe(c)' = R
  BY <1>5 DEF P, R
<1> QED BY <1>2, <1>3, <1>9, <1>10, <1>11, <1>12, <1>13 DEF w

\* The rest of the pipe keeps what it had.
LEMMA PoppedFrames ==
    ASSUME Types, NEW c \in Clients, Deliver(c), Core(c)
    PROVE  LET P == Pipe(c)
               R == Pipe(c)'
           IN  /\ \A i \in 1..Len(R) :
                     /\ R[i].seq <= seq /\ rebased[c] <= R[i].era /\ R[i].era <= era
                     /\ ~IsLayout(R[i]) => Genuine(R[i].key, R[i].seq, R[i].face)
               /\ \A i \in 1..Len(R) : IsLayout(R[i]) =>
                     /\ i <= Len(wire'[c]) + 1
                     /\ \A j \in 1..Len(R) : /\ j < i => R[j].seq <= R[i].seq
                                             /\ j > i => R[j].era >= R[i].era
                     /\ P[1].seq <= R[i].seq
                     /\ \A x \in Keys : shown[c][x].seq <= R[i].seq
<1> DEFINE P == Pipe(c)
<1> DEFINE R == Pipe(c)'
<1>1. /\ Len(P) \in Nat \ {0} /\ Len(R) = Len(P) - 1
      /\ \A i \in 1..Len(R) : R[i] = P[i + 1] /\ i + 1 \in 1..Len(P)
      /\ 1 \in 1..Len(P) /\ Len(wire'[c]) = Len(wire[c]) - 1
  BY Popped
<1>2. Len(wire[c]) \in Nat
  BY PipeType
<1>3. \A i \in 1..Len(P) :
         /\ P[i].seq <= seq /\ rebased[c] <= P[i].era /\ P[i].era <= era
         /\ ~IsLayout(P[i]) => Genuine(P[i].key, P[i].seq, P[i].face)
  BY DEF Core, FrameInv
<1>4. \A i \in 1..Len(P) : IsLayout(P[i]) =>
         /\ i <= Len(wire[c]) + 1
         /\ \A j \in 1..Len(P) : (j < i => P[j].seq <= P[i].seq) /\ (j > i => P[j].era >= P[i].era)
         /\ \A x \in Keys : shown[c][x].seq <= P[i].seq
  BY DEF Core, LayoutInv
<1> HIDE DEF P, R
<1>5. ASSUME NEW i \in 1..Len(R), IsLayout(R[i])
      PROVE  /\ i <= Len(wire'[c]) + 1
             /\ \A j \in 1..Len(R) : (j < i => R[j].seq <= R[i].seq) /\ (j > i => R[j].era >= R[i].era)
             /\ P[1].seq <= R[i].seq
             /\ \A x \in Keys : shown[c][x].seq <= R[i].seq
  <2>1. i + 1 \in 1..Len(P) /\ R[i] = P[i + 1] /\ IsLayout(P[i + 1]) /\ i \in Nat \ {0}
    BY <1>1, <1>5
  <2>2. /\ i + 1 <= Len(wire[c]) + 1
        /\ \A j \in 1..Len(P) : /\ j < i + 1 => P[j].seq <= P[i + 1].seq
                                /\ j > i + 1 => P[j].era >= P[i + 1].era
        /\ \A x \in Keys : shown[c][x].seq <= P[i + 1].seq
    BY <1>4, <2>1
  <2>3. ASSUME NEW j \in 1..Len(R)
        PROVE  (j < i => R[j].seq <= R[i].seq) /\ (j > i => R[j].era >= R[i].era)
    <3>1. R[j] = P[j + 1] /\ j + 1 \in 1..Len(P)
      BY <1>1
    <3>2. (j < i => j + 1 < i + 1) /\ (j > i => j + 1 > i + 1)
      BY <2>1
    <3> QED BY <2>1, <2>2, <3>1, <3>2
  <2>4. P[1].seq <= P[i + 1].seq
    BY <1>1, <2>1, <2>2
  <2>5. i <= Len(wire'[c]) + 1
    BY <1>1, <1>2, <2>1, <2>2
  <2> QED BY <2>1, <2>2, <2>3, <2>4, <2>5
<1> QED BY <1>1, <1>3, <1>5 DEF P, R

\* applyLayout: nothing is left of the mirror, and nothing it still owes is lost.
LEMMA LayoutHandled ==
    ASSUME Types, CacheInv, NEW c \in Clients, ClientInv(c), Deliver(c), IsLayout(Head(wire[c]))
    PROVE  ClientInv(c)'
<1> DEFINE P == Pipe(c)
<1> DEFINE R == Pipe(c)'
<1>1. /\ Len(P) \in Nat \ {0} /\ Len(R) = Len(P) - 1
      /\ \A i \in 1..Len(R) : R[i] = P[i + 1] /\ i + 1 \in 1..Len(P)
      /\ 1 \in 1..Len(P) /\ P[1] = Head(wire[c])
  BY Popped
<1>2. lane' = lane /\ seq' = seq /\ cache' = cache /\ era' = era /\ pending' = pending
      /\ stage' = stage /\ todo' = todo
  BY DEF Deliver, managerVars, replayVars
<1>3. ApplyLayout(c, P[1])
  BY <1>1 DEF Deliver
<1>4. Core(c) /\ SizedInv(c) /\ OwedInv(c)
  BY DEF ClientInv, Core
<1>5. /\ sized'[c] = TRUE /\ decoding' = decoding /\ rebased'[c] = P[1].era
      /\ \A x \in Keys : shown'[c][x] = IF shown[c][x].seq <= P[1].seq THEN NoEntry ELSE shown[c][x]
  BY <1>3 DEF ApplyLayout, Types
<1>6. /\ \A j \in 1..Len(P) : j > 1 => P[j].era >= P[1].era
      /\ \A x \in Keys : shown[c][x].seq <= P[1].seq
  BY <1>1, <1>4 DEF Core, LayoutInv
<1>7. \A x \in Keys : shown'[c][x] = NoEntry
  BY <1>5, <1>6
<1>8. /\ \A i \in 1..Len(R) :
             /\ R[i].seq <= seq /\ rebased[c] <= R[i].era /\ R[i].era <= era
             /\ ~IsLayout(R[i]) => Genuine(R[i].key, R[i].seq, R[i].face)
      /\ \A i \in 1..Len(R) : IsLayout(R[i]) =>
             /\ i <= Len(wire'[c]) + 1
             /\ \A j \in 1..Len(R) : /\ j < i => R[j].seq <= R[i].seq
                                     /\ j > i => R[j].era >= R[i].era
             /\ P[1].seq <= R[i].seq
             /\ \A x \in Keys : shown[c][x].seq <= R[i].seq
  BY <1>4, PoppedFrames
<1>9. P[1].era <= era /\ P[1].seq \in Nat /\ \A i \in 1..Len(P) : P[i].seq \in Nat
  BY <1>1, <1>4, PipeType DEF Core, FrameInv
<1>10. /\ \A k \in Cached : k \in Keys /\ cache[k].seq \in 1..seq
       /\ NoEntry.seq = 0
  BY CachedFrame DEF NoEntry
<1> HIDE DEF P, R
<1>11. \A i \in 1..Len(R) : rebased'[c] <= R[i].era
  <2> SUFFICES ASSUME NEW i \in 1..Len(R) PROVE rebased'[c] <= R[i].era
    OBVIOUS
  <2>1. i + 1 \in 1..Len(P) /\ i + 1 > 1 /\ R[i] = P[i + 1]
    BY <1>1
  <2>2. P[i + 1].era >= P[1].era /\ P[i + 1].era \in Nat /\ P[1].era \in Nat
    BY <1>1, <1>6, <2>1, PipeType DEF P
  <2> QED BY <1>5, <2>1, <2>2
<1>12. FrameInv(c)'
  BY <1>2, <1>8, <1>11 DEF FrameInv, Genuine, Cached, R
<1>13. \A i \in 1..Len(R) : IsLayout(R[i]) => \A x \in Keys : shown'[c][x].seq <= R[i].seq
  <2> SUFFICES ASSUME NEW i \in 1..Len(R), NEW x \in Keys PROVE shown'[c][x].seq <= R[i].seq
    OBVIOUS
  <2>1. R[i].seq \in Nat
    BY <1>1, <1>9
  <2> QED BY <1>7, <1>10, <2>1
<1>14. LayoutInv(c)'
  BY <1>8, <1>13 DEF LayoutInv, R
<1>15. SingleInv(c)'
  BY <1>2, <1>4 DEF Core, SingleInv
<1>16. MirrorInv(c)'
  BY <1>2, <1>4, <1>5, <1>7, <1>9 DEF Core, MirrorInv, Showing, Genuine, Cached
<1>17. ImageInv(c)'
  BY <1>2, <1>7, <1>10, Numbers DEF ImageInv, Cached
<1>18. SizedInv(c)'
  BY <1>5 DEF SizedInv
<1>19. HasLayout(c)
  BY <1>1 DEF HasLayout, P
<1>20. ASSUME NEW k \in Cached, Covered(c, k) PROVE Covered(c, k)'
  <2>1. CASE UnderWay(c, k)
    <3>1. PICK i \in 1..Len(P) : /\ P[i].key = k /\ P[i].seq = cache[k].seq
                                 /\ \A j \in 1..Len(P) : j > i => ~IsLayout(P[j])
      BY <2>1 DEF UnderWay, P
    <3>2. i # 1
      BY <1>1, <1>10, <3>1, SurfaceAssumption DEF IsLayout
    <3>3. i - 1 \in 1..Len(R) /\ R[i - 1] = P[i]
      BY <1>1, <3>2
    <3>4. \A j \in 1..Len(R) : j > i - 1 => ~IsLayout(R[j])
      BY <1>1, <3>1
    <3>5. UnderWay(c, k)'
      BY <1>2, <3>1, <3>3, <3>4 DEF UnderWay, R
    <3> QED BY <3>5 DEF Covered
  <2>2. CASE pending = {cache[k]}
    BY <1>2, <2>2 DEF Covered
  <2> QED BY <1>19, <1>20, <2>1, <2>2 DEF Covered
<1>21. ASSUME NEW k \in Keys, Blanked(c, k) PROVE Blanked(c, k)'
  <2>1. ~Showing(c, k)'
    BY <1>7 DEF Showing
  <2>2. CASE Wiped(c, k)
    <3>1. PICK i \in 1..Len(P) : IsLayout(P[i]) /\ \A j \in 1..Len(P) : j > i => P[j].key # k
      BY <2>2 DEF Wiped, P
    <3>2. CASE i = 1
      <4>1. \A j \in 1..Len(R) : R[j].key # k
        BY <1>1, <3>1, <3>2
      <4> QED BY <2>1, <4>1 DEF Blanked, R
    <3>3. CASE i # 1
      <4>1. i - 1 \in 1..Len(R) /\ R[i - 1] = P[i]
        BY <1>1, <3>3
      <4>2. \A j \in 1..Len(R) : j > i - 1 => R[j].key # k
        BY <1>1, <3>1
      <4>3. Wiped(c, k)'
        BY <3>1, <4>1, <4>2 DEF Wiped, R
      <4> QED BY <4>3 DEF Blanked
    <3> QED BY <3>2, <3>3
  <2>3. CASE \A j \in 1..Len(P) : P[j].key # k
    <3>1. \A j \in 1..Len(R) : R[j].key # k
      BY <1>1, <2>3
    <3> QED BY <2>1, <3>1 DEF Blanked, R
  <2>4. CASE \E f \in pending : IsLayout(f)
    BY <1>2, <2>4 DEF Blanked
  <2> QED BY <1>21, <2>2, <2>3, <2>4 DEF Blanked, P
<1>22. OwedInv(c)'
  BY <1>2, <1>4, <1>20, <1>21 DEF OwedInv, Due, Cached
<1> QED BY <1>12, <1>14, <1>15, <1>16, <1>17, <1>18, <1>22 DEF ClientInv

\* applyKey: a newer render is taken, a stale one changes nothing.
LEMMA KeyHandled ==
    ASSUME Types, CacheInv, NEW c \in Clients, ClientInv(c), Deliver(c), ~IsLayout(Head(wire[c]))
    PROVE  ClientInv(c)'
<1> DEFINE P == Pipe(c)
<1> DEFINE R == Pipe(c)'
<1> DEFINE f == P[1]
<1> DEFINE k == f.key
<1>1. /\ Len(P) \in Nat \ {0} /\ Len(R) = Len(P) - 1
      /\ \A i \in 1..Len(R) : R[i] = P[i + 1] /\ i + 1 \in 1..Len(P)
      /\ 1 \in 1..Len(P) /\ f = Head(wire[c])
  BY Popped
<1>2. lane' = lane /\ seq' = seq /\ cache' = cache /\ era' = era /\ pending' = pending
      /\ stage' = stage /\ todo' = todo
  BY DEF Deliver, managerVars, replayVars
<1>3. ApplyKey(c, f)
  BY <1>1 DEF Deliver
<1>4. Core(c) /\ SizedInv(c) /\ OwedInv(c)
  BY DEF ClientInv, Core
<1>5. /\ f \in Frames /\ f.seq \in Nat /\ f.era \in Nat /\ k \in Keys /\ ~IsLayout(f)
  BY <1>1, PipeType DEF IsLayout
<1>6. /\ f.seq <= seq /\ rebased[c] <= f.era /\ Genuine(k, f.seq, f.face)
  BY <1>1, <1>5, <1>4 DEF Core, FrameInv
<1>7. sized' = sized /\ rebased' = rebased
  BY <1>3 DEF ApplyKey
<1>8. \A x \in Keys : shown[c][x].seq \in Nat
  BY Numbers
<1>9. /\ \A i \in 1..Len(R) :
             /\ R[i].seq <= seq /\ rebased[c] <= R[i].era /\ R[i].era <= era
             /\ ~IsLayout(R[i]) => Genuine(R[i].key, R[i].seq, R[i].face)
      /\ \A i \in 1..Len(R) : IsLayout(R[i]) =>
             /\ i <= Len(wire'[c]) + 1
             /\ \A j \in 1..Len(R) : /\ j < i => R[j].seq <= R[i].seq
                                     /\ j > i => R[j].era >= R[i].era
             /\ f.seq <= R[i].seq
             /\ \A x \in Keys : shown[c][x].seq <= R[i].seq
  BY <1>4, PoppedFrames
<1>10. \A x \in Cached : x \in Keys /\ cache[x].seq \in 1..seq /\ cache[x].seq \in Nat
  BY CachedFrame, Numbers
<1> DEFINE Stale == Showing(c, k) /\ f.seq <= shown[c][k].seq
<1>11. Stale => shown' = shown /\ decoding' = decoding
  BY <1>3 DEF ApplyKey
<1>29. ~Stale =>
         /\ shown' = [shown EXCEPT ![c][k] = [seq |-> f.seq, face |-> f.face, image |-> @.image, era |-> f.era]]
         /\ decoding' = [decoding EXCEPT ![c] =
               IF f.face \notin Plain /\ sized[c]
               THEN @ \cup {[key |-> k, seq |-> f.seq, face |-> f.face]} ELSE @]
  BY <1>3 DEF ApplyKey
<1>30. shown \in [Clients -> [Keys -> Entries]] /\ decoding \in [Clients -> SUBSET Decodes]
  BY DEF Types
<1>12. ~Stale =>
         /\ shown'[c][k] = [seq |-> f.seq, face |-> f.face, image |-> shown[c][k].image, era |-> f.era]
         /\ \A x \in Keys \ {k} : shown'[c][x] = shown[c][x]
         /\ decoding'[c] = IF f.face \notin Plain /\ sized[c]
                           THEN decoding[c] \cup {[key |-> k, seq |-> f.seq, face |-> f.face]}
                           ELSE decoding[c]
  <2> HIDE DEF Stale, f, k
  <2>1. ASSUME ~Stale
        PROVE  shown'[c][k] = [seq |-> f.seq, face |-> f.face, image |-> shown[c][k].image, era |-> f.era]
    BY <1>5, <1>29, <1>30, <2>1
  <2>2. ASSUME ~Stale, NEW x \in Keys \ {k} PROVE shown'[c][x] = shown[c][x]
    BY <1>5, <1>29, <1>30, <2>2
  <2>3. ASSUME ~Stale
        PROVE  decoding'[c] = IF f.face \notin Plain /\ sized[c]
                              THEN decoding[c] \cup {[key |-> k, seq |-> f.seq, face |-> f.face]}
                              ELSE decoding[c]
    BY <1>29, <1>30, <2>3
  <2> QED BY <2>1, <2>2, <2>3
<1>13. \A x \in Keys \ {k} : shown'[c][x] = shown[c][x]
  BY <1>11, <1>12
<1>14. decoding[c] \subseteq decoding'[c]
  BY <1>11, <1>12
<1> HIDE DEF P, R, f, k, Stale
<1>15. FrameInv(c)'
  BY <1>2, <1>7, <1>9 DEF FrameInv, Genuine, Cached, R
<1>16. \A i \in 1..Len(R) : IsLayout(R[i]) => \A x \in Keys : shown'[c][x].seq <= R[i].seq
  <2> SUFFICES ASSUME NEW i \in 1..Len(R), IsLayout(R[i]), NEW x \in Keys
               PROVE  shown'[c][x].seq <= R[i].seq
    OBVIOUS
  <2>1. CASE x # k \/ Stale
    BY <1>9, <1>11, <1>13, <2>1
  <2>2. CASE x = k /\ ~Stale
    BY <1>9, <1>12, <2>2
  <2> QED BY <2>1, <2>2
<1>17. LayoutInv(c)'
  BY <1>9, <1>16 DEF LayoutInv, R
<1>18. SingleInv(c)'
  BY <1>2, <1>4 DEF Core, SingleInv
<1>19. ASSUME NEW x \in Keys, Showing(c, x)'
       PROVE  Genuine(x, shown'[c][x].seq, shown'[c][x].face) /\ rebased[c] <= shown'[c][x].era
  <2>1. CASE x # k \/ Stale
    <3>1. shown'[c][x] = shown[c][x]
      BY <1>11, <1>13, <2>1
    <3> QED BY <1>4, <1>19, <3>1 DEF Core, MirrorInv, Showing
  <2>2. CASE x = k /\ ~Stale
    BY <1>6, <1>12, <2>2
  <2> QED BY <2>1, <2>2
<1>20. ASSUME NEW d \in decoding'[c] PROVE Genuine(d.key, d.seq, d.face)
  <2>1. CASE d \in decoding[c]
    BY <1>4, <2>1 DEF Core, MirrorInv
  <2>2. CASE d = [key |-> k, seq |-> f.seq, face |-> f.face]
    BY <1>6, <2>2
  <2> QED BY <1>11, <1>12, <2>1, <2>2
<1>21. MirrorInv(c)'
  BY <1>2, <1>4, <1>7, <1>19, <1>20 DEF Core, MirrorInv, Genuine, Cached
<1>22. ASSUME NEW x \in Cached, sized[c], shown'[c][x].seq = cache[x].seq, cache[x].face \notin Plain
       PROVE  \/ shown'[c][x].image = cache[x].face
              \/ [key |-> x, seq |-> cache[x].seq, face |-> cache[x].face] \in decoding'[c]
  <2>1. CASE x # k \/ Stale
    <3>1. shown'[c][x] = shown[c][x]
      BY <1>10, <1>11, <1>13, <2>1
    <3> QED BY <1>4, <1>14, <1>22, <3>1 DEF Core, ImageInv
  <2>2. CASE x = k /\ ~Stale
    <3>1. f.seq = cache[k].seq
      BY <1>12, <1>22, <2>2
    <3>2. f.face = cache[k].face
      BY <1>6, <1>22, <2>2, <3>1 DEF Genuine
    <3> QED BY <1>12, <1>22, <2>2, <3>1, <3>2
  <2> QED BY <2>1, <2>2
<1>23. ImageInv(c)'
  BY <1>2, <1>7, <1>22 DEF ImageInv, Cached
<1>24. HasLayout(c)' = HasLayout(c)
  <2>1. ASSUME NEW i \in 1..Len(P), IsLayout(P[i]) PROVE \E j \in 1..Len(R) : IsLayout(R[j])
    <3>1. i # 1
      BY <1>5, <2>1 DEF f
    <3>2. i - 1 \in 1..Len(R) /\ R[i - 1] = P[i]
      BY <1>1, <3>1
    <3> QED BY <2>1, <3>2
  <2>2. ASSUME NEW i \in 1..Len(R), IsLayout(R[i]) PROVE \E j \in 1..Len(P) : IsLayout(P[j])
    BY <1>1, <2>2
  <2> QED BY <2>1, <2>2 DEF HasLayout, P, R
<1>25. SizedInv(c)'
  BY <1>2, <1>4, <1>7, <1>24 DEF SizedInv
<1>26. ASSUME NEW x \in Cached, Covered(c, x) PROVE Covered(c, x)'
  <2>1. CASE pending = {cache[x]}
    BY <1>2, <2>1 DEF Covered
  <2>2. CASE UnderWay(c, x)
    <3>1. PICK i \in 1..Len(P) : /\ P[i].key = x /\ P[i].seq = cache[x].seq
                                 /\ \A j \in 1..Len(P) : j > i => ~IsLayout(P[j])
      BY <2>2 DEF UnderWay, P
    <3>2. CASE i # 1
      <4>1. i - 1 \in 1..Len(R) /\ R[i - 1] = P[i]
        BY <1>1, <3>2
      <4>2. \A j \in 1..Len(R) : j > i - 1 => ~IsLayout(R[j])
        BY <1>1, <3>1
      <4>3. UnderWay(c, x)'
        BY <1>2, <3>1, <4>1, <4>2 DEF UnderWay, R
      <4> QED BY <4>3 DEF Covered
    <3>3. CASE i = 1
      <4>1. x = k /\ f.seq = cache[x].seq
        BY <3>1, <3>3 DEF f, k
      <4>2. ~HasLayout(c)
        <5>1. \A j \in 1..Len(P) : ~IsLayout(P[j])
          BY <1>1, <1>5, <3>1, <3>3 DEF f
        <5> QED BY <5>1 DEF HasLayout, P
      <4>3. shown'[c][x].seq = cache[x].seq
        <5>1. CASE Stale
          <6>1. shown[c][k].seq <= cache[k].seq
            BY <1>4, <1>5, <4>1, <5>1 DEF Stale, Core, MirrorInv, Genuine
          <6> QED BY <1>5, <1>8, <1>10, <1>11, <4>1, <5>1, <6>1 DEF Stale
        <5>2. CASE ~Stale
          BY <1>12, <4>1, <5>2
        <5> QED BY <5>1, <5>2
      <4> QED BY <1>2, <1>24, <4>2, <4>3 DEF Covered
    <3> QED BY <3>2, <3>3
  <2>3. CASE shown[c][x].seq = cache[x].seq /\ ~HasLayout(c)
    <3>1. shown'[c][x].seq = cache[x].seq
      <4>1. CASE x # k
        BY <1>10, <1>13, <2>3, <4>1
      <4>2. CASE x = k
        <5>1. shown[c][k] # NoEntry
          BY <1>10, <2>3, <4>2 DEF NoEntry
        <5>2. f.seq <= cache[k].seq
          BY <1>6, <4>2 DEF Genuine
        <5>3. Stale
          BY <2>3, <4>2, <5>1, <5>2 DEF Stale, Showing
        <5> QED BY <1>11, <2>3, <5>3
      <4> QED BY <4>1, <4>2
    <3> QED BY <1>2, <1>24, <2>3, <3>1 DEF Covered
  <2> QED BY <1>26, <2>1, <2>2, <2>3 DEF Covered
<1>27. ASSUME NEW x \in Keys, Blanked(c, x) PROVE Blanked(c, x)'
  <2>1. CASE \E g \in pending : IsLayout(g)
    BY <1>2, <2>1 DEF Blanked
  <2>2. CASE Wiped(c, x)
    <3>1. PICK i \in 1..Len(P) : IsLayout(P[i]) /\ \A j \in 1..Len(P) : j > i => P[j].key # x
      BY <2>2 DEF Wiped, P
    <3>2. i # 1
      BY <1>5, <3>1 DEF f
    <3>3. i - 1 \in 1..Len(R) /\ R[i - 1] = P[i]
      BY <1>1, <3>2
    <3>4. \A j \in 1..Len(R) : j > i - 1 => R[j].key # x
      BY <1>1, <3>1
    <3>5. Wiped(c, x)'
      BY <3>1, <3>3, <3>4 DEF Wiped, R
    <3> QED BY <3>5 DEF Blanked
  <2>3. CASE ~Showing(c, x) /\ \A j \in 1..Len(P) : P[j].key # x
    <3>1. x # k
      BY <1>1, <2>3 DEF f, k
    <3>2. ~Showing(c, x)'
      BY <1>13, <2>3, <3>1 DEF Showing
    <3>3. \A j \in 1..Len(R) : R[j].key # x
      BY <1>1, <2>3
    <3> QED BY <3>2, <3>3 DEF Blanked, R
  <2> QED BY <1>27, <2>1, <2>2, <2>3 DEF Blanked, P
<1>28. OwedInv(c)'
  BY <1>2, <1>4, <1>26, <1>27 DEF OwedInv, Due, Cached
<1> QED BY <1>15, <1>17, <1>18, <1>21, <1>23, <1>25, <1>28 DEF ClientInv

\* _decodeBitmap: the update a bitmap was decoded for takes it.
LEMMA DecodeHandled ==
    ASSUME Types, CacheInv, NEW c \in Clients, ClientInv(c), NEW d \in decoding[c], Decoded(c, d)
    PROVE  ClientInv(c)'
<1>1. /\ lane' = lane /\ wire' = wire /\ seq' = seq /\ cache' = cache /\ era' = era
      /\ pending' = pending /\ stage' = stage /\ todo' = todo /\ sized' = sized /\ rebased' = rebased
  BY DEF Decoded, managerVars, replayVars
<1>2. Pipe(c)' = Pipe(c)
  BY <1>1 DEF Pipe
<1>3. Core(c) /\ SizedInv(c) /\ OwedInv(c)
  BY DEF ClientInv, Core
<1>4. d \in Decodes /\ d.key \in Keys
  BY DEF Types, Decodes
<1>5. shown \in [Clients -> [Keys -> Entries]] /\ decoding \in [Clients -> SUBSET Decodes]
  BY DEF Types
<1> DEFINE Due_ == Showing(c, d.key) /\ shown[c][d.key].seq = d.seq
<1>6. decoding'[c] = decoding[c] \ {d}
  BY <1>5 DEF Decoded
<1>7. shown' = IF Due_ THEN [shown EXCEPT ![c][d.key].image = d.face] ELSE shown
  BY DEF Decoded
<1>8. \A x \in Keys : shown[c][x] \in Entries
  BY <1>5
<1> HIDE DEF Due_
<1>9. \A x \in Keys : x # d.key \/ ~Due_ => shown'[c][x] = shown[c][x]
  BY <1>4, <1>5, <1>7
<1>10. Due_ => shown'[c][d.key] = [shown[c][d.key] EXCEPT !.image = d.face]
  BY <1>4, <1>5, <1>7
<1>11. \A x \in Keys : /\ shown'[c][x].seq = shown[c][x].seq /\ shown'[c][x].face = shown[c][x].face
                       /\ shown'[c][x].era = shown[c][x].era
  <2> SUFFICES ASSUME NEW x \in Keys
               PROVE  /\ shown'[c][x].seq = shown[c][x].seq /\ shown'[c][x].face = shown[c][x].face
                      /\ shown'[c][x].era = shown[c][x].era
    OBVIOUS
  <2>1. CASE x = d.key /\ Due_
    BY <1>8, <1>10, <2>1 DEF Entries
  <2>2. CASE x # d.key \/ ~Due_
    BY <1>9, <2>2
  <2> QED BY <2>1, <2>2
<1>12. Due_ => shown'[c][d.key].image = d.face
  BY <1>4, <1>8, <1>10 DEF Entries
<1>13. \A x \in Keys : shown[c][x].seq \in Nat
  BY Numbers
<1>14. \A x \in Keys : Showing(c, x)' => Showing(c, x)
  <2> SUFFICES ASSUME NEW x \in Keys, Showing(c, x)', ~Showing(c, x) PROVE FALSE
    OBVIOUS
  <2>1. ~Due_ \/ x # d.key
    BY DEF Due_
  <2> QED BY <1>9, <2>1 DEF Showing
<1>15. \A x \in Keys : Showing(c, x) => Showing(c, x)'
  <2> SUFFICES ASSUME NEW x \in Keys, Showing(c, x) PROVE Showing(c, x)'
    OBVIOUS
  <2>1. shown[c][x].seq \in 1..seq
    BY <1>3 DEF Core, MirrorInv, Genuine
  <2>2. shown'[c][x].seq # 0
    BY <1>11, <2>1
  <2> QED BY <2>2 DEF Showing, NoEntry
<1>16. FrameInv(c)'
  BY <1>1, <1>2, <1>3 DEF Core, FrameInv, Genuine, Cached
<1>17. LayoutInv(c)'
  BY <1>1, <1>2, <1>3, <1>11 DEF Core, LayoutInv
<1>18. SingleInv(c)'
  BY <1>1, <1>3 DEF Core, SingleInv
<1>19. MirrorInv(c)'
  <2>1. ASSUME NEW x \in Keys, Showing(c, x)'
        PROVE  Genuine(x, shown'[c][x].seq, shown'[c][x].face) /\ rebased[c] <= shown'[c][x].era
    <3>1. Genuine(x, shown[c][x].seq, shown[c][x].face) /\ rebased[c] <= shown[c][x].era
      BY <1>3, <1>14, <2>1 DEF Core, MirrorInv
    <3> QED BY <1>11, <3>1
  <2>2. \A e \in decoding'[c] : Genuine(e.key, e.seq, e.face)
    BY <1>3, <1>6 DEF Core, MirrorInv
  <2> QED BY <1>1, <1>3, <2>1, <2>2 DEF Core, MirrorInv, Genuine, Cached
<1>20. ASSUME NEW x \in Cached, sized[c], shown'[c][x].seq = cache[x].seq, cache[x].face \notin Plain
       PROVE  \/ shown'[c][x].image = cache[x].face
              \/ [key |-> x, seq |-> cache[x].seq, face |-> cache[x].face] \in decoding'[c]
  <2>1. x \in Keys /\ cache[x].seq \in 1..seq
    BY CachedFrame
  <2>2. shown[c][x].seq = cache[x].seq
    BY <1>11, <1>20, <2>1
  <2>3. Showing(c, x)
    BY <2>1, <2>2 DEF Showing, NoEntry
  <2>4. \/ shown[c][x].image = cache[x].face
        \/ [key |-> x, seq |-> cache[x].seq, face |-> cache[x].face] \in decoding[c]
    BY <1>3, <1>20, <2>2 DEF Core, ImageInv
  <2>5. CASE x = d.key /\ Due_
    <3>1. d.seq = cache[x].seq /\ Genuine(d.key, d.seq, d.face)
      BY <1>3, <2>2, <2>5 DEF Due_, Core, MirrorInv
    <3>2. d.face = cache[x].face
      BY <1>20, <2>5, <3>1 DEF Genuine
    <3> QED BY <1>12, <2>5, <3>2
  <2>6. CASE x # d.key \/ ~Due_
    <3>1. shown'[c][x] = shown[c][x]
      BY <1>9, <2>1, <2>6
    <3>2. d # [key |-> x, seq |-> cache[x].seq, face |-> cache[x].face]
      BY <2>2, <2>3, <2>6 DEF Due_
    <3> QED BY <1>6, <2>4, <3>1, <3>2
  <2> QED BY <2>5, <2>6
<1>21. ImageInv(c)'
  BY <1>1, <1>20 DEF ImageInv, Cached
<1>22. HasLayout(c)' = HasLayout(c)
  BY <1>2 DEF HasLayout
<1>23. SizedInv(c)'
  BY <1>1, <1>3, <1>22 DEF SizedInv
<1>24. \A x \in Cached : x \in Keys
  BY DEF Cached
<1>25. \A x \in Cached : Covered(c, x) => Covered(c, x)'
  BY <1>1, <1>2, <1>11, <1>22, <1>24 DEF Covered, UnderWay
<1>26. \A x \in Keys : Blanked(c, x) => Blanked(c, x)'
  BY <1>1, <1>2, <1>14 DEF Blanked, Wiped
<1>27. OwedInv(c)'
  BY <1>1, <1>3, <1>25, <1>26 DEF OwedInv, Due, Cached
<1> QED BY <1>16, <1>17, <1>18, <1>19, <1>21, <1>23, <1>27 DEF ClientInv

-----------------------------------------------------------------------------
(* The other steps of a connection *)

LEMMA ShownOld ==
    ASSUME Types, NEW c \in Clients, MirrorInv(c), NEW x \in Keys
    PROVE  shown[c][x].seq \in Nat /\ shown[c][x].seq <= seq
<1>1. shown[c][x].seq \in Nat /\ seq \in Nat
  BY Numbers
<1>2. CASE Showing(c, x)
  BY <1>1, <1>2 DEF MirrorInv, Genuine
<1>3. CASE ~Showing(c, x)
  BY <1>1, <1>3 DEF Showing, NoEntry
<1> QED BY <1>1, <1>2, <1>3

\* Nothing is owed anew where neither the connection nor its replay moves.
LEMMA StillClient ==
    ASSUME NEW c \in Clients, ClientInv(c), Steady, Still(c), pending' = pending,
           stage'[c] = stage[c], stage[c] = "replaying" => todo' = todo
    PROVE  ClientInv(c)'
<1>1. Core(c) /\ SizedInv(c) /\ OwedInv(c)
  BY DEF ClientInv, Core
<1>2. Core(c)' /\ Pipe(c)' = Pipe(c)
  BY <1>1, StillCore
<1>3. cache' = cache /\ sized'[c] = sized[c] /\ shown'[c] = shown[c]
  BY DEF Steady, Still, Unread
<1>4. HasLayout(c)' = HasLayout(c)
  BY <1>2 DEF HasLayout
<1>5. SizedInv(c)'
  BY <1>1, <1>3, <1>4 DEF SizedInv
<1>6. \A x \in Keys : Covered(c, x) => Covered(c, x)'
  BY <1>2, <1>3, <1>4 DEF Covered, UnderWay
<1>7. \A x \in Keys : Blanked(c, x) => Blanked(c, x)'
  BY <1>2, <1>3 DEF Blanked, Wiped, Showing
<1>8. \A x \in Keys : Due(c, x)' => Due(c, x)
  BY DEF Due
<1>9. OwedInv(c)'
  BY <1>1, <1>3, <1>6, <1>7, <1>8 DEF OwedInv, Cached
<1> QED BY <1>2, <1>5, <1>9 DEF ClientInv, Core

\* writeLoop moves a frame within the pipe.
LEMMA WriteClient ==
    ASSUME Types, NEW c \in Clients, ClientInv(c), Write(c)
    PROVE  ClientInv(c)' /\ wire'[c] \in Seq(Frames) /\ lane'[c] \in Seq(Frames)
<1> DEFINE w == wire[c]
<1> DEFINE q == lane[c]
<1>1. /\ seq' = seq /\ cache' = cache /\ era' = era /\ pending' = pending /\ stage' = stage
      /\ todo' = todo /\ sized' = sized /\ shown' = shown /\ decoding' = decoding /\ rebased' = rebased
  BY DEF Write, managerVars, replayVars, clientVars
<1>2. w \in Seq(Frames) /\ q \in Seq(Frames) /\ q # <<>>
  BY DEF Types, Write
<1>3. wire'[c] = Append(w, Head(q)) /\ lane'[c] = Tail(q)
  BY DEF Write, Types
<1>4. Core(c) /\ SizedInv(c) /\ OwedInv(c)
  BY DEF ClientInv, Core
<1>5. Len(Pipe(c)) \in Nat /\ Len(w) \in Nat
  BY PipeType
<1> HIDE DEF w, q
<1>6. /\ Append(w, Head(q)) \in Seq(Frames) /\ Len(Append(w, Head(q))) = Len(w) + 1
      /\ Tail(q) \in Seq(Frames) /\ Len(Tail(q)) = Len(q) - 1 /\ Len(q) \in Nat \ {0}
      /\ \A i \in 1..Len(Tail(q)) : Tail(q)[i] = q[i + 1]
  BY <1>2
<1>7. Append(w, Head(q)) \o Tail(q) = w \o q
  BY <1>2
<1>8. Pipe(c)' = Pipe(c)
  BY <1>3, <1>7 DEF Pipe, w, q
<1>9. FrameInv(c)'
  BY <1>1, <1>4, <1>8 DEF Core, FrameInv, Genuine, Cached
<1>10. LayoutInv(c)'
  <2>1. \A i \in 1..Len(Pipe(c)) : i <= Len(w) + 1 => i <= Len(wire'[c]) + 1
    BY <1>3, <1>5, <1>6
  <2> QED BY <1>1, <1>4, <1>8, <2>1 DEF Core, LayoutInv, w
<1>11. SingleInv(c)'
  <2>1. \A i, j \in 1..Len(q) : q[i].key = q[j].key => i = j
    BY <1>4 DEF Core, SingleInv, q
  <2>2. ASSUME NEW i \in 1..Len(Tail(q)), NEW j \in 1..Len(Tail(q)), Tail(q)[i].key = Tail(q)[j].key
        PROVE  i = j
    <3>1. i + 1 \in 1..Len(q) /\ j + 1 \in 1..Len(q) /\ q[i + 1].key = q[j + 1].key
      BY <1>6, <2>2
    <3> QED BY <2>1, <3>1
  <2> QED BY <1>3, <2>2 DEF SingleInv
<1>12. MirrorInv(c)' /\ ImageInv(c)'
  BY <1>1, <1>4 DEF Core, MirrorInv, ImageInv, Showing, Genuine, Cached
<1>13. HasLayout(c)' = HasLayout(c)
  BY <1>8 DEF HasLayout
<1>14. SizedInv(c)'
  BY <1>1, <1>4, <1>13 DEF SizedInv
<1>15. OwedInv(c)'
  BY <1>1, <1>4, <1>8, <1>13 DEF OwedInv, Due, Cached, Covered, UnderWay, Blanked, Wiped, Showing
<1> QED BY <1>3, <1>6, <1>9, <1>10, <1>11, <1>12, <1>14, <1>15 DEF ClientInv

-----------------------------------------------------------------------------
(* The steps *)

LEMMA SurfaceBegins == Init => SurfaceInv
<1> SUFFICES ASSUME Init PROVE SurfaceInv
  OBVIOUS
<1>1. Types
  <2>1. cache \in [Keys -> Frames] /\ shown \in [Clients -> [Keys -> Entries]]
    BY EmptyType DEF Init
  <2>2. seq \in 0..MaxSeq /\ era \in 0..MaxRebaselines
    BY SurfaceAssumption DEF Init
  <2>3. <<>> \in Seq(Frames) /\ {} \in SUBSET Decodes
    OBVIOUS
  <2>4. /\ lane \in [Clients -> Seq(Frames)] /\ wire \in [Clients -> Seq(Frames)]
        /\ decoding \in [Clients -> SUBSET Decodes]
    BY <2>3 DEF Init
  <2> QED BY <2>1, <2>2, <2>4 DEF Init, Types
<1>2. Cached = {}
  BY DEF Init, Cached
<1>3. CacheInv
  BY <1>2 DEF CacheInv, Init
<1>4. ReplayInv
  BY SurfaceAssumption DEF ReplayInv, Init
<1>5. ASSUME NEW c \in Clients PROVE ClientInv(c)
  <2>1. Pipe(c) = <<>> /\ Len(Pipe(c)) = 0 /\ lane[c] = <<>>
    BY DEF Init, Pipe
  <2>2. \A k \in Keys : ~Showing(c, k) /\ shown[c][k] = NoEntry
    BY DEF Init, Showing
  <2>3. FrameInv(c) /\ LayoutInv(c) /\ SingleInv(c)
    BY <2>1 DEF FrameInv, LayoutInv, SingleInv
  <2>4. MirrorInv(c) /\ ImageInv(c)
    BY <1>2, <2>2 DEF MirrorInv, ImageInv, Init
  <2>5. SizedInv(c) /\ OwedInv(c)
    BY DEF SizedInv, OwedInv, Due, Init
  <2> QED BY <2>3, <2>4, <2>5 DEF ClientInv
<1> QED BY <1>1, <1>3, <1>4, <1>5 DEF SurfaceInv

LEMMA CacheKeyStep ==
    ASSUME SurfaceInv, NEW k \in Keys, NEW face \in Faces, CacheKey(k, face)
    PROVE  SurfaceInv'
<1> DEFINE f == KeyFrame(k, seq + 1, face, era)
<1>1. /\ Types /\ CacheInv /\ ReplayInv /\ \A c \in Clients : ClientInv(c)
      /\ pending = {} /\ owner = Nobody /\ seq < MaxSeq
      /\ seq' = seq + 1 /\ cache' = [cache EXCEPT ![k] = f] /\ pending' = {f}
      /\ UNCHANGED <<era, stage, members, lane, wire, owner, todo, sized, shown, decoding, rebased>>
  BY DEF SurfaceInv, CacheKey, Idle, replayVars, clientVars
<1>2. seq \in Nat /\ era \in Nat /\ k # NoKey
  BY <1>1, Numbers, SurfaceAssumption
<1>3. f \in Frames /\ f.key = k /\ f.seq = seq + 1 /\ f.face = face /\ f.era = era
  BY <1>2 DEF KeyFrame, Frames
<1>4. cache \in [Keys -> Frames]
  BY <1>1 DEF Types
<1> HIDE DEF f
<1>5. cache'[k] = f /\ \A x \in Keys \ {k} : cache'[x] = cache[x]
  BY <1>1, <1>4
<1>6. f # Empty /\ ~IsLayout(f)
  BY <1>2, <1>3 DEF Empty, KeyFrame, IsLayout
<1>7. /\ k \in Cached' /\ \A x \in Keys : x # k => (x \in Cached' <=> x \in Cached)
      /\ Cached \subseteq Cached' /\ Cached \subseteq Keys /\ Cached' \subseteq Keys
  BY <1>5, <1>6 DEF Cached
<1>8. \A x \in Cached : /\ cache[x].key = x /\ cache[x].seq \in 1..seq
                        /\ cache[x].face \in Faces /\ cache[x].era = era
  BY <1>1 DEF CacheInv
<1>9. Types'
  <2>1. seq' \in 0..MaxSeq
    BY <1>1, <1>2, SurfaceAssumption
  <2>2. cache' \in [Keys -> Frames]
    BY <1>1, <1>3, <1>4
  <2> QED BY <1>1, <2>1, <2>2 DEF Types
<1>10. CacheInv'
  <2>1. ASSUME NEW x \in Cached'
        PROVE  /\ cache'[x].key = x /\ cache'[x].seq \in 1..seq'
               /\ cache'[x].face \in Faces /\ cache'[x].era = era'
    <3>1. CASE x = k
      BY <1>1, <1>2, <1>3, <1>5, <3>1
    <3>2. CASE x # k
      <4>1. x \in Cached /\ cache'[x] = cache[x]
        BY <1>5, <1>7, <3>2
      <4> QED BY <1>1, <1>2, <1>8, <4>1
    <3> QED BY <3>1, <3>2
  <2>2. f \in pending' /\ pending' = {f} /\ f \in Frames /\ f.era = era' /\ ~IsLayout(f) /\ f = cache'[f.key]
    BY <1>1, <1>3, <1>5, <1>6
  <2> QED BY <2>1, <2>2 DEF CacheInv
<1>11. ReplayInv'
  BY <1>1, <1>7 DEF ReplayInv
<1>12. ASSUME NEW c \in Clients PROVE ClientInv(c)'
  <2>1. Core(c) /\ SizedInv(c) /\ OwedInv(c)
    BY <1>1 DEF ClientInv, Core
  <2>2. /\ Pipe(c)' = Pipe(c) /\ shown'[c] = shown[c] /\ wire'[c] = wire[c] /\ lane'[c] = lane[c]
        /\ rebased'[c] = rebased[c] /\ decoding'[c] = decoding[c] /\ sized'[c] = sized[c]
    BY <1>1 DEF Pipe
  <2>3. ASSUME NEW x, NEW s, NEW g, Genuine(x, s, g)
        PROVE  /\ s \in 1..seq' /\ g \in Faces
               /\ x \in Cached' => s <= cache'[x].seq /\ (s = cache'[x].seq => g = cache'[x].face)
    <3>1. s \in 1..seq /\ g \in Faces
      BY <2>3 DEF Genuine
    <3>2. CASE x = k
      BY <1>1, <1>2, <1>3, <1>5, <3>1, <3>2
    <3>3. CASE x # k
      <4>1. x \in Cached' => x \in Cached /\ cache'[x] = cache[x]
        BY <1>5, <1>7, <3>3
      <4> QED BY <1>1, <1>2, <2>3, <3>1, <4>1 DEF Genuine
    <3> QED BY <3>2, <3>3
  <2>4. FrameInv(c)'
    <3>1. \A i \in 1..Len(Pipe(c)) : Pipe(c)[i].seq \in Nat
      BY <1>1, PipeType
    <3>2. ASSUME NEW i \in 1..Len(Pipe(c)), NEW g, g = Pipe(c)[i]
          PROVE  /\ g.seq <= seq' /\ rebased[c] <= g.era /\ g.era <= era
                 /\ ~IsLayout(g) => /\ g.seq \in 1..seq' /\ g.face \in Faces
                                    /\ g.key \in Cached' =>
                                         /\ g.seq <= cache'[g.key].seq
                                         /\ g.seq = cache'[g.key].seq => g.face = cache'[g.key].face
      <4>1. /\ g.seq <= seq /\ rebased[c] <= g.era /\ g.era <= era
            /\ ~IsLayout(g) => Genuine(g.key, g.seq, g.face)
        BY <2>1, <3>2 DEF Core, FrameInv
      <4>2. g.seq <= seq'
        BY <1>1, <1>2, <3>1, <3>2, <4>1
      <4> QED BY <2>3, <4>1, <4>2
    <3> QED BY <1>1, <2>2, <3>2 DEF FrameInv, Genuine
  <2>5. LayoutInv(c)' /\ SingleInv(c)'
    BY <2>1, <2>2 DEF Core, LayoutInv, SingleInv
  <2>6. MirrorInv(c)'
    <3>1. ASSUME NEW x \in Keys, Showing(c, x)
          PROVE  /\ Genuine(x, shown[c][x].seq, shown[c][x].face)
                 /\ rebased[c] <= shown[c][x].era
      BY <2>1, <3>1 DEF Core, MirrorInv
    <3>2. \A d \in decoding[c] : Genuine(d.key, d.seq, d.face)
      BY <2>1 DEF Core, MirrorInv
    <3>3. rebased[c] <= era
      BY <2>1 DEF Core, MirrorInv
    <3>4. ASSUME NEW x \in Keys, Showing(c, x)
          PROVE  Genuine(x, shown[c][x].seq, shown[c][x].face)'
      <4> DEFINE s == shown[c][x].seq
      <4> DEFINE g == shown[c][x].face
      <4>1. Genuine(x, s, g)
        BY <3>1, <3>4
      <4>2. /\ s \in 1..seq' /\ g \in Faces
            /\ x \in Cached' => s <= cache'[x].seq /\ (s = cache'[x].seq => g = cache'[x].face)
        BY <2>3, <4>1
      <4> QED BY <2>2, <4>2 DEF Genuine
    <3>5. ASSUME NEW d \in decoding[c] PROVE Genuine(d.key, d.seq, d.face)'
      <4>1. Genuine(d.key, d.seq, d.face)
        BY <3>2
      <4>2. /\ d.seq \in 1..seq' /\ d.face \in Faces
            /\ d.key \in Cached' =>
                 d.seq <= cache'[d.key].seq /\ (d.seq = cache'[d.key].seq => d.face = cache'[d.key].face)
        BY <2>3, <4>1
      <4> QED BY <4>2 DEF Genuine
    <3> QED BY <1>1, <2>2, <3>1, <3>3, <3>4, <3>5 DEF MirrorInv, Showing
  <2>7. ImageInv(c)'
    <3>1. shown[c][k].seq # seq + 1
      BY <1>1, <1>2, <2>1, ShownOld DEF Core
    <3>2. \A x \in Cached' : x = k \/ (x \in Cached /\ cache'[x] = cache[x])
      BY <1>5, <1>7
    <3> QED BY <1>3, <1>5, <2>1, <2>2, <3>1, <3>2 DEF Core, ImageInv
  <2>8. HasLayout(c)' = HasLayout(c)
    BY <2>2 DEF HasLayout
  <2>9. SizedInv(c)'
    BY <1>1, <2>1, <2>2, <2>8 DEF SizedInv
  <2>10. ASSUME NEW x \in Keys, Due(c, x)
         PROVE  IF x \in Cached' THEN Covered(c, x)' ELSE Blanked(c, x)'
    <3>1. CASE x = k
      BY <1>1, <1>5, <1>7, <3>1 DEF Covered
    <3>2. CASE x # k /\ x \in Cached
      <4>1. UnderWay(c, x) \/ (shown[c][x].seq = cache[x].seq /\ ~HasLayout(c))
        BY <1>1, <2>1, <2>10, <3>2 DEF OwedInv, Covered
      <4>2. cache'[x] = cache[x]
        BY <1>5, <3>2
      <4>3. UnderWay(c, x)' <=> UnderWay(c, x)
        BY <2>2, <4>2 DEF UnderWay
      <4>4. Covered(c, x)'
        BY <2>2, <2>8, <4>1, <4>2, <4>3 DEF Covered
      <4> QED BY <1>7, <3>2, <4>4
    <3>3. CASE x # k /\ x \notin Cached
      <4>1. Blanked(c, x)
        BY <2>1, <2>10, <3>3 DEF OwedInv
      <4>2. Wiped(c, x) \/ (~Showing(c, x) /\ \A j \in 1..Len(Pipe(c)) : Pipe(c)[j].key # x)
        BY <1>1, <4>1 DEF Blanked
      <4>3. Blanked(c, x)'
        BY <2>2, <4>2 DEF Blanked, Wiped, Showing
      <4> QED BY <1>7, <3>3, <4>3
    <3> QED BY <3>1, <3>2, <3>3
  <2>11. OwedInv(c)'
    BY <1>1, <2>10 DEF OwedInv, Due
  <2> QED BY <2>4, <2>5, <2>6, <2>7, <2>9, <2>11 DEF ClientInv
<1> QED BY <1>9, <1>10, <1>11, <1>12 DEF SurfaceInv

LEMMA RebaselineStep == SurfaceInv /\ Rebaseline => SurfaceInv'
<1> SUFFICES ASSUME SurfaceInv, Rebaseline PROVE SurfaceInv'
  OBVIOUS
<1> DEFINE f == LayoutFrame(seq, NoFace, era + 1)
<1>1. /\ Types /\ CacheInv /\ ReplayInv /\ \A c \in Clients : ClientInv(c)
      /\ owner = Nobody /\ era < MaxRebaselines
      /\ era' = era + 1 /\ cache' = [k \in Keys |-> Empty] /\ pending' = {f}
      /\ UNCHANGED <<seq, stage, members, lane, wire, owner, todo, sized, shown, decoding, rebased>>
  BY DEF SurfaceInv, Rebaseline, replayVars, clientVars
<1>2. seq \in Nat /\ era \in Nat
  BY <1>1, Numbers
<1>3. f \in Frames /\ IsLayout(f) /\ f.seq = seq /\ f.era = era + 1
  BY <1>2 DEF LayoutFrame, KeyFrame, Frames, IsLayout
<1>4. Cached' = {}
  BY <1>1 DEF Cached
<1> HIDE DEF f
<1>5. Types'
  <2>1. era' \in 0..MaxRebaselines
    BY <1>1, <1>2, SurfaceAssumption
  <2>2. cache' \in [Keys -> Frames]
    BY <1>1, EmptyType
  <2> QED BY <1>1, <2>1, <2>2 DEF Types
<1>6. CacheInv'
  BY <1>1, <1>3, <1>4 DEF CacheInv
<1>7. \A c \in Clients : stage[c] # "replaying"
  BY <1>1, SurfaceAssumption DEF ReplayInv
<1>8. ASSUME NEW c \in Clients PROVE ClientInv(c)'
  <2>1. Core(c) /\ SizedInv(c)
    BY <1>1 DEF ClientInv, Core
  <2>2. /\ Pipe(c)' = Pipe(c) /\ shown'[c] = shown[c] /\ wire'[c] = wire[c] /\ lane'[c] = lane[c]
        /\ rebased'[c] = rebased[c] /\ decoding'[c] = decoding[c] /\ sized'[c] = sized[c]
    BY <1>1 DEF Pipe
  <2>3. FrameInv(c)'
    <3>1. \A i \in 1..Len(Pipe(c)) : Pipe(c)[i].era \in Nat
      BY <1>1, PipeType
    <3>2. \A i \in 1..Len(Pipe(c)) :
             /\ Pipe(c)[i].seq <= seq /\ rebased[c] <= Pipe(c)[i].era /\ Pipe(c)[i].era <= era
             /\ ~IsLayout(Pipe(c)[i]) => Pipe(c)[i].seq \in 1..seq /\ Pipe(c)[i].face \in Faces
      BY <2>1 DEF Core, FrameInv, Genuine
    <3>3. \A i \in 1..Len(Pipe(c)) : Pipe(c)[i].era <= era'
      BY <1>1, <1>2, <3>1, <3>2
    <3> QED BY <1>1, <1>4, <2>2, <3>2, <3>3 DEF FrameInv, Genuine
  <2>4. LayoutInv(c)' /\ SingleInv(c)'
    BY <2>1, <2>2 DEF Core, LayoutInv, SingleInv
  <2>5. MirrorInv(c)'
    <3>1. rebased[c] <= era'
      BY <1>1, <1>2, <2>1, Numbers DEF Core, MirrorInv
    <3> QED BY <1>1, <1>4, <2>1, <2>2, <3>1 DEF Core, MirrorInv, Showing, Genuine
  <2>6. ImageInv(c)'
    BY <1>4 DEF ImageInv
  <2>7. SizedInv(c)'
    BY <1>1, <2>1, <2>2 DEF SizedInv, HasLayout
  <2>8. OwedInv(c)'
    BY <1>1, <1>3, <1>4 DEF OwedInv, Blanked
  <2> QED BY <2>3, <2>4, <2>5, <2>6, <2>7, <2>8 DEF ClientInv
<1>9. todo = {}
  BY <1>1 DEF ReplayInv
<1>10. ReplayInv'
  BY <1>1, <1>9 DEF ReplayInv
<1> QED BY <1>5, <1>6, <1>8, <1>10 DEF SurfaceInv

\* c takes one cached render and its replay, if it moves, moves past that one.
LEMMA KeyClient ==
    ASSUME Types, CacheInv, NEW c \in Clients, ClientInv(c), NEW k \in Cached, Pushed(c, cache[k]),
           stage'[c] = stage[c],
           pending' = pending \/ (pending' = Idle /\ pending = {cache[k]}),
           \A x \in Keys \ {k} : Due(c, x)' => Due(c, x)
    PROVE  ClientInv(c)'
<1>1. Core(c) /\ SizedInv(c) /\ OwedInv(c)
  BY DEF ClientInv, Core
<1>2. Core(c)'
  BY <1>1, KeyCore
<1>3. /\ HasLayout(c)' = HasLayout(c)
      /\ UnderWay(c, k)'
      /\ \A x \in Keys : UnderWay(c, x) => UnderWay(c, x)'
      /\ \A x \in Keys \ {k} : Wiped(c, x) => Wiped(c, x)'
      /\ \A x \in Keys \ {k} : (\A j \in 1..Len(Pipe(c)) : Pipe(c)[j].key # x)
                                 => \A j \in 1..Len(Pipe(c)') : Pipe(c)'[j].key # x
  BY <1>1, KeyOwed
<1>4. cache' = cache /\ shown'[c] = shown[c] /\ sized'[c] = sized[c] /\ Cached' = Cached
  BY DEF Pushed, Unread, Steady, Cached
<1>5. /\ k \in Keys /\ ~IsLayout(cache[k])
      /\ \A x \in Cached : x \in Keys /\ cache[x].key = x
  BY CachedFrame
<1>6. SizedInv(c)'
  BY <1>1, <1>3, <1>4 DEF SizedInv
<1>7. ASSUME NEW x \in Keys, Due(c, x)'
      PROVE  IF x \in Cached' THEN Covered(c, x)' ELSE Blanked(c, x)'
  <2>1. CASE x = k
    BY <1>3, <1>4, <2>1 DEF Covered
  <2>2. CASE x # k /\ x \in Cached
    <3>1. Covered(c, x)
      BY <1>1, <1>7, <2>2 DEF OwedInv
    <3>2. ASSUME pending = {cache[x]} PROVE Covered(c, x)'
      <4>1. pending # {cache[k]}
        BY <1>5, <2>2, <3>2
      <4> QED BY <1>4, <3>2, <4>1 DEF Covered
    <3>3. ASSUME UnderWay(c, x) \/ (shown[c][x].seq = cache[x].seq /\ ~HasLayout(c))
          PROVE  Covered(c, x)'
      BY <1>3, <1>4, <3>3 DEF Covered
    <3>4. Covered(c, x)'
      BY <3>1, <3>2, <3>3 DEF Covered
    <3> QED BY <1>4, <2>2, <3>4
  <2>3. CASE x # k /\ x \notin Cached
    <3>1. Blanked(c, x)
      BY <1>1, <1>7, <2>3 DEF OwedInv
    <3>2. ASSUME \E f \in pending : IsLayout(f) PROVE Blanked(c, x)'
      <4>1. pending' = pending
        BY <1>5, <3>2
      <4> QED BY <3>2, <4>1 DEF Blanked
    <3>3. ASSUME Wiped(c, x) PROVE Blanked(c, x)'
      BY <1>3, <2>3, <3>3 DEF Blanked
    <3>4. ASSUME ~Showing(c, x), \A j \in 1..Len(Pipe(c)) : Pipe(c)[j].key # x
          PROVE  Blanked(c, x)'
      <4>1. \A j \in 1..Len(Pipe(c)') : Pipe(c)'[j].key # x
        BY <1>3, <2>3, <3>4
      <4>2. ~Showing(c, x)'
        BY <1>4, <3>4 DEF Showing
      <4> QED BY <4>1, <4>2 DEF Blanked
    <3>5. Blanked(c, x)'
      BY <3>1, <3>2, <3>3, <3>4 DEF Blanked
    <3> QED BY <1>4, <2>3, <3>5
  <2> QED BY <2>1, <2>2, <2>3
<1>8. OwedInv(c)'
  BY <1>7 DEF OwedInv
<1> QED BY <1>2, <1>6, <1>8 DEF ClientInv, Core

LEMMA BroadcastStep == SurfaceInv /\ BroadcastPending => SurfaceInv'
<1> SUFFICES ASSUME SurfaceInv, BroadcastPending PROVE SurfaceInv'
  OBVIOUS
<1>1. /\ Types /\ CacheInv /\ ReplayInv /\ \A c \in Clients : ClientInv(c)
      /\ pending # Idle /\ pending' = Idle /\ Steady
      /\ UNCHANGED <<seq, era, cache, stage, members, wire, owner, todo, sized, shown, decoding, rebased>>
  BY DEF SurfaceInv, BroadcastPending, replayVars, clientVars, Steady
<1>2. PICK f \in Frames : /\ pending = {f} /\ f.era = era
                          /\ IF IsLayout(f) THEN f.seq = seq /\ Cached = {} ELSE f = cache[f.key]
  BY <1>1 DEF CacheInv
<1>3. f = CHOOSE g \in pending : TRUE
  BY <1>2
<1>4. lane' = [c \in Clients |-> IF c \in members THEN Push(lane[c], f) ELSE lane[c]]
  BY <1>3 DEF BroadcastPending
<1>5. \A c \in Clients : lane'[c] = IF c \in members THEN Push(lane[c], f) ELSE lane[c]
  BY <1>4
<1>6. Cached' = Cached
  BY <1>1 DEF Cached
<1>7. ASSUME NEW c \in Clients PROVE ClientInv(c)' /\ lane'[c] \in Seq(Frames)
  <2>1. Core(c) /\ SizedInv(c) /\ OwedInv(c)
    BY <1>1 DEF ClientInv, Core
  <2>2. CASE c \notin members
    <3>1. Still(c)
      BY <1>1, <1>5, <2>2 DEF Still, Unread
    <3>2. Core(c)'
      BY <1>1, <2>1, <3>1, StillCore
    <3>3. stage'[c] \notin {"replaying", "serving"}
      BY <1>1, <2>2 DEF ReplayInv
    <3>4. SizedInv(c)' /\ OwedInv(c)'
      BY <3>3 DEF SizedInv, OwedInv, Due
    <3>5. lane'[c] \in Seq(Frames)
      BY <1>1, <1>5, <2>2 DEF Types
    <3> QED BY <3>2, <3>4, <3>5 DEF ClientInv, Core
  <2>3. CASE c \in members
    <3>1. Pushed(c, f)
      BY <1>1, <1>5, <2>3 DEF Pushed, Unread
    <3>2. CASE IsLayout(f)
      <4>1. /\ lane'[c] \in Seq(Frames) /\ Core(c)'
            /\ HasLayout(c)' /\ \A x \in Keys : Wiped(c, x)'
        BY <1>1, <1>2, <2>1, <3>1, <3>2, LayoutLands
      <4>2. Cached' = {}
        BY <1>2, <1>6, <3>2
      <4>3. SizedInv(c)' /\ OwedInv(c)'
        BY <4>1, <4>2 DEF SizedInv, OwedInv, Blanked
      <4> QED BY <4>1, <4>3 DEF ClientInv, Core
    <3>3. CASE ~IsLayout(f)
      <4>1. f.key \in Keys /\ f = cache[f.key]
        BY <1>2, <3>3, FrameType DEF IsLayout
      <4>2. f.key \in Cached
        BY <4>1, <3>3 DEF Cached, Empty, KeyFrame, IsLayout
      <4>3. \A x \in Keys : Due(c, x)' => Due(c, x)
        BY <1>1 DEF Due
      <4>4. ClientInv(c)'
        BY <1>1, <1>2, <3>1, <4>1, <4>2, <4>3, KeyClient
      <4>5. lane'[c] \in Seq(Frames)
        BY <1>1, <2>1, <3>1, <4>1, <4>2, KeyLands DEF Core
      <4> QED BY <4>4, <4>5
    <3> QED BY <3>2, <3>3
  <2> QED BY <2>2, <2>3
<1>8. Types'
  <2>1. lane' \in [Clients -> Seq(Frames)]
    BY <1>4, <1>7
  <2> QED BY <1>1, <2>1 DEF Types
<1>9. CacheInv' /\ ReplayInv'
  BY <1>1, <1>6 DEF CacheInv, ReplayInv
<1> QED BY <1>7, <1>8, <1>9 DEF SurfaceInv

\* A step of c's read goroutine that pushes nothing leaves the mirrors alone.
LEMMA GoroutineStep ==
    ASSUME SurfaceInv, NEW c \in Clients, Connect(c) \/ Leave(c) \/ Rejoin(c) \/ ReplayEnd(c)
    PROVE  SurfaceInv'
<1>1. /\ Types /\ CacheInv /\ ReplayInv /\ \A d \in Clients : ClientInv(d)
      /\ UNCHANGED <<seq, cache, era, pending, lane, wire, sized, shown, decoding, rebased>>
  BY DEF SurfaceInv, Connect, Leave, Rejoin, ReplayEnd, managerVars, replayVars, clientVars
<1>2. stage \in [Clients -> {"down", "joined", "replaying", "serving", "away"}]
  BY <1>1 DEF Types
<1>3. \A d \in Clients \ {c} : stage'[d] = stage[d]
  BY <1>2 DEF Connect, Leave, Rejoin, ReplayEnd
<1>4. Cached' = Cached
  BY <1>1 DEF Cached
<1>5. \/ stage[c] # "replaying" /\ stage'[c] \in {"joined", "away"} /\ owner' = owner /\ todo' = todo
      \/ stage[c] = "replaying" /\ stage'[c] = "serving" /\ owner' = Nobody /\ todo = {} /\ todo' = {}
  BY <1>2 DEF Connect, Leave, Rejoin, ReplayEnd, replayVars
<1>6. todo' = todo
  BY <1>5
<1>7. Steady /\ \A d \in Clients : Still(d)
  BY <1>1 DEF Steady, Still, Unread
<1>8. ASSUME NEW d \in Clients PROVE ClientInv(d)'
  <2>1. CASE d # c
    BY <1>1, <1>3, <1>6, <1>7, <2>1, StillClient
  <2>2. CASE d = c
    <3>1. Core(c) /\ SizedInv(c) /\ OwedInv(c)
      BY <1>1 DEF ClientInv, Core
    <3>2. Core(c)' /\ Pipe(c)' = Pipe(c)
      BY <1>7, <3>1, StillCore
    <3>3. CASE stage'[c] \in {"joined", "away"}
      <4>1. SizedInv(c)' /\ OwedInv(c)'
        BY <3>3 DEF SizedInv, OwedInv, Due
      <4> QED BY <2>2, <3>2, <4>1 DEF ClientInv, Core
    <3>4. CASE stage[c] = "replaying" /\ todo = {}
      <4>1. HasLayout(c)' = HasLayout(c)
        BY <3>2 DEF HasLayout
      <4>2. SizedInv(c)'
        BY <1>1, <3>1, <3>4, <4>1 DEF SizedInv
      <4>3. \A x \in Keys : Due(c, x)
        BY <3>4 DEF Due
      <4>4. OwedInv(c)'
        BY <1>1, <1>4, <3>1, <3>2, <4>1, <4>3
           DEF OwedInv, Covered, UnderWay, Blanked, Wiped, Showing
      <4> QED BY <2>2, <3>2, <4>2, <4>4 DEF ClientInv, Core
    <3> QED BY <1>5, <3>3, <3>4
  <2> QED BY <2>1, <2>2
<1>9. Types'
  <2>1. /\ stage' \in [Clients -> {"down", "joined", "replaying", "serving", "away"}]
        /\ members' \in SUBSET Clients
    BY <1>1 DEF Types, Connect, Leave, Rejoin, ReplayEnd
  <2>2. owner' \in Clients \cup {Nobody}
    BY <1>1, <1>5 DEF Types
  <2> QED BY <1>1, <1>6, <2>1, <2>2 DEF Types
<1>10. CacheInv'
  BY <1>1, <1>4 DEF CacheInv
<1>11. ReplayInv'
  <2>1. ASSUME NEW d \in Clients
        PROVE  /\ owner' = d <=> stage'[d] = "replaying"
               /\ stage'[d] \in {"joined", "replaying", "serving"} => d \in members'
    <3>1. /\ owner = d <=> stage[d] = "replaying"
          /\ stage[d] \in {"joined", "replaying", "serving"} => d \in members
      BY <1>1 DEF ReplayInv
    <3>2. owner = c <=> stage[c] = "replaying"
      BY <1>1 DEF ReplayInv
    <3>3. owner' = d <=> stage'[d] = "replaying"
      BY <1>3, <1>5, <3>1, <3>2, SurfaceAssumption
    <3>4. stage'[d] \in {"joined", "replaying", "serving"} => d \in members'
      BY <1>2, <3>1 DEF Connect, Leave, Rejoin, ReplayEnd
    <3> QED BY <3>3, <3>4
  <2>2. todo' \subseteq Cached' /\ (owner' = Nobody => todo' = {})
    BY <1>1, <1>4, <1>5 DEF ReplayInv
  <2> QED BY <2>1, <2>2 DEF ReplayInv
<1> QED BY <1>8, <1>9, <1>10, <1>11 DEF SurfaceInv

\* Only the actor's replay can move: another's would hold mu.
LEMMA ReplayLayoutStep ==
    ASSUME SurfaceInv, NEW c \in Clients, ReplayLayout(c)
    PROVE  SurfaceInv'
<1> DEFINE f == LayoutFrame(seq, NoFace, era)
<1>1. /\ Types /\ CacheInv /\ ReplayInv /\ \A d \in Clients : ClientInv(d)
      /\ stage[c] = "joined" /\ owner = Nobody /\ owner' = c /\ todo' = Cached
      /\ lane' = [lane EXCEPT ![c] = Push(@, f)] /\ stage' = [stage EXCEPT ![c] = "replaying"]
      /\ UNCHANGED <<seq, cache, era, pending, members, wire, sized, shown, decoding, rebased>>
  BY DEF SurfaceInv, ReplayLayout, managerVars, clientVars
<1>2. seq \in Nat /\ era \in Nat
  BY <1>1, Numbers
<1>3. f \in Frames /\ IsLayout(f) /\ f.seq = seq /\ f.era = era
  BY <1>2 DEF LayoutFrame, KeyFrame, Frames, IsLayout
<1> HIDE DEF f
<1>4. lane \in [Clients -> Seq(Frames)]
      /\ stage \in [Clients -> {"down", "joined", "replaying", "serving", "away"}]
  BY <1>1 DEF Types
<1>5. /\ lane'[c] = Push(lane[c], f) /\ stage'[c] = "replaying"
      /\ \A d \in Clients \ {c} : lane'[d] = lane[d] /\ stage'[d] = stage[d]
  BY <1>1, <1>4
<1>6. Cached' = Cached /\ Steady
  BY <1>1 DEF Cached, Steady
<1>7. \A d \in Clients : stage[d] # "replaying"
  BY <1>1, SurfaceAssumption DEF ReplayInv
<1>8. Pushed(c, f)
  BY <1>1, <1>5, <1>6 DEF Pushed, Unread
<1>9. Core(c)
  BY <1>1 DEF ClientInv, Core
<1>10. /\ lane'[c] \in Seq(Frames) /\ Core(c)'
       /\ HasLayout(c)' /\ \A x \in Keys : Wiped(c, x)'
  BY <1>1, <1>3, <1>8, <1>9, LayoutLands
<1>11. ClientInv(c)'
  <2>1. \A x \in Keys : Due(c, x)' => x \notin Cached'
    BY <1>1, <1>5, <1>6 DEF Due
  <2>2. SizedInv(c)' /\ OwedInv(c)'
    BY <1>10, <2>1 DEF SizedInv, OwedInv, Blanked
  <2> QED BY <1>10, <2>2 DEF ClientInv, Core
<1>12. \A d \in Clients \ {c} : ClientInv(d)'
  <2> SUFFICES ASSUME NEW d \in Clients \ {c} PROVE ClientInv(d)'
    OBVIOUS
  <2>1. Still(d)
    BY <1>1, <1>5 DEF Still, Unread
  <2> QED BY <1>1, <1>5, <1>6, <1>7, <2>1, StillClient
<1>13. Types'
  <2>1. lane' \in [Clients -> Seq(Frames)]
    BY <1>1, <1>4, <1>5, <1>10
  <2>2. stage' \in [Clients -> {"down", "joined", "replaying", "serving", "away"}]
    BY <1>1, <1>4
  <2>3. todo' \in SUBSET Keys
    BY <1>1 DEF Cached
  <2> QED BY <1>1, <2>1, <2>2, <2>3 DEF Types
<1>14. CacheInv'
  BY <1>1, <1>6 DEF CacheInv
<1>15. ReplayInv'
  <2>1. c \in members
    BY <1>1 DEF ReplayInv
  <2>2. todo' \subseteq Cached' /\ owner' # Nobody
    BY <1>1, <1>6, SurfaceAssumption
  <2> QED BY <1>1, <1>5, <1>7, <2>1, <2>2 DEF ReplayInv
<1> QED BY <1>11, <1>12, <1>13, <1>14, <1>15 DEF SurfaceInv

LEMMA ReplayKeyStep ==
    ASSUME SurfaceInv, NEW c \in Clients, NEW k \in Keys, ReplayKey(c, k)
    PROVE  SurfaceInv'
<1>1. /\ Types /\ CacheInv /\ ReplayInv /\ \A d \in Clients : ClientInv(d)
      /\ stage[c] = "replaying" /\ k \in todo /\ todo' = todo \ {k}
      /\ lane' = [lane EXCEPT ![c] = Push(@, cache[k])]
      /\ UNCHANGED <<seq, cache, era, pending, owner, stage, members, wire, sized, shown, decoding, rebased>>
  BY DEF SurfaceInv, ReplayKey, managerVars, clientVars
<1>2. lane \in [Clients -> Seq(Frames)] /\ todo \in SUBSET Keys
  BY <1>1 DEF Types
<1>3. lane'[c] = Push(lane[c], cache[k]) /\ \A d \in Clients \ {c} : lane'[d] = lane[d]
  BY <1>1, <1>2
<1>4. Cached' = Cached /\ Steady /\ k \in Cached
  BY <1>1 DEF Cached, Steady, ReplayInv
<1>5. Pushed(c, cache[k])
  BY <1>1, <1>3, <1>4 DEF Pushed, Unread
<1>6. ClientInv(c)'
  <2>1. \A x \in Keys \ {k} : Due(c, x)' => Due(c, x)
    BY <1>1 DEF Due
  <2> QED BY <1>1, <1>4, <1>5, <2>1, KeyClient
<1>7. lane'[c] \in Seq(Frames)
  BY <1>1, <1>4, <1>5, KeyLands DEF ClientInv
<1>8. \A d \in Clients \ {c} : ClientInv(d)'
  <2> SUFFICES ASSUME NEW d \in Clients \ {c} PROVE ClientInv(d)'
    OBVIOUS
  <2>1. Still(d)
    BY <1>1, <1>3 DEF Still, Unread
  <2>2. stage[d] # "replaying"
    BY <1>1 DEF ReplayInv
  <2> QED BY <1>1, <1>4, <2>1, <2>2, StillClient
<1>9. Types'
  <2>1. lane' \in [Clients -> Seq(Frames)]
    BY <1>1, <1>2, <1>3, <1>7
  <2> QED BY <1>1, <1>2, <2>1 DEF Types
<1>10. CacheInv'
  BY <1>1, <1>4 DEF CacheInv
<1>11. ReplayInv'
  BY <1>1, <1>4 DEF ReplayInv
<1> QED BY <1>6, <1>8, <1>9, <1>10, <1>11 DEF SurfaceInv

LEMMA WriteStep ==
    ASSUME SurfaceInv, NEW c \in Clients, Write(c)
    PROVE  SurfaceInv'
<1>1. /\ Types /\ CacheInv /\ ReplayInv /\ \A d \in Clients : ClientInv(d)
      /\ wire' = [wire EXCEPT ![c] = Append(@, Head(lane[c]))] /\ lane' = [lane EXCEPT ![c] = Tail(@)]
      /\ UNCHANGED <<seq, cache, era, pending, owner, todo, stage, members, sized, shown, decoding, rebased>>
  BY DEF SurfaceInv, Write, managerVars, replayVars, clientVars
<1>2. lane \in [Clients -> Seq(Frames)] /\ wire \in [Clients -> Seq(Frames)]
  BY <1>1 DEF Types
<1>3. \A d \in Clients \ {c} : lane'[d] = lane[d] /\ wire'[d] = wire[d]
  BY <1>1, <1>2
<1>4. Cached' = Cached /\ Steady
  BY <1>1 DEF Cached, Steady
<1>5. ClientInv(c)' /\ wire'[c] \in Seq(Frames) /\ lane'[c] \in Seq(Frames)
  BY <1>1, WriteClient
<1>6. \A d \in Clients \ {c} : ClientInv(d)'
  <2> SUFFICES ASSUME NEW d \in Clients \ {c} PROVE ClientInv(d)'
    OBVIOUS
  <2>1. Still(d)
    BY <1>1, <1>3 DEF Still, Unread
  <2> QED BY <1>1, <1>4, <2>1, StillClient
<1>7. Types'
  <2>1. lane' \in [Clients -> Seq(Frames)] /\ wire' \in [Clients -> Seq(Frames)]
    BY <1>1, <1>2, <1>3, <1>5
  <2> QED BY <1>1, <2>1 DEF Types
<1>8. CacheInv' /\ ReplayInv'
  BY <1>1, <1>4 DEF CacheInv, ReplayInv
<1> QED BY <1>5, <1>6, <1>7, <1>8 DEF SurfaceInv

\* The client's own steps keep the types.
LEMMA ClientTypes ==
    ASSUME Types, CacheInv, NEW c \in Clients, ClientInv(c),
           Deliver(c) \/ \E d \in decoding[c] : Decoded(c, d)
    PROVE  /\ sized' \in [Clients -> BOOLEAN] /\ shown' \in [Clients -> [Keys -> Entries]]
           /\ decoding' \in [Clients -> SUBSET Decodes] /\ rebased' \in [Clients -> Nat]
           /\ \A d \in Clients \ {c} : Unread(d)
<1>1. /\ sized \in [Clients -> BOOLEAN] /\ shown \in [Clients -> [Keys -> Entries]]
      /\ decoding \in [Clients -> SUBSET Decodes] /\ rebased \in [Clients -> Nat]
  BY DEF Types
<1>2. CASE Deliver(c)
  <2> DEFINE f == Head(wire[c])
  <2>1. /\ f = Pipe(c)[1] /\ 1 \in 1..Len(Pipe(c))
    BY <1>2, Popped
  <2>2. f \in Frames /\ f.seq \in Nat /\ f.era \in Nat /\ f.key \in Keys \cup {NoKey}
    BY <2>1, PipeType
  <2>3. IF IsLayout(f) THEN ApplyLayout(c, f) ELSE ApplyKey(c, f)
    BY <1>2 DEF Deliver
  <2>4. ~IsLayout(f) => f.seq \in 1..seq /\ f.face \in Faces
    BY <2>1 DEF ClientInv, FrameInv, Genuine
  <2> HIDE DEF f
  <2>5. CASE IsLayout(f)
    <3>1. ApplyLayout(c, f)
      BY <2>3, <2>5
    <3>2. sized' \in [Clients -> BOOLEAN] /\ rebased' \in [Clients -> Nat] /\ decoding' = decoding
      BY <1>1, <2>2, <3>1 DEF ApplyLayout
    <3>3. shown' = [shown EXCEPT ![c] = [k \in Keys |-> IF shown[c][k].seq <= f.seq THEN NoEntry ELSE shown[c][k]]]
      BY <3>1 DEF ApplyLayout
    <3>4. [k \in Keys |-> IF shown[c][k].seq <= f.seq THEN NoEntry ELSE shown[c][k]] \in [Keys -> Entries]
      BY <1>1, EmptyType
    <3>5. shown' \in [Clients -> [Keys -> Entries]]
      BY <1>1, <3>3, <3>4
    <3>6. \A d \in Clients \ {c} : Unread(d)
      BY <1>1, <3>1, <3>3 DEF ApplyLayout, Unread
    <3> QED BY <1>1, <3>2, <3>5, <3>6
  <2>6. CASE ~IsLayout(f)
    <3>1. ApplyKey(c, f) /\ f.key \in Keys
      BY <2>2, <2>3, <2>6 DEF IsLayout
    <3>2. sized' = sized /\ rebased' = rebased
      BY <3>1 DEF ApplyKey
    <3>3. CASE shown' = shown /\ decoding' = decoding
      BY <1>1, <3>2, <3>3 DEF Unread
    <3>4. CASE ~(Showing(c, f.key) /\ f.seq <= shown[c][f.key].seq)
      <4> DEFINE e == [seq |-> f.seq, face |-> f.face, image |-> shown[c][f.key].image, era |-> f.era]
      <4> DEFINE g == [key |-> f.key, seq |-> f.seq, face |-> f.face]
      <4>1. /\ shown' = [shown EXCEPT ![c][f.key] = e]
            /\ decoding' = [decoding EXCEPT ![c] = IF f.face \notin Plain /\ sized[c] THEN @ \cup {g} ELSE @]
        BY <3>1, <3>4 DEF ApplyKey
      <4>2. shown[c][f.key] \in Entries
        BY <1>1, <3>1
      <4>3. e \in Entries
        BY <2>2, <2>4, <2>6, <4>2 DEF Entries
      <4>4. g \in Decodes
        BY <2>2, <2>4, <2>6, <3>1 DEF Decodes
      <4> HIDE DEF e, g
      <4>5. shown' \in [Clients -> [Keys -> Entries]]
        BY <1>1, <3>1, <4>1, <4>3
      <4>6. decoding' \in [Clients -> SUBSET Decodes]
        BY <1>1, <4>1, <4>4
      <4>7. \A d \in Clients \ {c} : shown'[d] = shown[d] /\ decoding'[d] = decoding[d]
        BY <1>1, <4>1
      <4> QED BY <1>1, <3>2, <4>5, <4>6, <4>7 DEF Unread
    <3> QED BY <3>1, <3>3, <3>4 DEF ApplyKey
  <2> QED BY <2>5, <2>6
<1>3. CASE \E d \in decoding[c] : Decoded(c, d)
  <2>1. PICK d \in decoding[c] : Decoded(c, d)
    BY <1>3
  <2>2. d.key \in Keys /\ d.face \in Faces
    BY <1>1 DEF Decodes
  <2>3. sized' = sized /\ rebased' = rebased /\ decoding' = [decoding EXCEPT ![c] = @ \ {d}]
    BY <2>1 DEF Decoded
  <2>4. decoding' \in [Clients -> SUBSET Decodes]
    BY <1>1, <2>3
  <2>5. shown' = shown \/ shown' = [shown EXCEPT ![c][d.key].image = d.face]
    BY <2>1 DEF Decoded
  <2>6. shown[c][d.key] \in Entries
    BY <1>1, <2>2
  <2>7. [shown[c][d.key] EXCEPT !.image = d.face] \in Entries
    BY <2>2, <2>6 DEF Entries
  <2>8. shown' \in [Clients -> [Keys -> Entries]]
    <3> DEFINE e == [shown[c][d.key] EXCEPT !.image = d.face]
    <3>1. CASE shown' = shown
      BY <1>1, <3>1
    <3>2. CASE shown' = [shown EXCEPT ![c][d.key].image = d.face]
      <4>1. shown' = [shown EXCEPT ![c] = [shown[c] EXCEPT ![d.key] = e]]
        BY <3>2
      <4>2. shown[c] \in [Keys -> Entries]
        BY <1>1
      <4> HIDE DEF e
      <4>3. [shown[c] EXCEPT ![d.key] = e] \in [Keys -> Entries]
        BY <2>2, <2>7, <4>2 DEF e
      <4> QED BY <1>1, <4>1, <4>3
    <3> QED BY <2>5, <3>1, <3>2
  <2>9. \A e \in Clients \ {c} : shown'[e] = shown[e] /\ decoding'[e] = decoding[e]
    BY <1>1, <2>3, <2>5
  <2> QED BY <1>1, <2>3, <2>4, <2>8, <2>9 DEF Unread
<1> QED BY <1>2, <1>3

LEMMA ClientStep ==
    ASSUME SurfaceInv, NEW c \in Clients, Deliver(c) \/ \E d \in decoding[c] : Decoded(c, d)
    PROVE  SurfaceInv'
<1>1. /\ Types /\ CacheInv /\ ReplayInv /\ \A d \in Clients : ClientInv(d)
      /\ UNCHANGED <<seq, cache, era, pending, owner, todo, stage, members, lane>>
  BY DEF SurfaceInv, Deliver, Decoded, managerVars, replayVars
<1>2. wire' \in [Clients -> Seq(Frames)] /\ \A d \in Clients \ {c} : wire'[d] = wire[d]
  <2>1. wire \in [Clients -> Seq(Frames)]
    BY <1>1 DEF Types
  <2>2. CASE Deliver(c)
    <3>1. wire' = [wire EXCEPT ![c] = Tail(@)]
      BY <2>2 DEF Deliver
    <3>2. wire'[c] \in Seq(Frames)
      BY <1>1, <2>2, Popped
    <3> QED BY <2>1, <3>1, <3>2
  <2>3. CASE \E d \in decoding[c] : Decoded(c, d)
    <3>1. wire' = wire
      BY <2>3 DEF Decoded
    <3> QED BY <2>1, <3>1
  <2> QED BY <2>2, <2>3
<1>3. Steady /\ Cached' = Cached
  BY <1>1 DEF Steady, Cached
<1>4. /\ sized' \in [Clients -> BOOLEAN] /\ shown' \in [Clients -> [Keys -> Entries]]
      /\ decoding' \in [Clients -> SUBSET Decodes] /\ rebased' \in [Clients -> Nat]
      /\ \A d \in Clients \ {c} : Unread(d)
  BY <1>1, ClientTypes
<1>5. ClientInv(c)'
  BY <1>1, LayoutHandled, KeyHandled, DecodeHandled
<1>6. \A d \in Clients \ {c} : ClientInv(d)'
  <2> SUFFICES ASSUME NEW d \in Clients \ {c} PROVE ClientInv(d)'
    OBVIOUS
  <2>1. Still(d)
    BY <1>1, <1>2, <1>4 DEF Still
  <2> QED BY <1>1, <1>3, <2>1, StillClient
<1>7. Types'
  BY <1>1, <1>2, <1>4 DEF Types
<1>8. CacheInv' /\ ReplayInv'
  BY <1>1, <1>3 DEF CacheInv, ReplayInv
<1> QED BY <1>5, <1>6, <1>7, <1>8 DEF SurfaceInv

\* The client forgets its surface; bitmaps already being decoded stay genuine.
LEMMA DisconnectStep ==
    ASSUME SurfaceInv, NEW c \in Clients, Disconnect(c)
    PROVE  SurfaceInv'
<1>1. /\ Types /\ CacheInv /\ ReplayInv /\ \A d \in Clients : ClientInv(d)
      /\ UNCHANGED <<seq, cache, era, pending, decoding>>
      /\ stage' = [stage EXCEPT ![c] = "down"] /\ members' = members \ {c}
      /\ owner' = IF owner = c THEN Nobody ELSE owner
      /\ todo' = IF owner = c THEN {} ELSE todo
      /\ lane' = [lane EXCEPT ![c] = <<>>] /\ wire' = [wire EXCEPT ![c] = <<>>]
      /\ sized' = [sized EXCEPT ![c] = FALSE]
      /\ shown' = [shown EXCEPT ![c] = [k \in Keys |-> NoEntry]]
      /\ rebased' = [rebased EXCEPT ![c] = 0]
  BY DEF SurfaceInv, Disconnect, managerVars
<1>2. /\ stage \in [Clients -> {"down", "joined", "replaying", "serving", "away"}]
      /\ lane \in [Clients -> Seq(Frames)] /\ wire \in [Clients -> Seq(Frames)]
      /\ sized \in [Clients -> BOOLEAN] /\ shown \in [Clients -> [Keys -> Entries]]
      /\ rebased \in [Clients -> Nat]
  BY <1>1 DEF Types
<1>3. <<>> \in Seq(Frames) /\ [k \in Keys |-> NoEntry] \in [Keys -> Entries]
  BY EmptyType
<1>4. /\ stage' \in [Clients -> {"down", "joined", "replaying", "serving", "away"}]
      /\ lane' \in [Clients -> Seq(Frames)] /\ wire' \in [Clients -> Seq(Frames)]
      /\ sized' \in [Clients -> BOOLEAN] /\ shown' \in [Clients -> [Keys -> Entries]]
      /\ rebased' \in [Clients -> Nat]
  BY <1>1, <1>2, <1>3
<1>5. /\ stage'[c] = "down" /\ lane'[c] = <<>> /\ wire'[c] = <<>> /\ rebased'[c] = 0
      /\ \A k \in Keys : shown'[c][k] = NoEntry
  BY <1>1, <1>2
<1>6. \A d \in Clients \ {c} : Still(d) /\ stage'[d] = stage[d]
  BY <1>1, <1>2 DEF Still, Unread
<1>7. Steady /\ Cached' = Cached
  BY <1>1 DEF Steady, Cached
<1>8. \A d \in Clients : owner = d <=> stage[d] = "replaying"
  BY <1>1 DEF ReplayInv
<1>9. ClientInv(c)'
  <2>1. Pipe(c)' = <<>> /\ Len(Pipe(c)') = 0 /\ Len(lane'[c]) = 0
    BY <1>5 DEF Pipe
  <2>2. FrameInv(c)' /\ LayoutInv(c)' /\ SingleInv(c)'
    BY <2>1 DEF FrameInv, LayoutInv, SingleInv
  <2>3. MirrorInv(c)'
    <3>1. \A d \in decoding[c] : Genuine(d.key, d.seq, d.face)
      BY <1>1 DEF ClientInv, MirrorInv
    <3>2. era \in Nat
      BY <1>1, Numbers
    <3> QED BY <1>1, <1>5, <1>7, <3>1, <3>2 DEF MirrorInv, Showing, Genuine
  <2>4. ImageInv(c)'
    <3>1. \A k \in Cached : k \in Keys /\ cache[k].seq \in 1..seq
      BY <1>1, CachedFrame
    <3>2. \A k \in Cached : shown'[c][k].seq # cache[k].seq
      BY <1>5, <3>1 DEF NoEntry
    <3> QED BY <1>1, <1>7, <3>2 DEF ImageInv
  <2>5. SizedInv(c)' /\ OwedInv(c)'
    BY <1>5 DEF SizedInv, OwedInv, Due
  <2> QED BY <2>2, <2>3, <2>4, <2>5 DEF ClientInv
<1>10. \A d \in Clients \ {c} : ClientInv(d)'
  <2> SUFFICES ASSUME NEW d \in Clients \ {c} PROVE ClientInv(d)'
    OBVIOUS
  <2>1. stage[d] = "replaying" => todo' = todo
    BY <1>1, <1>8
  <2> QED BY <1>1, <1>6, <1>7, <2>1, StillClient
<1>11. Types'
  BY <1>1, <1>4 DEF Types
<1>12. CacheInv'
  BY <1>1, <1>7 DEF CacheInv
<1>13. ReplayInv'
  <2>1. \A d \in Clients : owner' = d <=> stage'[d] = "replaying"
    BY <1>1, <1>5, <1>6, <1>8, SurfaceAssumption
  <2>2. \A d \in Clients : stage'[d] \in {"joined", "replaying", "serving"} => d \in members'
    BY <1>1, <1>5, <1>6 DEF ReplayInv
  <2>3. todo' \subseteq Cached' /\ (owner' = Nobody => todo' = {})
    BY <1>1, <1>7 DEF ReplayInv
  <2> QED BY <2>1, <2>2, <2>3 DEF ReplayInv
<1> QED BY <1>9, <1>10, <1>11, <1>12, <1>13 DEF SurfaceInv

LEMMA SurfaceStep == SurfaceInv /\ [Next]_vars => SurfaceInv'
<1> SUFFICES ASSUME SurfaceInv, [Next]_vars PROVE SurfaceInv'
  OBVIOUS
<1>1. ASSUME NEW k \in Keys, NEW face \in Faces, CacheKey(k, face) PROVE SurfaceInv'
  BY <1>1, CacheKeyStep
<1>2. CASE Rebaseline
  BY <1>2, RebaselineStep
<1>3. CASE BroadcastPending
  BY <1>3, BroadcastStep
<1>4. ASSUME NEW c \in Clients, Connect(c) \/ Leave(c) \/ Rejoin(c) \/ ReplayEnd(c)
      PROVE  SurfaceInv'
  BY <1>4, GoroutineStep
<1>5. ASSUME NEW c \in Clients, ReplayLayout(c) PROVE SurfaceInv'
  BY <1>5, ReplayLayoutStep
<1>6. ASSUME NEW c \in Clients, NEW k \in Keys, ReplayKey(c, k) PROVE SurfaceInv'
  BY <1>6, ReplayKeyStep
<1>7. ASSUME NEW c \in Clients, Write(c) PROVE SurfaceInv'
  BY <1>7, WriteStep
<1>8. ASSUME NEW c \in Clients, Deliver(c) \/ \E d \in decoding[c] : Decoded(c, d)
      PROVE  SurfaceInv'
  BY <1>8, ClientStep
<1>9. ASSUME NEW c \in Clients, Disconnect(c) PROVE SurfaceInv'
  BY <1>9, DisconnectStep
<1>10. CASE UNCHANGED vars
  <2>1. /\ UNCHANGED <<seq, cache, era, pending, owner, todo, stage, members, lane, wire,
                       sized, shown, decoding, rebased>>
        /\ Types /\ CacheInv /\ ReplayInv /\ \A c \in Clients : ClientInv(c)
    BY <1>10 DEF vars, SurfaceInv
  <2>2. Steady /\ Cached' = Cached /\ \A c \in Clients : Still(c)
    BY <2>1 DEF Steady, Cached, Still, Unread
  <2>3. \A c \in Clients : ClientInv(c)'
    BY <2>1, <2>2, StillClient
  <2>4. Types' /\ CacheInv' /\ ReplayInv'
    BY <2>1, <2>2 DEF Types, CacheInv, ReplayInv
  <2> QED BY <2>3, <2>4 DEF SurfaceInv
<1> QED BY <1>1, <1>2, <1>3, <1>4, <1>5, <1>6, <1>7, <1>8, <1>9, <1>10 DEF Next

-----------------------------------------------------------------------------
(* The theorems *)

\* SurfaceInv holds in every reachable state: whoever is owed the surface has
\* it shown, under way or about to be broadcast, and no frame from before a
\* layout can be handled after it.
THEOREM Invariance == Spec => []SurfaceInv
<1> QED BY SurfaceBegins, SurfaceStep, PTL DEF Spec

\* A lane holds at most one frame for each key and one layout.
LEMMA LaneBound ==
    ASSUME Types, NEW c \in Clients, SingleInv(c)
    PROVE  Len(lane[c]) <= Cardinality(Keys) + 1
<1> DEFINE q == lane[c]
<1> DEFINE S == 1..Len(q)
<1> DEFINE T == Keys \cup {NoKey}
<1> DEFINE key == [i \in S |-> q[i].key]
<1>1. q \in Seq(Frames) /\ Len(q) \in Nat
  BY ElementIn DEF Types
<1>2. \A i \in S : q[i].key \in T
  BY <1>1, ElementIn, FrameType
<1>3. \A i, j \in S : q[i].key = q[j].key => i = j
  BY DEF SingleInv
<1>4. IsFiniteSet(T) /\ Cardinality(T) = Cardinality(Keys) + 1
  BY SurfaceAssumption, FS_AddElement
<1>5. IsFiniteSet(S) /\ Cardinality(S) = Len(q)
  <2>1. 1 \in Int /\ Len(q) \in Int
    BY <1>1
  <2>2. IsFiniteSet(S) /\ Cardinality(S) = IF 1 > Len(q) THEN 0 ELSE Len(q) - 1 + 1
    BY <2>1, FS_Interval
  <2> QED BY <1>1, <2>2
<1> HIDE DEF q, T
<1>6. key \in [S -> T] /\ \A i, j \in S : key[i] = key[j] => i = j
  BY <1>2, <1>3
<1>7. key \in Injection(S, T)
  BY <1>6 DEF Injection, IsInjective
<1>8. Cardinality(S) <= Cardinality(T)
  BY <1>4, <1>7, FS_Injection
<1> QED BY <1>4, <1>5, <1>8 DEF q

\* However fast Companion renders and however slowly a client drains, a lane
\* never outgrows one surface; and every variable has its type.
THEOREM TypeCorrect == Spec => []TypeOK
<1>1. SurfaceInv => TypeOK
  <2> SUFFICES ASSUME SurfaceInv PROVE TypeOK
    OBVIOUS
  <2>1. Types /\ CacheInv /\ \A c \in Clients : ClientInv(c)
    BY DEF SurfaceInv
  <2>2. pending \in SUBSET Frames
    BY <2>1 DEF CacheInv, Idle
  <2>3. \A c \in Clients : wire[c] \in Seq(Frames) /\ lane[c] \in Seq(Frames)
    BY <2>1 DEF Types
  <2>4. \A c \in Clients : decoding[c] \subseteq Decodes
    BY <2>1 DEF Types
  <2>5. \A c \in Clients : Len(lane[c]) <= Cardinality(Keys) + 1
    BY <2>1, LaneBound DEF ClientInv
  <2> QED BY <2>1, <2>2, <2>3, <2>4, <2>5 DEF TypeOK, Types
<1> QED BY <1>1, Invariance, PTL

\* With nothing left to reach it, a client shows the cached face of every key,
\* with its own bitmap, and no key that was blanked: for any interleaving of
\* renders, re-baselines, replays, reconnections, deliveries and decodes.
THEOREM Settled == Spec => []SettledSurface
<1>1. SurfaceInv => SettledSurface
  <2> SUFFICES ASSUME SurfaceInv, NEW c \in Clients, AtRest(c)
               PROVE  SameFaces(c) /\ SameImages(c)
    BY DEF SettledSurface
  <2>1. Types /\ CacheInv /\ ClientInv(c)
    BY DEF SurfaceInv
  <2>2. /\ stage[c] = "serving" /\ pending = {} /\ decoding[c] = {}
        /\ Len(Pipe(c)) = 0
    BY DEF AtRest, Idle, Pipe
  <2>3. ~HasLayout(c) /\ sized[c]
    BY <2>1, <2>2 DEF ClientInv, SizedInv, HasLayout
  <2>4. \A k \in Keys : Due(c, k)
    BY <2>2 DEF Due
  <2>5. ASSUME NEW k \in Cached PROVE shown[c][k].seq = cache[k].seq /\ shown[c][k].face = cache[k].face
    <3>1. k \in Keys /\ cache[k].seq \in 1..seq
      BY <2>1, CachedFrame
    <3>2. Covered(c, k)
      BY <2>1, <2>4, <3>1 DEF ClientInv, OwedInv
    <3>3. shown[c][k].seq = cache[k].seq
      BY <2>2, <3>2 DEF Covered, UnderWay
    <3>4. Showing(c, k)
      BY <3>1, <3>3 DEF Showing, NoEntry
    <3>5. shown[c][k].face = cache[k].face
      BY <2>1, <3>1, <3>3, <3>4 DEF ClientInv, MirrorInv, Genuine
    <3> QED BY <3>3, <3>5
  <2>6. ASSUME NEW k \in Keys, k \notin Cached PROVE shown[c][k].face = cache[k].face
    <3>1. Blanked(c, k)
      BY <2>1, <2>4, <2>6 DEF ClientInv, OwedInv
    <3>2. shown[c][k] = NoEntry
      BY <2>2, <3>1 DEF Blanked, Wiped, Showing
    <3> QED BY <2>6, <3>2 DEF Cached, Empty, KeyFrame, NoEntry
  <2>7. SameFaces(c)
    BY <2>5, <2>6 DEF SameFaces
  <2>8. SameImages(c)
    BY <2>1, <2>2, <2>3, <2>5 DEF ClientInv, ImageInv, SameImages
  <2> QED BY <2>7, <2>8
<1> QED BY <1>1, Invariance, PTL

\* Once a client has handled a layout, no render of before it is shown again.
THEOREM Final == Spec => []NoResurrection
<1>1. SurfaceInv => NoResurrection
  <2> SUFFICES ASSUME SurfaceInv, NEW c \in Clients, NEW k \in Keys, Showing(c, k)
               PROVE  shown[c][k].era >= rebased[c]
    BY DEF NoResurrection
  <2>1. Types /\ MirrorInv(c)
    BY DEF SurfaceInv, ClientInv
  <2>2. rebased[c] <= shown[c][k].era
    BY <2>1 DEF MirrorInv
  <2> QED BY <2>1, <2>2, Numbers
<1> QED BY <1>1, Invariance, PTL

-----------------------------------------------------------------------------
(* Renders arrive in the order they were sent *)

\* No frame under way to c is older than what c shows of its key, nor than a
\* frame of that key ahead of it.
InOrderFor(c) ==
    \A j \in 1..Len(Pipe(c)) :
        LET g == Pipe(c)[j] IN
        ~IsLayout(g) =>
            /\ shown[c][g.key].seq <= g.seq
            /\ \A i \in 1..j : Pipe(c)[i].key = g.key => Pipe(c)[i].seq <= g.seq

InOrder == \A c \in Clients : InOrderFor(c)

\* A mirror that shows the same renders, over the same pipe.
LEMMA StillInOrder ==
    ASSUME Types, NEW c \in Clients, InOrderFor(c), Pipe(c)' = Pipe(c),
           \A x \in Keys : shown'[c][x].seq = shown[c][x].seq
    PROVE  InOrderFor(c)'
<1>1. \A j \in 1..Len(Pipe(c)) : ~IsLayout(Pipe(c)[j]) => Pipe(c)[j].key \in Keys
  BY PipeType DEF IsLayout
<1> QED BY <1>1 DEF InOrderFor, IsLayout

\* A cached render is the newest of its key.
LEMMA KeyInOrder ==
    ASSUME Types, CacheInv, NEW c \in Clients, Core(c), NEW k \in Cached, Pushed(c, cache[k]),
           InOrderFor(c)
    PROVE  InOrderFor(c)'
<1> DEFINE P == Pipe(c)
           R == Pipe(c)'
           f == cache[k]
           L == Len(wire[c])
<1>1. /\ lane'[c] \in Seq(Frames) /\ SingleInv(c)'
      /\ \E n \in Nat : n > L /\ Arrives(P, R, n, f)
  BY KeyLands DEF Core
<1>2. PICK n \in Nat : n > L /\ Arrives(P, R, n, f)
  BY <1>1
<1>3. k \in Keys /\ f.key = k /\ ~IsLayout(f) /\ f.seq \in Nat
  BY CachedFrame, Numbers
<1>4. wire'[c] = wire[c] /\ shown'[c] = shown[c]
  BY DEF Pushed, Unread
<1>5. /\ wire[c] \in Seq(Frames) /\ L \in Nat /\ Len(P) \in Nat
      /\ \A i \in 1..Len(P) : P[i].seq \in Nat /\ P[i].key \in Keys \cup {NoKey}
  BY PipeType
<1>6. /\ Len(R) = L + Len(lane'[c]) /\ Len(lane'[c]) \in Nat
      /\ \A i \in 1..Len(lane'[c]) : R[L + i] = lane'[c][i]
  <2>1. R = wire[c] \o lane'[c]
    BY <1>4 DEF Pipe
  <2> DEFINE w == wire[c]
             q == lane'[c]
  <2>2. w \in Seq(Frames) /\ q \in Seq(Frames)
    BY <1>1, <1>5
  <2> HIDE DEF w, q
  <2>3. /\ Len(w \o q) = Len(w) + Len(q) /\ Len(q) \in Nat
        /\ \A i \in 1..Len(q) : (w \o q)[Len(w) + i] = q[i]
    BY <2>2, JoinAt
  <2> HIDE DEF R
  <2> QED BY <2>1, <2>3 DEF w, q
<1>7. \A i, j \in 1..Len(lane'[c]) : lane'[c][i].key = lane'[c][j].key => i = j
  BY <1>1 DEF SingleInv
<1>8. shown[c][k].seq \in Nat /\ shown[c][k].seq <= f.seq
  <2>1. CASE Showing(c, k)
    BY <1>3, <2>1, Numbers DEF Core, MirrorInv, Genuine
  <2>2. CASE ~Showing(c, k)
    BY <1>3, <2>2 DEF Showing, NoEntry
  <2> QED BY <2>1, <2>2
<1>9. \A i \in 1..Len(P) : P[i].key = k => P[i].seq <= f.seq
  <2> SUFFICES ASSUME NEW i \in 1..Len(P), P[i].key = k PROVE P[i].seq <= f.seq
    OBVIOUS
  <2>1. ~IsLayout(P[i])
    BY <1>3, SurfaceAssumption DEF IsLayout
  <2>2. Genuine(k, P[i].seq, P[i].face)
    BY <2>1 DEF Core, FrameInv
  <2> QED BY <2>2 DEF Genuine
<1>10. \A j \in 1..Len(P) : ~IsLayout(P[j]) =>
          /\ shown[c][P[j].key].seq <= P[j].seq
          /\ \A i \in 1..j : P[i].key = P[j].key => P[i].seq <= P[j].seq
  BY DEF InOrderFor
<1> HIDE DEF P, R, f, L
<1>11. /\ n \in 1..Len(R) /\ R[n].key = k /\ R[n].seq >= f.seq
       /\ R[n] = f \/ (n \in 1..Len(P) /\ R[n] = P[n])
       /\ \A i \in 1..Len(R) : i # n => i \in 1..Len(P) /\ R[i] = P[i]
  BY <1>2, <1>3, <1>5 DEF Arrives
<1>12. R[n].seq = f.seq
  BY <1>3, <1>5, <1>9, <1>11
<1>13. ASSUME NEW j \in 1..Len(R), j > n PROVE R[j].key # k
  <2>1. /\ n - L \in 1..Len(lane'[c]) /\ j - L \in 1..Len(lane'[c])
        /\ n = L + (n - L) /\ j = L + (j - L)
    BY <1>2, <1>5, <1>6, <1>11, <1>13
  <2>2. R[n] = lane'[c][n - L] /\ R[j] = lane'[c][j - L]
    BY <1>6, <2>1
  <2>3. n - L # j - L
    BY <1>5, <1>13
  <2> QED BY <1>7, <1>11, <2>1, <2>2, <2>3
<1>14. ASSUME NEW j \in 1..Len(R), ~IsLayout(R[j])
       PROVE  /\ shown[c][R[j].key].seq <= R[j].seq
              /\ \A i \in 1..j : R[i].key = R[j].key => R[i].seq <= R[j].seq
  <2>1. CASE j = n
    <3>1. ASSUME NEW i \in 1..j, R[i].key = k PROVE R[i].seq <= f.seq
      BY <1>3, <1>9, <1>11, <1>12, <2>1, <3>1
    <3> QED BY <1>8, <1>11, <1>12, <2>1, <3>1
  <2>2. CASE j # n
    <3>1. j \in 1..Len(P) /\ R[j] = P[j] /\ ~IsLayout(P[j])
      BY <1>11, <1>14, <2>2
    <3>2. ASSUME NEW i \in 1..j, R[i].key = R[j].key PROVE R[i].seq <= R[j].seq
      <4>1. i # n
        <5>1. CASE j > n
          BY <1>11, <1>13, <3>2, <5>1
        <5>2. CASE j < n
          BY <5>2
        <5> QED BY <2>2, <5>1, <5>2
      <4>2. R[i] = P[i]
        BY <1>11, <4>1
      <4> QED BY <1>10, <3>1, <3>2, <4>2
    <3> QED BY <1>10, <3>1, <3>2
  <2> QED BY <2>1, <2>2
<1> QED BY <1>4, <1>14 DEF InOrderFor, R, IsLayout

\* A layout leaves only the frames that are on the socket.
LEMMA LayoutInOrder ==
    ASSUME Types, NEW c \in Clients, Core(c), InOrderFor(c),
           NEW f \in Frames, IsLayout(f), f.seq = seq, Pushed(c, f)
    PROVE  InOrderFor(c)'
<1>1. /\ Len(Pipe(c)') = Len(wire[c]) + 1 /\ Pipe(c)'[Len(wire[c]) + 1] = f
      /\ \A i \in 1..Len(wire[c]) : i \in 1..Len(Pipe(c)) /\ Pipe(c)'[i] = Pipe(c)[i]
  BY LayoutInPipe
<1>2. Len(wire[c]) \in Nat
  BY PipeType
<1>3. shown'[c] = shown[c]
  BY DEF Pushed, Unread
<1> DEFINE P == Pipe(c)
           R == Pipe(c)'
           L == Len(wire[c])
<1>4. \A j \in 1..Len(P) : ~IsLayout(P[j]) =>
          /\ shown[c][P[j].key].seq <= P[j].seq
          /\ \A i \in 1..j : P[i].key = P[j].key => P[i].seq <= P[j].seq
  BY DEF InOrderFor
<1>5. ASSUME NEW j \in 1..Len(R), ~IsLayout(R[j])
      PROVE  /\ shown[c][R[j].key].seq <= R[j].seq
             /\ \A i \in 1..j : R[i].key = R[j].key => R[i].seq <= R[j].seq
  <2>1. j \in 1..L
    BY <1>1, <1>2, <1>5
  <2>2. \A i \in 1..j : i \in 1..L
    BY <1>2, <2>1
  <2> HIDE DEF P, R, L
  <2>3. \A i \in 1..L : i \in 1..Len(P) /\ R[i] = P[i]
    BY <1>1 DEF P, R, L
  <2> QED BY <1>4, <1>5, <2>1, <2>2, <2>3
<1> QED BY <1>3, <1>5 DEF InOrderFor, IsLayout

\* The client shows the frame it handles, or drops what a layout covers.
LEMMA DeliverInOrder ==
    ASSUME Types, NEW c \in Clients, InOrderFor(c), Deliver(c)
    PROVE  InOrderFor(c)'
<1> DEFINE P == Pipe(c)
           R == Pipe(c)'
           f == P[1]
<1>1. /\ Len(P) \in Nat \ {0} /\ Len(R) = Len(P) - 1
      /\ \A i \in 1..Len(R) : R[i] = P[i + 1] /\ i + 1 \in 1..Len(P)
      /\ 1 \in 1..Len(P) /\ f = Head(wire[c])
  BY Popped
<1>2. \A i \in 1..Len(P) : /\ P[i].seq \in Nat /\ P[i].key \in Keys \cup {NoKey}
                           /\ ~IsLayout(P[i]) => P[i].key \in Keys
  BY PipeType DEF IsLayout
<1>3. \A j \in 1..Len(P) : ~IsLayout(P[j]) =>
          /\ shown[c][P[j].key].seq <= P[j].seq
          /\ \A i \in 1..j : P[i].key = P[j].key => P[i].seq <= P[j].seq
  BY DEF InOrderFor
<1>4. shown \in [Clients -> [Keys -> Entries]]
  BY DEF Types
<1>5. ASSUME NEW x \in Keys
      PROVE  \/ shown'[c][x].seq = shown[c][x].seq
             \/ shown'[c][x].seq = 0
             \/ x = f.key /\ shown'[c][x].seq = f.seq
  <2>1. IF IsLayout(f) THEN ApplyLayout(c, f) ELSE ApplyKey(c, f)
    BY <1>1 DEF Deliver
  <2> HIDE DEF f
  <2>2. CASE IsLayout(f)
    BY <1>4, <2>1, <2>2 DEF ApplyLayout, NoEntry
  <2>3. CASE ~IsLayout(f)
    <3>1. \/ shown' = shown
          \/ shown' = [shown EXCEPT ![c][f.key] =
                          [seq |-> f.seq, face |-> f.face, image |-> @.image, era |-> f.era]]
      BY <2>1, <2>3 DEF ApplyKey
    <3> QED BY <1>4, <3>1
  <2> QED BY <2>2, <2>3
<1> HIDE DEF P, R, f
<1>6. ASSUME NEW j \in 1..Len(R), ~IsLayout(R[j])
      PROVE  /\ shown'[c][R[j].key].seq <= R[j].seq
             /\ \A i \in 1..j : R[i].key = R[j].key => R[i].seq <= R[j].seq
  <2>1. j + 1 \in 1..Len(P) /\ R[j] = P[j + 1] /\ R[j].seq \in Nat /\ R[j].key \in Keys
    BY <1>1, <1>2, <1>6
  <2>2. shown[c][R[j].key].seq <= R[j].seq
    BY <1>3, <1>6, <2>1
  <2>3. \A i \in 1..j + 1 : P[i].key = R[j].key => P[i].seq <= R[j].seq
    BY <1>3, <1>6, <2>1
  <2>4. f.key = R[j].key => f.seq <= R[j].seq
    BY <2>3 DEF f
  <2>5. ASSUME NEW i \in 1..j, R[i].key = R[j].key PROVE R[i].seq <= R[j].seq
    <3>1. i \in 1..Len(R) /\ i + 1 \in 1..j + 1
      BY <1>1
    <3> QED BY <1>1, <2>3, <2>5, <3>1
  <2> QED BY <1>5, <2>1, <2>2, <2>4, <2>5
<1> QED BY <1>6 DEF InOrderFor, R, IsLayout

LEMMA InOrderStep == SurfaceInv /\ InOrder /\ [Next]_vars => InOrder'
<1> SUFFICES ASSUME SurfaceInv, InOrder, [Next]_vars, NEW d \in Clients PROVE InOrderFor(d)'
  BY DEF InOrder
<1>1. Types /\ CacheInv /\ ReplayInv /\ Core(d) /\ InOrderFor(d)
  BY DEF SurfaceInv, ClientInv, Core, InOrder
<1>2. ASSUME wire'[d] = wire[d], lane'[d] = lane[d],
             \A x \in Keys : shown'[d][x].seq = shown[d][x].seq
      PROVE  InOrderFor(d)'
  BY <1>1, <1>2, StillInOrder DEF Pipe
<1>3. lane \in [Clients -> Seq(Frames)] /\ wire \in [Clients -> Seq(Frames)]
      /\ shown \in [Clients -> [Keys -> Entries]]
  BY <1>1 DEF Types
<1>4. CASE Rebaseline \/ \E k \in Keys, face \in Faces : CacheKey(k, face)
  BY <1>2, <1>4 DEF CacheKey, Rebaseline, clientVars
<1>5. CASE BroadcastPending
  <2>1. /\ pending # Idle /\ Steady /\ Unread(d) /\ wire'[d] = wire[d]
        /\ lane'[d] = IF d \in members THEN Push(lane[d], CHOOSE f \in pending : TRUE) ELSE lane[d]
    BY <1>5 DEF BroadcastPending, Steady, Unread, clientVars
  <2>2. PICK f \in Frames : /\ pending = {f} /\ f.era = era
                            /\ IF IsLayout(f) THEN f.seq = seq /\ Cached = {} ELSE f = cache[f.key]
    BY <1>1, <2>1 DEF CacheInv
  <2>3. f = CHOOSE g \in pending : TRUE
    BY <2>2
  <2>4. CASE d \notin members
    BY <1>2, <2>1, <2>4 DEF Unread
  <2>5. CASE d \in members /\ IsLayout(f)
    BY <1>1, <2>1, <2>2, <2>3, <2>5, LayoutInOrder DEF Pushed
  <2>6. CASE d \in members /\ ~IsLayout(f)
    <3>1. f.key \in Keys /\ f = cache[f.key]
      BY <2>2, <2>6, FrameType DEF IsLayout
    <3>2. f.key \in Cached
      BY <2>6, <3>1 DEF Cached, Empty, KeyFrame, IsLayout
    <3> QED BY <1>1, <2>1, <2>3, <2>6, <3>1, <3>2, KeyInOrder DEF Pushed
  <2> QED BY <2>4, <2>5, <2>6
<1>6. ASSUME NEW c \in Clients, Connect(c) \/ Leave(c) \/ Rejoin(c) \/ ReplayEnd(c)
      PROVE  InOrderFor(d)'
  BY <1>2, <1>6 DEF Connect, Leave, Rejoin, ReplayEnd, clientVars
<1>7. ASSUME NEW c \in Clients, ReplayLayout(c) PROVE InOrderFor(d)'
  <2> DEFINE f == LayoutFrame(seq, NoFace, era)
  <2>1. /\ lane' = [lane EXCEPT ![c] = Push(@, f)]
        /\ UNCHANGED <<seq, cache, era, wire, sized, shown, decoding, rebased>>
    BY <1>7 DEF ReplayLayout, managerVars, clientVars
  <2>2. f \in Frames /\ IsLayout(f) /\ f.seq = seq
    BY <1>1, Numbers DEF LayoutFrame, KeyFrame, Frames, IsLayout
  <2> HIDE DEF f
  <2>3. CASE c = d
    BY <1>1, <1>3, <2>1, <2>2, <2>3, LayoutInOrder DEF Pushed, Steady, Unread
  <2>4. CASE c # d
    BY <1>2, <1>3, <2>1, <2>4
  <2> QED BY <2>3, <2>4
<1>8. ASSUME NEW c \in Clients, NEW k \in Keys, ReplayKey(c, k) PROVE InOrderFor(d)'
  <2>1. /\ k \in Cached /\ lane' = [lane EXCEPT ![c] = Push(@, cache[k])]
        /\ UNCHANGED <<seq, cache, era, wire, sized, shown, decoding, rebased>>
    BY <1>1, <1>8 DEF ReplayKey, ReplayInv, managerVars, clientVars
  <2>2. CASE c = d
    BY <1>1, <1>3, <2>1, <2>2, KeyInOrder DEF Pushed, Steady, Unread
  <2>3. CASE c # d
    BY <1>2, <1>3, <2>1, <2>3
  <2> QED BY <2>2, <2>3
<1>9. ASSUME NEW c \in Clients, Write(c) PROVE InOrderFor(d)'
  <2>1. /\ lane[c] # <<>> /\ wire' = [wire EXCEPT ![c] = Append(@, Head(lane[c]))]
        /\ lane' = [lane EXCEPT ![c] = Tail(@)] /\ shown' = shown
    BY <1>9 DEF Write, clientVars
  <2>2. CASE c = d
    <3> DEFINE w == wire[d]
               q == lane[d]
    <3>1. wire'[d] = Append(w, Head(q)) /\ lane'[d] = Tail(q) /\ q # <<>>
      BY <1>3, <2>1, <2>2
    <3>2. w \in Seq(Frames) /\ q \in Seq(Frames)
      BY <1>3
    <3> HIDE DEF w, q
    <3>3. Append(w, Head(q)) \o Tail(q) = w \o q
      BY <3>1, <3>2
    <3>4. Pipe(d)' = Pipe(d)
      BY <3>1, <3>3 DEF Pipe, w, q
    <3> QED BY <1>1, <2>1, <3>4, StillInOrder
  <2>3. CASE c # d
    BY <1>2, <1>3, <2>1, <2>3
  <2> QED BY <2>2, <2>3
<1>10. ASSUME NEW c \in Clients, Deliver(c) PROVE InOrderFor(d)'
  <2>1. CASE c = d
    BY <1>1, <1>10, <2>1, DeliverInOrder
  <2>2. CASE c # d
    <3>1. Unread(d)
      BY <1>10, <2>2, ClientTypes DEF SurfaceInv
    <3>2. wire' = [wire EXCEPT ![c] = Tail(@)] /\ lane' = lane
      BY <1>10 DEF Deliver
    <3> QED BY <1>2, <1>3, <2>2, <3>1, <3>2 DEF Unread
  <2> QED BY <2>1, <2>2
<1>11. ASSUME NEW c \in Clients, NEW b \in decoding[c], Decoded(c, b) PROVE InOrderFor(d)'
  <2>1. /\ lane' = lane /\ wire' = wire
        /\ \/ shown' = shown
           \/ shown' = [shown EXCEPT ![c][b.key].image = b.face]
    BY <1>11 DEF Decoded
  <2>2. ASSUME NEW x \in Keys PROVE shown'[d][x].seq = shown[d][x].seq
    <3>1. shown[d][x] \in Entries
      BY <1>3
    <3>2. \/ shown'[d][x] = shown[d][x]
          \/ shown'[d][x] = [shown[d][x] EXCEPT !.image = b.face]
      <4>1. b.key \in Keys
        BY <1>1 DEF Types, Decodes
      <4>2. CASE shown' = shown
        BY <4>2
      <4>3. CASE shown' = [shown EXCEPT ![c][b.key].image = b.face]
        <5>1. CASE c = d /\ x = b.key
          BY <1>3, <4>1, <4>3, <5>1
        <5>2. CASE ~(c = d /\ x = b.key)
          BY <1>3, <4>1, <4>3, <5>2
        <5> QED BY <5>1, <5>2
      <4> QED BY <2>1, <4>2, <4>3
    <3>3. [shown[d][x] EXCEPT !.image = b.face].seq = shown[d][x].seq
      BY <3>1 DEF Entries
    <3> QED BY <3>2, <3>3
  <2> QED BY <1>2, <2>1, <2>2
<1>12. ASSUME NEW c \in Clients, Disconnect(c) PROVE InOrderFor(d)'
  <2>1. /\ lane' = [lane EXCEPT ![c] = <<>>] /\ wire' = [wire EXCEPT ![c] = <<>>]
        /\ shown' = [shown EXCEPT ![c] = [k \in Keys |-> NoEntry]]
    BY <1>12 DEF Disconnect
  <2>2. CASE c = d
    <3>1. Pipe(d)' = <<>>
      BY <1>3, <2>1, <2>2 DEF Pipe
    <3> QED BY <3>1 DEF InOrderFor
  <2>3. CASE c # d
    BY <1>2, <1>3, <2>1, <2>3
  <2> QED BY <2>2, <2>3
<1>13. CASE UNCHANGED vars
  BY <1>2, <1>13 DEF vars
<1> QED
  BY <1>4, <1>5, <1>6, <1>7, <1>8, <1>9, <1>10, <1>11, <1>12, <1>13 DEF Next

\* However renders, replays and re-baselines race, the renders of a key reach a
\* client in the order Companion sent them: the sequence checks of applyKey and
\* pushSurfaceKey only ever meet a frame queued twice.
THEOREM Ordered == Spec => []InOrder
<1>1. Init => InOrder
  <2> SUFFICES ASSUME Init, NEW c \in Clients PROVE InOrderFor(c)
    BY DEF InOrder
  <2>1. wire[c] = <<>> /\ lane[c] = <<>>
    BY DEF Init
  <2>2. Pipe(c) = <<>>
    BY <2>1 DEF Pipe
  <2> QED BY <2>2 DEF InOrderFor
<1> QED BY <1>1, InOrderStep, Invariance, PTL DEF Spec
=============================================================================
