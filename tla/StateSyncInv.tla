---------------------------- MODULE StateSyncInv ----------------------------
(***************************************************************************)
(* The inductive invariant behind StateSync's safety properties.  None of  *)
(* them is inductive by itself: what a mirror shows after the next frame   *)
(* depends on what every frame still in flight says, and on what the hub   *)
(* may yet append.  And what makes flat states enough: MergePatch.         *)
(***************************************************************************)
EXTENDS StateSync, MergePatch

\* A connection that is down is as fresh as a new clientConn and a new Session.
Fresh(c) ==
    /\ chan[c] = <<>> /\ written[c] = 0 /\ requests[c] = <<>>
    /\ topics[c] = Topics /\ reader[c] = "idle"
    /\ ~ready[c] /\ mirror[c] = NoMirror /\ ~awaiting[c] /\ heard[c] = NoStamp

\* The stamp a frame was queued after.
Prev(c, i) == IF i = 1 THEN heard[c] ELSE StampOf(chan[c][i - 1])

\* How a frame's stamp may follow the previous one: a snapshot is never older, and
\* a delta is newer and of the same scope.
Follows(p, f) ==
    /\ f.type \in {"hello", "other"} => StampOf(f) = p
    /\ f.type = "state" => f.rev >= p.rev
    /\ f.type = "delta" => f.rev > p.rev /\ f.scope = p.scope

\* Under the full subscription a delta is the very next revision.
InTurn(p, f) == f.type = "delta" /\ p.scope = Topics => f.rev = p.rev + 1

\* What a frame says is what the history says at its revision.
Truthful(f) ==
    /\ f.rev <= rev
    /\ f.type = "state" => f.body = View(hist[f.rev], f.scope)
    /\ f.type = "delta" => f.body = Scoped(Diff(hist[f.rev - 1], hist[f.rev]), f.scope)

\* The first frames of a connection are hello and a snapshot.
Handshake(c) ==
    link[c] # "down" /\ ~mirror[c].have =>
        /\ chan[c] # <<>> /\ ~awaiting[c]
        /\ ready[c] => chan[c][1].type = "state"
        /\ ~ready[c] => /\ Len(chan[c]) >= 2
                        /\ chan[c][1].type = "hello" /\ chan[c][2].type = "state"

\* The mirror against the frames the client has handled.
MirrorInStep(c) ==
    mirror[c].have =>
        /\ ready[c]
        /\ mirror[c].scope = heard[c].scope
        /\ mirror[c].rev <= heard[c].rev
        /\ ~awaiting[c] => mirror[c].rev = heard[c].rev
        /\ mirror[c].data = View(hist[mirror[c].rev], mirror[c].scope)

\* The newest frame queued for a member of the hub has its subscription.
HubScope(c) == c \in hub => Newest(c).scope = topics[c]

\* Nothing is lost on a connection that nobody has closed: no revision is missing
\* from a full subscription's frames, nor has its mirror fallen behind them, and
\* what was published after a member's newest frame is invisible to it.
NothingLost(c) ==
    link[c] = "up" =>
        /\ \A i \in 1..Len(chan[c]) : InTurn(Prev(c, i), chan[c][i])
        /\ mirror[c].have /\ mirror[c].scope = Topics => mirror[c].rev = heard[c].rev
        /\ c \in hub =>
             /\ topics[c] = Topics => Newest(c).rev = rev
             /\ View(hist[Newest(c).rev], topics[c]) = View(store, topics[c])
        /\ reader[c] = "idle" => c \in hub

ChanInv(c) ==
    Serving(c) =>
        /\ heard[c].rev <= rev
        /\ \A i \in 1..Len(chan[c]) : Follows(Prev(c, i), chan[c][i]) /\ Truthful(chan[c][i])
        /\ MirrorInStep(c)
        /\ HubScope(c)
        /\ NothingLost(c)

HistoryInv == hist[rev] = store

LinkInv(c) ==
    /\ link[c] = "down" => Fresh(c)
    /\ c \in hub => Serving(c)
    /\ written[c] <= Len(chan[c])
    /\ mirror[c].have => ready[c]
    /\ ~mirror[c].have => mirror[c] = NoMirror

\* The inductive invariant.
IInv == TypeOK /\ HistoryInv
        /\ \A c \in Clients : LinkInv(c) /\ Handshake(c) /\ ChanInv(c)

-----------------------------------------------------------------------------
\* A patch is empty just when nothing has changed, and a client that applies the
\* part it is subscribed to holds the part of the new document it is subscribed
\* to, whatever was added, removed, nested or replaced (mergepatch.go diff and
\* FilterTopics, protocol.dart applyMergePatch). Stated of the initial state, so
\* that it is evaluated once.
PatchesRebuild == Init => Rebuilds
=============================================================================
