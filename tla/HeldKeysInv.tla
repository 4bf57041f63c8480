----------------------------- MODULE HeldKeysInv -----------------------------
(***************************************************************************)
(* The inductive invariant of HeldKeys.                                    *)
(***************************************************************************)
EXTENDS HeldKeys

\* The session goroutine's teardown order: the socket is closed first, then the
\* queue, and a reader belongs to a session that was dialled.
SessionInv ==
    /\ accepting <=> session \in {"dialed", "pending", "live", "reaping"}
    /\ open => session \in {"dialed", "pending", "live"} /\ writer = "writing"
    /\ \A i \in Sessions : reader[i] # "off" => i <= n
    /\ session \notin {"backoff", "over"} => n > 0

\* Lines accepted and not yet taken by Companion, in order.
Pipe == wireOut \o out

NoAdd(q)  == \A i \in 1..Len(q) : q[i].cmd # "add-device"
OneAdd(q) == \A i, j \in 1..Len(q) :
                q[i].cmd = "add-device" /\ q[j].cmd = "add-device" => i = j

\* The device is added once in a session, so that a surface that is not
\* registered has no key down and never had one.
AddInv ==
    open =>
        /\ OneAdd(Pipe)
        /\ session = "dialed" \/ companion.device # "none" => NoAdd(Pipe)
        /\ session = "dialed" => companion.device = "none"
        /\ companion.device # "added" => companion.down = {}

\* What a connection is pressing it holds; once leaving it only releases.
ClientInv ==
    \A c \in Clients :
        /\ client[c].step # "idle" /\ client[c].op.pressed => client[c].op.key \in client[c].held
        /\ client[c].leaving =>
              client[c].held = {} /\ (client[c].step # "idle" => ~client[c].op.pressed)
        /\ ~client[c].leaving => client[c].todo = {}

\* HoldCovered for every open session, registered or not.
HoldInv ==
    open => \A k \in Keys : WillBeDown(k) => Answerable(k) \/ <<n, k>> \in dropped

IInv == TypeOK /\ SessionInv /\ AddInv /\ ClientInv /\ HoldInv

-----------------------------------------------------------------------------
(* The answers: what the reader has in hand, and what is behind it *)

\* Only the last session's reader is left, and a registration ends with it.
ReaderInv ==
    /\ \A i \in Sessions : i < n => reader[i] = "ended"
    /\ session \in {"flushing", "backoff", "over"} => ~registered /\ (n > 0 => reader[n] = "ended")

Coming(q, a)      == \E i \in 1..Len(q) : q[i] = a
\* No b follows an a; every b follows an a.
NoneAfter(q, a, b) == \A i, j \in 1..Len(q) : i < j /\ q[i] = a => q[j] # b
OnlyAfter(q, a, b) == \A j \in 1..Len(q) : q[j] = b => \E i \in 1..Len(q) : i < j /\ q[i] = a

Arrives(a) == reader[n] = a \/ Coming(wireIn, a)

\* In a session the surface is accepted at most once, nothing is said of its keys
\* before that, and a rejection is the last word on it.
ReplyInv == n > 0 =>
    /\ companion.device = "none" =>
          layout # n /\ ~Arrives("ok") /\ ~Arrives("error") /\ ~Arrives("key-state")
    /\ companion.device = "added" => ~Arrives("error") /\ (layout = n \/ Arrives("ok"))
    /\ companion.device = "refused" =>
          (registered \/ reader[n] = "accepted" \/ Arrives("ok") => Arrives("error"))
    /\ IF layout = n THEN ~Arrives("ok")
       ELSE /\ ~registered /\ reader[n] \notin {"accepted", "key-state"}
            /\ reader[n] = "ok" \/ OnlyAfter(wireIn, "ok", "key-state")
    /\ reader[n] \in {"ok", "error"} => ~Coming(wireIn, "ok")
    /\ NoneAfter(wireIn, "ok", "ok") /\ NoneAfter(wireIn, "error", "ok")

SInv == IInv /\ ReaderInv /\ ReplyInv
=============================================================================
