------------------------------ MODULE Dispatch ------------------------------
(***************************************************************************)
(* Commands from the clients to Companion's buttons (api/client.go         *)
(* handleCmd, api/dispatch.go, companion/client.go).  A connection's read  *)
(* goroutine serves one command at a time: it presses a button over HTTP,  *)
(* retrying what Companion says it did not perform, answers, and then      *)
(* changes the state, which the store broadcasts.  Connections do so side  *)
(* by side, and nothing is locked from the press to the state change.      *)
(*                                                                         *)
(* Companion is external.  A request that the server has given up on may   *)
(* still be performed later.  overlapped and lost are history: no guard    *)
(* reads them.                                                             *)
(***************************************************************************)
EXTENDS Integers, SequencesExt

CONSTANTS Clients,     \* connections
          Values,      \* scenes, presets, stream and recording states
          Unknown,     \* a value nothing has set yet
          MaxRetries,  \* Client.maxRetries
          MaxCommands, \* bound: commands sent on each connection
          MaxFaults    \* bound: refusals, requests without answer, closed connections

ASSUME DispatchAssumption ==
    /\ Unknown \notin Values
    /\ MaxRetries \in Nat /\ MaxCommands \in [Clients -> Nat] /\ MaxFaults \in Nat

VARIABLES
    link,       \* a client's connection: "up", "closing" or "down"
    inbox,      \* commands on their way to the server
    outbox,     \* frames queued for the client since it connected
    serving,    \* what the connection's read goroutine is doing
    request,    \* how the HTTP request of the current attempt stands
    store,      \* the modelled state
    acts,       \* what Companion has performed, in order
    late,       \* commands whose abandoned request may still be performed
    sent,       \* commands sent by each client
    overlapped, \* commands performed while another's state change was due
    lost,       \* commands whose outcome the server did not learn
    faults

vars == <<link, inbox, outbox, serving, request, store, acts, late, sent, overlapped, lost,
          faults>>

-----------------------------------------------------------------------------
\* "set" presses and changes the state, "press" only presses (audio, slides),
\* "noop" does neither (confirm, cancel), "bad" is rejected before any press.
Kinds    == {"set", "press", "noop", "bad"}
Presses  == {"set", "press"}
Commands == {cmd \in [client : Clients, id : Nat, kind : Kinds,
                      value : Values \cup {Unknown}] :
                cmd.kind = "set" <=> cmd.value # Unknown}
Frame(type, cmd) == [type |-> type, cmd |-> cmd]
Frames   == [type : {"ack", "nak", "delta"}, cmd : Commands]

Idle    == [step |-> "idle"]
Pressing(cmd, attempt) == [step |-> "pressing", cmd |-> cmd, attempt |-> attempt]
Recording(cmd) == [step |-> "recording", cmd |-> cmd]
Steps == {Idle} \cup [step : {"recording"}, cmd : Commands]
                \cup [step : {"pressing"}, cmd : Commands, attempt : 0..MaxRetries]

Fault == faults < MaxFaults /\ faults' = faults + 1

Init ==
    /\ link = [c \in Clients |-> "down"] /\ inbox = [c \in Clients |-> <<>>]
    /\ outbox = [c \in Clients |-> <<>>] /\ serving = [c \in Clients |-> Idle]
    /\ request = [c \in Clients |-> "none"]
    /\ store = Unknown /\ acts = <<>> /\ late = {}
    /\ sent = [c \in Clients |-> 0] /\ overlapped = {} /\ lost = {} /\ faults = 0

\* A frame for c's queue; nobody reads it once the connection is closing.
Queue(c, type, cmd) ==
    outbox' = IF link[c] = "up" THEN [outbox EXCEPT ![c] = Append(@, Frame(type, cmd))]
              ELSE outbox

\* The command is over for c's read goroutine.
Finish(c) == serving' = [serving EXCEPT ![c] = Idle]

-----------------------------------------------------------------------------
(* Connections and clients *)

Connect(c) ==
    /\ link[c] = "down" /\ link' = [link EXCEPT ![c] = "up"]
    /\ UNCHANGED <<inbox, outbox, serving, request, store, acts, late, sent, overlapped, lost,
                   faults>>

Send(c, kind, v) ==
    /\ link[c] = "up" /\ sent[c] < MaxCommands[c]
    /\ kind = "set" <=> v # Unknown
    /\ sent' = [sent EXCEPT ![c] = @ + 1]
    /\ inbox' = [inbox EXCEPT ![c] =
                    Append(@, [client |-> c, id |-> sent[c] + 1, kind |-> kind, value |-> v])]
    /\ UNCHANGED <<link, outbox, serving, request, store, acts, late, overlapped, lost, faults>>

\* The connection fails; what is being served is cancelled, in its own time.
Close(c) ==
    /\ link[c] = "up" /\ Fault
    /\ link' = [link EXCEPT ![c] = "closing"]
    /\ UNCHANGED <<inbox, outbox, serving, request, store, acts, late, sent, overlapped, lost>>

\* run returns once its read goroutine has.
Gone(c) ==
    /\ link[c] = "closing" /\ serving[c] = Idle
    /\ link' = [link EXCEPT ![c] = "down"]
    /\ inbox' = [inbox EXCEPT ![c] = <<>>] /\ outbox' = [outbox EXCEPT ![c] = <<>>]
    /\ UNCHANGED <<serving, request, store, acts, late, sent, overlapped, lost, faults>>

-----------------------------------------------------------------------------
(* handleCmd and Dispatch *)

\* The next command: answered at once, or its button's press is requested.  One
\* that was read as the connection began to close is still served, as the last.
Take(c) ==
    /\ link[c] # "down" /\ serving[c] = Idle /\ inbox[c] # <<>>
    /\ inbox' = [inbox EXCEPT ![c] = IF link[c] = "up" THEN Tail(@) ELSE <<>>]
    /\ LET cmd == Head(inbox[c]) IN
       IF cmd.kind \in Presses
       THEN /\ serving' = [serving EXCEPT ![c] = Pressing(cmd, 0)]
            /\ request' = [request EXCEPT ![c] = "sent"] /\ outbox' = outbox
       ELSE /\ Queue(c, IF cmd.kind = "noop" THEN "ack" ELSE "nak", cmd)
            /\ UNCHANGED <<serving, request>>
    /\ UNCHANGED <<link, store, acts, late, sent, overlapped, lost, faults>>

\* Companion answered that it did not perform the press: the next attempt.
Retry(c) ==
    /\ request[c] = "busy" /\ serving[c].attempt < MaxRetries
    /\ serving' = [serving EXCEPT ![c].attempt = @ + 1]
    /\ request' = [request EXCEPT ![c] = "sent"]
    /\ UNCHANGED <<link, inbox, outbox, store, acts, late, sent, overlapped, lost, faults>>

\* Fault: the last failed attempt is waited after, for a retry that never comes.
Reject_OffByOne(c) ==
    /\ request[c] = "refused" \/ (request[c] = "busy" /\ serving[c].attempt > MaxRetries)
    /\ Queue(c, "nak", serving[c].cmd) /\ Finish(c)
    /\ request' = [request EXCEPT ![c] = "none"]
    /\ UNCHANGED <<link, inbox, store, acts, late, sent, overlapped, lost, faults>>

\* A permanent refusal, or one too many: the command is rejected.
Reject(c) ==
    /\ request[c] = "refused" \/ (request[c] = "busy" /\ serving[c].attempt = MaxRetries)
    /\ Queue(c, "nak", serving[c].cmd) /\ Finish(c)
    /\ request' = [request EXCEPT ![c] = "none"]
    /\ UNCHANGED <<link, inbox, store, acts, late, sent, overlapped, lost, faults>>

\* Fault: the state changes in the hope that the press was performed.
GiveUp_Hopeful(c) ==
    LET cmd == serving[c].cmd IN
    /\ Queue(c, "nak", cmd)
    /\ serving' = [serving EXCEPT ![c] = IF cmd.kind = "set" THEN Recording(cmd) ELSE Idle]
    /\ request' = [request EXCEPT ![c] = "none"]
    /\ late' = IF request[c] = "sent" THEN late \cup {cmd} ELSE late
    /\ lost' = IF request[c] \in {"sent", "done"} THEN lost \cup {cmd} ELSE lost

\* No answer came: the press is rejected, and never tried again, although
\* Companion may have performed it or yet perform it.
GiveUp(c) ==
    LET cmd == serving[c].cmd IN
    /\ Queue(c, "nak", cmd) /\ Finish(c)
    /\ request' = [request EXCEPT ![c] = "none"]
    /\ late' = IF request[c] = "sent" THEN late \cup {cmd} ELSE late
    /\ lost' = IF request[c] \in {"sent", "done"} THEN lost \cup {cmd} ELSE lost

\* Fault: a press is sent again after a transport error, as a read would be.
NoAnswer_Resends(c) ==
    /\ request[c] \in {"sent", "done"} /\ Fault
    /\ request' = [request EXCEPT ![c] = "sent"]
    /\ late' = IF request[c] = "sent" THEN late \cup {serving[c].cmd} ELSE late
    /\ UNCHANGED <<link, inbox, outbox, serving, store, acts, sent, overlapped, lost>>

\* The request times out or its connection breaks.
NoAnswer(c) ==
    /\ request[c] \in {"sent", "done"} /\ Fault /\ GiveUp(c)
    /\ UNCHANGED <<link, inbox, store, acts, sent, overlapped>>

\* The client's connection is closing: its context ends a request and a backoff.
Cancelled(c) ==
    /\ link[c] = "closing" /\ serving[c].step = "pressing" /\ GiveUp(c)
    /\ UNCHANGED <<link, inbox, store, acts, sent, overlapped, faults>>

\* Fault: any answer of Companion is taken for success.
Acknowledge_AnyStatus(c) ==
    LET cmd == serving[c].cmd IN
    /\ request[c] \in {"done", "refused"}
    /\ Queue(c, "ack", cmd)
    /\ serving' = [serving EXCEPT ![c] = IF cmd.kind = "set" THEN Recording(cmd) ELSE Idle]
    /\ request' = [request EXCEPT ![c] = "none"]
    /\ UNCHANGED <<link, inbox, store, acts, late, sent, overlapped, lost, faults>>

\* Fault: a command of a connection that is closing is not recorded.
Acknowledge_WhileUp(c) ==
    LET cmd == serving[c].cmd IN
    /\ request[c] = "done"
    /\ Queue(c, "ack", cmd)
    /\ serving' = [serving EXCEPT ![c] = IF cmd.kind = "set" /\ link[c] = "up"
                                         THEN Recording(cmd) ELSE Idle]
    /\ request' = [request EXCEPT ![c] = "none"]
    /\ UNCHANGED <<link, inbox, store, acts, late, sent, overlapped, lost, faults>>

\* The ack is queued before the state changes.
Acknowledge(c) ==
    LET cmd == serving[c].cmd IN
    /\ request[c] = "done"
    /\ Queue(c, "ack", cmd)
    /\ serving' = [serving EXCEPT ![c] = IF cmd.kind = "set" THEN Recording(cmd) ELSE Idle]
    /\ request' = [request EXCEPT ![c] = "none"]
    /\ UNCHANGED <<link, inbox, store, acts, late, sent, overlapped, lost, faults>>

\* applyState: a change is broadcast, a repeated value is not.
Record(c) ==
    LET cmd == serving[c].cmd IN
    /\ serving[c].step = "recording"
    /\ store' = cmd.value
    /\ outbox' = IF store = cmd.value THEN outbox
                 ELSE [d \in Clients |-> IF link[d] = "up"
                                         THEN Append(outbox[d], Frame("delta", cmd))
                                         ELSE outbox[d]]
    /\ Finish(c)
    /\ UNCHANGED <<link, inbox, request, acts, late, sent, overlapped, lost, faults>>

-----------------------------------------------------------------------------
(* Companion *)

\* Performed commands whose change of state is still to be made.
Unrecorded ==
    {serving[c].cmd : c \in {d \in Clients : \/ serving[d].step = "recording"
                                             \/ request[d] = "done" /\ serving[d].cmd.kind = "set"}}

Act(cmd) ==
    /\ acts' = Append(acts, cmd)
    /\ overlapped' = IF cmd.kind = "set" /\ Unrecorded # {}
                     THEN overlapped \cup Unrecorded \cup {cmd} ELSE overlapped

Perform(c) ==
    /\ request[c] = "sent" /\ request' = [request EXCEPT ![c] = "done"]
    /\ Act(serving[c].cmd)
    /\ UNCHANGED <<link, inbox, outbox, serving, store, late, sent, lost, faults>>

\* A 5xx or 429 may be retried, another status not.
Refuse(c, how) ==
    /\ request[c] = "sent" /\ Fault
    /\ request' = [request EXCEPT ![c] = how]
    /\ UNCHANGED <<link, inbox, outbox, serving, store, acts, late, sent, overlapped, lost>>

PerformLate(cmd) ==
    /\ late' = late \ {cmd} /\ Act(cmd)
    /\ UNCHANGED <<link, inbox, outbox, serving, request, store, sent, lost, faults>>

DropLate(cmd) ==
    /\ late' = late \ {cmd}
    /\ UNCHANGED <<link, inbox, outbox, serving, request, store, acts, sent, overlapped, lost,
                   faults>>

-----------------------------------------------------------------------------
Answer(c) == Perform(c) \/ NoAnswer(c) \/ \E how \in {"busy", "refused"} : Refuse(c, how)
Serve(c)  == Take(c) \/ Retry(c) \/ Reject(c) \/ Cancelled(c) \/ Acknowledge(c) \/ Record(c)
            \/ Gone(c)

Next ==
    \/ \E c \in Clients : \/ Connect(c) \/ Close(c) \/ Serve(c) \/ Answer(c)
                          \/ \E kind \in Kinds, v \in Values \cup {Unknown} : Send(c, kind, v)
    \/ \E cmd \in late : PerformLate(cmd) \/ DropLate(cmd)

Spec == Init /\ [][Next]_vars

\* The read goroutine runs; a request is answered or times out.
Fairness == \A c \in Clients : WF_vars(Serve(c)) /\ WF_vars(Answer(c))

FairSpec == Spec /\ Fairness

-----------------------------------------------------------------------------
(* Properties *)

TypeOK ==
    /\ link \in [Clients -> {"up", "closing", "down"}]
    /\ inbox \in [Clients -> Seq(Commands)] /\ outbox \in [Clients -> Seq(Frames)]
    /\ serving \in [Clients -> Steps]
    /\ request \in [Clients -> {"none", "sent", "busy", "refused", "done"}]
    /\ \A c \in Clients : request[c] # "none" <=> serving[c].step = "pressing"
    /\ store \in Values \cup {Unknown} /\ acts \in Seq(Commands)
    /\ late \subseteq Commands /\ overlapped \subseteq Commands /\ lost \subseteq Commands
    /\ sent \in [Clients -> Nat] /\ faults \in 0..MaxFaults

\* However often a press is tried, Companion performs it at most once: only an
\* answer that it was not performed is followed by another attempt
\* (companion/client.go attempt and do).
ActsOnce == IsInjective(acts)

\* What the operator is told is what happened: an acknowledged press was
\* performed, and a rejected one was not unless its request went unanswered.
AnswersAreTrue ==
    \A c \in Clients : \A f \in ToSet(outbox[c]) :
        f.cmd.kind \in Presses =>
            /\ f.type = "ack" => f.cmd \in ToSet(acts)
            /\ f.type = "nak" => f.cmd \notin ToSet(acts) \/ f.cmd \in lost

\* The last change of the booth that Companion performed.
Latest(i) == acts[i].kind = "set" /\ \A j \in 1..Len(acts) : acts[j].kind = "set" => j <= i

\* When no change of state is due, the state is what Companion was last told,
\* unless that last command raced another one or its outcome was lost: nothing
\* else makes the state drift from the booth (handleCmd, applyState).
StateFollowsBooth ==
    Unrecorded = {} =>
        \A i \in 1..Len(acts) : Latest(i) =>
            store = acts[i].value \/ acts[i] \in overlapped \cup lost

\* What is promised of the booth is what the presses, retries and goroutines keep:
\* one answer to each command, after what it says, and then one change of state.
Doing(c, step) == IF serving[c].step = step THEN {serving[c].cmd} ELSE {}
Waiting(c) == ToSet(inbox[c]) \cup Doing(c, "pressing")
Wanted(c)  == {cmd \in ToSet(inbox[c]) : cmd.kind \in Presses}
              \cup IF request[c] # "done" THEN Doing(c, "pressing") ELSE {}
Up   == {c \in Clients : link[c] = "up"}
Open == UNION {Waiting(c) : c \in Clients}
Able == late \cup UNION {Wanted(c) : c \in Clients}
Changing == UNION {Doing(c, "recording") : c \in Clients}

Abstract == INSTANCE Booth WITH
    up <- Up, open <- Open, able <- Able, due <- Changing, told <- outbox
BoothSpec == Abstract!BSpec

Pending(c, i) ==
    \/ \E j \in 1..Len(inbox[c]) : inbox[c][j].id = i
    \/ serving[c].step = "pressing" /\ serving[c].cmd.id = i

\* Every command is answered as long as its connection stays up, whatever
\* Companion does (the retries are bounded, every request has a deadline).
Answered ==
    \A c \in Clients : \A i \in 1..MaxCommands[c] : Pending(c, i) ~> ~Pending(c, i)
=============================================================================
