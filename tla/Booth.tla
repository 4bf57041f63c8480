-------------------------------- MODULE Booth --------------------------------
(***************************************************************************)
(* What commanding the booth promises (docs/protocol.md, cmd and ack),     *)
(* with no requests, retries or read goroutines.  While its connection is  *)
(* up a command waits for its one answer: an ack once the booth has        *)
(* performed it, a rejection if it never will, or a rejection that leaves  *)
(* it lost, and then it may yet be performed.  Nothing is performed twice. *)
(* The state changes only by an acknowledged command, once for each, after *)
(* its ack, and everyone who is connected is told.                         *)
(***************************************************************************)
EXTENDS Integers, SequencesExt

CONSTANTS Clients, \* connections
          Kinds,   \* of commands: "set", "press", "noop", "bad"
          Values,  \* scenes, presets, stream and recording states
          Unknown  \* a value nothing has set yet

VARIABLES up,    \* the clients that are connected
          sent,  \* commands sent by each client
          open,  \* commands that wait for an answer
          able,  \* commands that may yet be performed
          acts,  \* what was performed, in order
          lost,  \* commands answered in ignorance
          due,   \* acknowledged commands whose change of state is to be made
          told,  \* the frames for each client since it connected
          store  \* the state

bvars == <<up, sent, open, able, acts, lost, due, told, store>>

BInit ==
    /\ up = {} /\ sent = [c \in Clients |-> 0] /\ open = {} /\ able = {} /\ acts = <<>>
    /\ lost = {} /\ due = {} /\ told = [c \in Clients |-> <<>>] /\ store = Unknown

Connect(c) == up' = up \cup {c} /\ UNCHANGED <<sent, open, able, acts, lost, due, told, store>>

HangUp(c) == up' = up \ {c} /\ UNCHANGED <<sent, open, able, acts, lost, due, told, store>>

\* Once the connection has ended, what waits on it may go unanswered.
Lapse(c, gone) ==
    /\ c \notin up /\ gone \subseteq {cmd \in open : cmd.client = c}
    /\ open' = open \ gone /\ able' = able \ gone
    /\ told' \in {told, [told EXCEPT ![c] = <<>>]}
    /\ UNCHANGED <<up, sent, acts, lost, due, store>>

Offer(c, cmd) ==
    /\ c \in up /\ sent' = [sent EXCEPT ![c] = cmd.id]
    /\ open' = open \cup {cmd}
    /\ able' = IF cmd.kind \in {"set", "press"} THEN able \cup {cmd} ELSE able
    /\ UNCHANGED <<up, acts, lost, due, told, store>>

Perform(cmd) ==
    /\ able' = able \ {cmd} /\ acts' = Append(acts, cmd)
    /\ UNCHANGED <<up, sent, open, lost, due, told, store>>

Tell(clients, type, cmd) ==
    told' = [c \in Clients |-> IF c \in clients \cap up
                               THEN Append(told[c], [type |-> type, cmd |-> cmd]) ELSE told[c]]

Answer(cmd, type) ==
    /\ open' = open \ {cmd} /\ Tell({cmd.client}, type, cmd)
    /\ UNCHANGED <<up, sent, acts, store>>

Ack(cmd) ==
    /\ cmd.kind = "noop" \/ cmd \in ToSet(acts)
    /\ Answer(cmd, "ack")
    /\ due' = IF cmd.kind = "set" THEN due \cup {cmd} ELSE due
    /\ UNCHANGED <<able, lost>>

Refuse(cmd) ==
    /\ cmd \notin ToSet(acts) /\ able' = able \ {cmd}
    /\ Answer(cmd, "nak")
    /\ UNCHANGED <<lost, due>>

GiveUp(cmd) == Answer(cmd, "nak") /\ lost' = lost \cup {cmd} /\ UNCHANGED <<able, due>>

\* A command given up on is, in the end, not performed.
Fade(cmd) ==
    /\ cmd \in lost /\ able' = able \ {cmd}
    /\ UNCHANGED <<up, sent, open, acts, lost, due, told, store>>

Change(cmd) ==
    /\ due' = due \ {cmd} /\ store' = cmd.value
    /\ IF store = cmd.value THEN told' = told ELSE Tell(Clients, "delta", cmd)
    /\ UNCHANGED <<up, sent, open, able, acts, lost>>

BNext ==
    \/ \E c \in Clients :
         \/ Connect(c) \/ HangUp(c) \/ \E gone \in SUBSET open : Lapse(c, gone)
         \/ \E kind \in Kinds, v \in Values \cup {Unknown} :
              Offer(c, [client |-> c, id |-> sent[c] + 1, kind |-> kind, value |-> v])
    \/ \E cmd \in open : Ack(cmd) \/ Refuse(cmd) \/ GiveUp(cmd)
    \/ \E cmd \in able : Perform(cmd) \/ Fade(cmd)
    \/ \E cmd \in due : Change(cmd)

BSpec == BInit /\ [][BNext]_bvars
=============================================================================
