--------------------------- MODULE Dispatch_proofs ---------------------------
(***************************************************************************)
(* A press is performed at most once and answered truly, for any number of *)
(* connections and commands, any number of retries and any faults, and     *)
(* commanding the booth keeps the promise that Booth states.               *)
(***************************************************************************)
EXTENDS Dispatch, TLAPS

Answers == {"ack", "nak"}

\* Commands are served in the order of their numbers.
Ascending(s) == \A i, j \in 1..Len(s) : i < j => s[i].id < s[j].id

\* A command that its connection's read goroutine has taken.
Behind(cmd) ==
    /\ cmd.id <= sent[cmd.client]
    /\ \A w \in ToSet(inbox[cmd.client]) : cmd.id < w.id

OrderInv ==
    /\ \A c \in Clients :
         /\ Ascending(inbox[c])
         /\ \A w \in ToSet(inbox[c]) : w.client = c /\ w.id <= sent[c]
         /\ serving[c].step # "idle" => serving[c].cmd.client = c /\ Behind(serving[c].cmd)
         /\ \A f \in ToSet(outbox[c]) :
              f.type \in Answers => f.cmd.client = c /\ Behind(f.cmd)
    /\ \A cmd \in ToSet(acts) \cup late : Behind(cmd)

\* What has become of the press that is being requested, of those given up on
\* and of those answered.
PressInv ==
    /\ \A c \in Clients :
         serving[c].step = "pressing" =>
            /\ serving[c].cmd \notin late
            /\ request[c] = "done" <=> serving[c].cmd \in ToSet(acts)
            /\ \A f \in ToSet(outbox[c]) : f.type \in Answers => f.cmd # serving[c].cmd
    /\ late \subseteq lost /\ late \cap ToSet(acts) = {}
    /\ IsInjective(acts)
    /\ AnswersAreTrue

IInv == TypeOK /\ OrderInv /\ PressInv

LEMMA InitInv == Init => IInv
<1> SUFFICES ASSUME Init PROVE IInv
  OBVIOUS
<1>1. TypeOK
  BY DispatchAssumption DEF Init, TypeOK, DispatchAssumption, Idle, Steps
<1>2. OrderInv
  BY DEF Init, OrderInv, Idle, ToSet, Ascending
<1>3. PressInv
  BY DEF Init, PressInv, Idle, ToSet, IsInjective, AnswersAreTrue
<1> QED BY <1>1, <1>2, <1>3 DEF IInv

-----------------------------------------------------------------------------
(* Sequences, frames and commands *)

LEMMA AppendElements ==
    ASSUME NEW S, NEW s \in Seq(S), NEW x \in S
    PROVE  /\ Append(s, x) \in Seq(S)
           /\ ToSet(Append(s, x)) = ToSet(s) \cup {x}
           /\ IsInjective(s) /\ x \notin ToSet(s) => IsInjective(Append(s, x))
<1> DEFINE t == Append(s, x)
<1>1. /\ t \in Seq(S) /\ Len(t) = Len(s) + 1 /\ Len(s) \in Nat /\ t[Len(s) + 1] = x
      /\ \A i \in 1..Len(s) : t[i] = s[i]
      /\ DOMAIN t = 1..Len(t) /\ DOMAIN s = 1..Len(s)
  OBVIOUS
<1>2. \A i : i \in 1..Len(t) <=> i \in 1..Len(s) \/ i = Len(s) + 1
  BY <1>1
<1> HIDE DEF t
<1>3. ToSet(t) = ToSet(s) \cup {x}
  BY <1>1, <1>2 DEF ToSet
<1>4. IsInjective(s) /\ x \notin ToSet(s) => IsInjective(t)
  BY <1>1, <1>2 DEF ToSet, IsInjective
<1> QED BY <1>1, <1>3, <1>4 DEF t

LEMMA HeadFirst ==
    ASSUME NEW s \in Seq(Commands), s # <<>>, Ascending(s)
    PROVE  /\ Head(s) \in Commands /\ Head(s) \in ToSet(s)
           /\ Tail(s) \in Seq(Commands) /\ Ascending(Tail(s))
           /\ \A w \in ToSet(Tail(s)) : w \in ToSet(s) /\ Head(s).id < w.id
<1>1. /\ Len(s) \in Nat /\ Len(s) >= 1 /\ DOMAIN s = 1..Len(s) /\ Head(s) = s[1]
      /\ Tail(s) \in Seq(Commands) /\ Len(Tail(s)) = Len(s) - 1
      /\ DOMAIN Tail(s) = 1..Len(Tail(s))
      /\ \A i \in 1..Len(Tail(s)) : Tail(s)[i] = s[i + 1]
      /\ \A i \in 1..Len(s) : s[i] \in Commands
  OBVIOUS
<1>2. Head(s) \in Commands /\ Head(s) \in ToSet(s)
  BY <1>1 DEF ToSet
<1>3. Ascending(Tail(s))
  BY <1>1 DEF Ascending
<1>4. ASSUME NEW w \in ToSet(Tail(s))
      PROVE  w \in ToSet(s) /\ Head(s).id < w.id
  <2>1. PICK i \in 1..Len(Tail(s)) : w = Tail(s)[i]
    BY <1>1, <1>4 DEF ToSet
  <2>2. w = s[i + 1] /\ i + 1 \in 1..Len(s) /\ 1 < i + 1 /\ 1 \in 1..Len(s)
    BY <1>1, <2>1
  <2> QED BY <1>1, <2>2 DEF ToSet, Ascending
<1> QED BY <1>1, <1>2, <1>3, <1>4

\* A frame that is queued is the only new one.
LEMMA QueueOne ==
    ASSUME TypeOK, NEW c \in Clients, NEW cmd \in Commands,
           NEW type \in {"ack", "nak"}, Queue(c, type, cmd)
    PROVE  /\ outbox' \in [Clients -> Seq(Frames)]
           /\ \A d \in Clients : \A f \in ToSet(outbox'[d]) :
                f \in ToSet(outbox[d]) \/ (d = c /\ f.type = type /\ f.cmd = cmd)
<1>1. Frame(type, cmd) \in Frames /\ outbox \in [Clients -> Seq(Frames)]
  BY DEF Frame, Frames, TypeOK
<1>2. /\ Append(outbox[c], Frame(type, cmd)) \in Seq(Frames)
      /\ ToSet(Append(outbox[c], Frame(type, cmd))) = ToSet(outbox[c]) \cup {Frame(type, cmd)}
  BY <1>1, AppendElements
<1>3. CASE link[c] = "up"
  <2>1. outbox' = [outbox EXCEPT ![c] = Append(outbox[c], Frame(type, cmd))]
    BY <1>3 DEF Queue
  <2> QED BY <1>1, <1>2, <2>1 DEF Frame
<1>4. CASE link[c] # "up"
  BY <1>1, <1>4 DEF Queue
<1> QED BY <1>3, <1>4

LEMMA ServingCommand ==
    ASSUME TypeOK, NEW c \in Clients
    PROVE  /\ request[c] # "none" <=> serving[c].step = "pressing"
           /\ serving[c].step # "idle" => serving[c].cmd \in Commands
           /\ serving[c].step = "pressing" => serving[c].attempt \in 0..MaxRetries
           /\ serving[c] \in Steps /\ serving[c].step \in {"idle", "recording", "pressing"}
           /\ serving[c].step = "idle" <=> serving[c] = Idle
BY DEF TypeOK, Steps, Idle

LEMMA Elements ==
    ASSUME NEW S, NEW s \in Seq(S)
    PROVE  \A x \in ToSet(s) : x \in S
BY DEF ToSet

\* Every command the invariant speaks of is one.
LEMMA TypedCommands ==
    ASSUME TypeOK
    PROVE  /\ \A c \in Clients : serving[c].step # "idle" => serving[c].cmd \in Commands
           /\ \A c \in Clients : \A w \in ToSet(inbox[c]) : w \in Commands
           /\ \A c \in Clients : \A f \in ToSet(outbox[c]) : f \in Frames /\ f.cmd \in Commands
           /\ \A cmd \in ToSet(acts) \cup late : cmd \in Commands
<1>1. \A c \in Clients : inbox[c] \in Seq(Commands) /\ outbox[c] \in Seq(Frames)
  BY DEF TypeOK
<1>2. \A c \in Clients : \A w \in ToSet(inbox[c]) : w \in Commands
  BY <1>1, Elements
<1>3. \A c \in Clients : \A f \in ToSet(outbox[c]) : f \in Frames
  BY <1>1, Elements
<1>4. \A cmd \in ToSet(acts) : cmd \in Commands
  BY Elements DEF TypeOK
<1>5. \A cmd \in late : cmd \in Commands
  BY DEF TypeOK
<1> QED BY <1>2, <1>3, <1>4, <1>5, ServingCommand DEF Frames

LEMMA StepFacts ==
    ASSUME NEW cmd \in Commands, NEW attempt \in 0..MaxRetries
    PROVE  /\ Idle \in Steps /\ Idle.step = "idle"
           /\ Pressing(cmd, attempt) \in Steps /\ Pressing(cmd, attempt).step = "pressing"
           /\ Pressing(cmd, attempt).cmd = cmd
           /\ Recording(cmd) \in Steps /\ Recording(cmd).step = "recording"
           /\ Recording(cmd).cmd = cmd
BY DEF Steps, Idle, Pressing, Recording

\* What was served belongs to its own connection.
LEMMA OwnCommand ==
    ASSUME IInv, NEW c \in Clients, NEW d \in Clients, c # d,
           serving[c].step # "idle", serving[d].step # "idle"
    PROVE  serving[c].cmd # serving[d].cmd
BY DEF IInv, OrderInv

-----------------------------------------------------------------------------
(* A press that is over *)

\* Whatever ends a press, its answer is the only new frame, and true.
LEMMA Over ==
    ASSUME IInv, NEW c \in Clients, serving[c].step = "pressing",
           NEW type \in {"ack", "nak"}, Queue(c, type, serving[c].cmd),
           NEW new \in {Idle, Recording(serving[c].cmd)},
           serving' = [serving EXCEPT ![c] = new],
           request' = [request EXCEPT ![c] = "none"],
           UNCHANGED <<link, inbox, store, acts, sent, overlapped>>,
           late' = late \/ (late' = late \cup {serving[c].cmd} /\ request[c] # "done"),
           lost' = lost \/ lost' = lost \cup {serving[c].cmd},
           late' \subseteq lost', faults' \in 0..MaxFaults,
           type = "ack" => request[c] = "done",
           type = "nak" => request[c] # "done" \/ serving[c].cmd \in lost'
    PROVE  IInv'
<1> DEFINE cmd == serving[c].cmd
<1>1. TypeOK /\ OrderInv /\ PressInv
  BY DEF IInv
<1>2. cmd \in Commands
  BY <1>1, ServingCommand
<1>3. /\ outbox' \in [Clients -> Seq(Frames)]
      /\ \A d \in Clients : \A f \in ToSet(outbox'[d]) :
           f \in ToSet(outbox[d]) \/ (d = c /\ f.type = type /\ f.cmd = cmd)
  BY <1>1, <1>2, QueueOne
<1>4. new \in Steps /\ new.step \in {"idle", "recording"} /\ (new.step # "idle" => new.cmd = cmd)
  BY <1>2, StepFacts, DispatchAssumption DEF DispatchAssumption, Idle, Recording, Steps
<1>5. cmd.client = c /\ Behind(cmd)
  BY <1>1 DEF OrderInv
<1>6. TypeOK'
  BY <1>1, <1>2, <1>3, <1>4 DEF TypeOK
<1>7. \A x : Behind(x)' <=> Behind(x)
  BY DEF Behind
<1>8. OrderInv'
  <2>1. \A d \in Clients : /\ Ascending(inbox'[d])
                           /\ \A w \in ToSet(inbox'[d]) : w.client = d /\ w.id <= sent'[d]
    BY <1>1 DEF OrderInv
  <2>2. ASSUME NEW d \in Clients, serving'[d].step # "idle"
        PROVE  serving'[d].cmd.client = d /\ Behind(serving'[d].cmd)
    <3>1. CASE d = c
      BY <1>1, <1>4, <1>5, <2>2, <3>1 DEF TypeOK
    <3>2. CASE d # c
      BY <1>1, <2>2, <3>2 DEF OrderInv, TypeOK
    <3> QED BY <3>1, <3>2
  <2>3. ASSUME NEW d \in Clients, NEW f \in ToSet(outbox'[d]), f.type \in Answers
        PROVE  f.cmd.client = d /\ Behind(f.cmd)
    BY <1>1, <1>3, <1>5, <2>3 DEF OrderInv
  <2>4. \A x \in ToSet(acts') \cup late' : Behind(x)
    BY <1>1, <1>5 DEF OrderInv
  <2> QED BY <1>7, <2>1, <2>2, <2>3, <2>4 DEF OrderInv
<1>9. ASSUME NEW d \in Clients, serving'[d].step = "pressing"
      PROVE  /\ serving'[d].cmd \notin late'
             /\ request'[d] = "done" <=> serving'[d].cmd \in ToSet(acts')
             /\ \A f \in ToSet(outbox'[d]) : f.type \in Answers => f.cmd # serving'[d].cmd
  <2>1. d # c
    BY <1>1, <1>4, <1>9 DEF TypeOK
  <2>2. serving'[d] = serving[d] /\ request'[d] = request[d]
    BY <1>1, <2>1 DEF TypeOK
  <2>3. serving[d].cmd # cmd
    BY <1>9, <2>1, <2>2, OwnCommand
  <2> QED BY <1>1, <1>3, <1>9, <2>1, <2>2, <2>3 DEF PressInv
<1>10. late' \cap ToSet(acts') = {} /\ IsInjective(acts')
  BY <1>1 DEF PressInv
<1>11. AnswersAreTrue'
  <2> SUFFICES ASSUME NEW d \in Clients, NEW f \in ToSet(outbox'[d]), f.cmd.kind \in Presses
               PROVE  /\ f.type = "ack" => f.cmd \in ToSet(acts)
                      /\ f.type = "nak" => f.cmd \notin ToSet(acts) \/ f.cmd \in lost'
    BY DEF AnswersAreTrue
  <2>1. CASE f \in ToSet(outbox[d])
    BY <1>1, <2>1 DEF PressInv, AnswersAreTrue
  <2>2. CASE f.type = type /\ f.cmd = cmd
    BY <1>1, <2>2 DEF PressInv
  <2> QED BY <1>3, <2>1, <2>2
<1> QED BY <1>6, <1>8, <1>9, <1>10, <1>11 DEF IInv, PressInv

LEMMA GiveUpOver ==
    ASSUME IInv, NEW c \in Clients, serving[c].step = "pressing", GiveUp(c),
           UNCHANGED <<link, inbox, store, acts, sent, overlapped>>, faults' \in 0..MaxFaults
    PROVE  IInv'
<1>1. request[c] \in {"sent", "busy", "refused", "done"}
  BY ServingCommand DEF IInv, TypeOK
<1>2. /\ Queue(c, "nak", serving[c].cmd) /\ serving' = [serving EXCEPT ![c] = Idle]
      /\ request' = [request EXCEPT ![c] = "none"]
      /\ late' = IF request[c] = "sent" THEN late \cup {serving[c].cmd} ELSE late
      /\ lost' = IF request[c] \in {"sent", "done"} THEN lost \cup {serving[c].cmd} ELSE lost
  BY DEF GiveUp, Finish
<1>3. late \subseteq lost
  BY DEF IInv, PressInv
<1>4. /\ late' = late \/ (late' = late \cup {serving[c].cmd} /\ request[c] # "done")
      /\ lost' = lost \/ lost' = lost \cup {serving[c].cmd}
      /\ late' \subseteq lost'
      /\ request[c] # "done" \/ serving[c].cmd \in lost'
  BY <1>1, <1>2, <1>3
<1> QED BY <1>2, <1>4, Over

LEMMA OverStep ==
    ASSUME IInv, NEW c \in Clients,
           Reject(c) \/ Acknowledge(c) \/ NoAnswer(c) \/ Cancelled(c)
    PROVE  IInv'
<1>1. /\ faults \in 0..MaxFaults /\ late \subseteq lost
      /\ (Fault => faults' \in 0..MaxFaults)
      /\ (request[c] # "none" => serving[c].step = "pressing")
  BY DispatchAssumption DEF IInv, TypeOK, PressInv, Fault, DispatchAssumption
<1>2. CASE Reject(c)
  <2>1. /\ Queue(c, "nak", serving[c].cmd) /\ serving' = [serving EXCEPT ![c] = Idle]
        /\ request[c] \in {"refused", "busy"} /\ request' = [request EXCEPT ![c] = "none"]
        /\ UNCHANGED <<link, inbox, store, acts, late, sent, overlapped, lost, faults>>
    BY <1>2 DEF Reject, Finish
  <2> QED BY <1>1, <2>1, Over
<1>3. CASE Acknowledge(c)
  <2>1. /\ Queue(c, "ack", serving[c].cmd) /\ request[c] = "done"
        /\ request' = [request EXCEPT ![c] = "none"]
        /\ UNCHANGED <<link, inbox, store, acts, late, sent, overlapped, lost, faults>>
    BY <1>3 DEF Acknowledge
  <2>2. \E new \in {Idle, Recording(serving[c].cmd)} :
            serving' = [serving EXCEPT ![c] = new]
    BY <1>3 DEF Acknowledge
  <2> QED BY <1>1, <2>1, <2>2, Over
<1>4. CASE NoAnswer(c)
  BY <1>1, <1>4, GiveUpOver DEF NoAnswer
<1>5. CASE Cancelled(c)
  BY <1>1, <1>5, GiveUpOver DEF Cancelled
<1> QED BY <1>2, <1>3, <1>4, <1>5

-----------------------------------------------------------------------------
(* Connections and clients *)

LEMMA LinkStep ==
    ASSUME IInv, NEW c \in Clients, Connect(c) \/ Close(c)
    PROVE  IInv'
<1>1. /\ link' \in [Clients -> {"up", "closing", "down"}] /\ faults' \in 0..MaxFaults
      /\ UNCHANGED <<inbox, outbox, serving, request, store, acts, late, sent, overlapped, lost>>
  <2>1. CASE Connect(c)
    BY <2>1 DEF Connect, IInv, TypeOK
  <2>2. CASE Close(c)
    BY <2>2, DispatchAssumption DEF Close, Fault, IInv, TypeOK, DispatchAssumption
  <2> QED BY <2>1, <2>2
<1>2. TypeOK'
  BY <1>1 DEF IInv, TypeOK
<1>3. OrderInv'
  BY <1>1 DEF IInv, OrderInv, Behind
<1>4. PressInv'
  BY <1>1 DEF IInv, PressInv, AnswersAreTrue
<1> QED BY <1>2, <1>3, <1>4 DEF IInv

LEMMA SendStep ==
    ASSUME IInv, NEW c \in Clients, NEW kind \in Kinds, NEW v \in Values \cup {Unknown},
           Send(c, kind, v)
    PROVE  IInv'
<1> DEFINE cmd == [client |-> c, id |-> sent[c] + 1, kind |-> kind, value |-> v]
<1>1. TypeOK /\ OrderInv /\ PressInv
  BY DEF IInv
<1>2. /\ sent[c] \in Nat /\ sent' = [sent EXCEPT ![c] = sent[c] + 1]
      /\ inbox' = [inbox EXCEPT ![c] = Append(inbox[c], cmd)]
      /\ UNCHANGED <<link, outbox, serving, request, store, acts, late, overlapped, lost, faults>>
  BY <1>1 DEF Send, TypeOK
<1>3. cmd \in Commands /\ cmd.client = c /\ cmd.id = sent[c] + 1
  BY <1>2 DEF Send, Commands
<1> HIDE DEF cmd
<1>4. /\ inbox[c] \in Seq(Commands) /\ Append(inbox[c], cmd) \in Seq(Commands)
      /\ ToSet(Append(inbox[c], cmd)) = ToSet(inbox[c]) \cup {cmd}
  BY <1>1, <1>3, AppendElements DEF TypeOK
<1>5. TypeOK'
  BY <1>1, <1>2, <1>4 DEF TypeOK
<1>6. Ascending(Append(inbox[c], cmd))
  <2>1. \A i \in 1..Len(inbox[c]) : inbox[c][i].id <= sent[c] /\ inbox[c][i].id \in Nat
    BY <1>1, <1>4 DEF OrderInv, ToSet, Commands
  <2>2. Ascending(inbox[c])
    BY <1>1 DEF OrderInv
  <2>3. ASSUME NEW i \in 1..Len(Append(inbox[c], cmd)), NEW j \in 1..Len(Append(inbox[c], cmd)),
               i < j
        PROVE  Append(inbox[c], cmd)[i].id < Append(inbox[c], cmd)[j].id
    <3>1. Append(inbox[c], cmd)[i] = inbox[c][i] /\ i \in 1..Len(inbox[c])
      BY <1>3, <1>4, <2>3
    <3>2. CASE j \in 1..Len(inbox[c])
      BY <1>3, <1>4, <2>2, <2>3, <3>1, <3>2 DEF Ascending
    <3>3. CASE j = Len(inbox[c]) + 1
      BY <1>2, <1>3, <1>4, <2>1, <3>1, <3>3
    <3> QED BY <1>3, <1>4, <3>2, <3>3
  <2> QED BY <2>3 DEF Ascending
<1>7. ASSUME NEW x \in Commands, Behind(x)
      PROVE  Behind(x)'
  <2>1. x.id \in Nat /\ x.client \in Clients
    BY DEF Commands
  <2>2. CASE x.client = c
    <3>1. sent'[x.client] = sent[c] + 1 /\ inbox'[x.client] = Append(inbox[c], cmd)
      BY <1>1, <1>2, <2>2 DEF TypeOK
    <3> QED BY <1>2, <1>3, <1>4, <1>7, <2>1, <2>2, <3>1 DEF Behind
  <2>3. CASE x.client # c
    <3>1. sent'[x.client] = sent[x.client] /\ inbox'[x.client] = inbox[x.client]
      BY <1>1, <1>2, <2>1, <2>3 DEF TypeOK
    <3> QED BY <1>7, <3>1 DEF Behind
  <2> QED BY <2>2, <2>3
<1>8. OrderInv'
  <2>1. ASSUME NEW d \in Clients
        PROVE  /\ Ascending(inbox'[d])
               /\ \A w \in ToSet(inbox'[d]) : w.client = d /\ w.id <= sent'[d]
    <3>1. CASE d = c
      <4>1. sent'[d] = sent[c] + 1 /\ inbox'[d] = Append(inbox[c], cmd)
        BY <1>1, <1>2, <3>1 DEF TypeOK
      <4>2. \A w \in ToSet(inbox[c]) : w.client = c /\ w.id <= sent[c] /\ w.id \in Nat
        BY <1>1, <1>4 DEF OrderInv, ToSet, Commands
      <4> QED BY <1>2, <1>3, <1>4, <1>6, <3>1, <4>1, <4>2
    <3>2. CASE d # c
      BY <1>1, <1>2, <3>2 DEF OrderInv, TypeOK
    <3> QED BY <3>1, <3>2
  <2>2. ASSUME NEW d \in Clients, serving'[d].step # "idle"
        PROVE  serving'[d].cmd.client = d /\ Behind(serving[d].cmd)'
    <3>1. /\ serving'[d] = serving[d] /\ serving[d].cmd \in Commands
          /\ serving[d].cmd.client = d /\ Behind(serving[d].cmd)
      BY <1>1, <1>2, <2>2, TypedCommands DEF OrderInv
    <3>2. ASSUME NEW x, x = serving[d].cmd
          PROVE  Behind(x)'
      BY <1>7, <3>1, <3>2
    <3> QED BY <1>2, <3>1, <3>2 DEF Behind
  <2>3. ASSUME NEW d \in Clients, NEW f \in ToSet(outbox'[d]), f.type \in Answers
        PROVE  f.cmd.client = d /\ Behind(f.cmd)'
    <3>1. f.cmd \in Commands
      BY <1>1, <1>2, TypedCommands
    <3> QED BY <1>1, <1>2, <1>7, <2>3, <3>1 DEF OrderInv
  <2>4. ASSUME NEW x \in ToSet(acts') \cup late'
        PROVE  Behind(x)'
    <3>1. x \in Commands
      BY <1>1, <1>2, TypedCommands
    <3> QED BY <1>1, <1>2, <1>7, <3>1 DEF OrderInv
  <2> QED BY <2>1, <2>2, <2>3, <2>4 DEF OrderInv
<1>9. PressInv'
  BY <1>1, <1>2 DEF PressInv, AnswersAreTrue
<1> QED BY <1>5, <1>8, <1>9 DEF IInv

LEMMA GoneStep ==
    ASSUME IInv, NEW c \in Clients, Gone(c)
    PROVE  IInv'
<1>1. TypeOK /\ OrderInv /\ PressInv
  BY DEF IInv
<1>2. /\ link' = [link EXCEPT ![c] = "down"]
      /\ inbox' = [inbox EXCEPT ![c] = <<>>] /\ outbox' = [outbox EXCEPT ![c] = <<>>]
      /\ UNCHANGED <<serving, request, store, acts, late, sent, overlapped, lost, faults>>
  BY DEF Gone
<1>3. <<>> \in Seq(Commands) /\ <<>> \in Seq(Frames) /\ ToSet(<<>>) = {} /\ Ascending(<<>>)
  BY DEF ToSet, Ascending
<1>4. TypeOK'
  BY <1>1, <1>2, <1>3 DEF TypeOK
<1>5. \A d \in Clients : ToSet(inbox'[d]) \subseteq ToSet(inbox[d])
                         /\ ToSet(outbox'[d]) \subseteq ToSet(outbox[d])
                         /\ Ascending(inbox'[d])
  BY <1>1, <1>2, <1>3 DEF TypeOK, OrderInv
<1>6. \A x \in Commands : Behind(x) => Behind(x)'
  BY <1>2, <1>5 DEF Behind, Commands
<1>7. /\ \A d \in Clients : serving[d].step # "idle" => serving[d].cmd \in Commands
      /\ \A d \in Clients : \A f \in ToSet(outbox[d]) : f.cmd \in Commands
      /\ \A x \in ToSet(acts) \cup late : x \in Commands
  BY <1>1, TypedCommands
<1>8. OrderInv'
  BY <1>1, <1>2, <1>5, <1>6, <1>7 DEF OrderInv
<1>9. PressInv'
  BY <1>1, <1>2, <1>5 DEF PressInv, AnswersAreTrue
<1> QED BY <1>4, <1>8, <1>9 DEF IInv

-----------------------------------------------------------------------------
(* Taking a command and trying it *)

\* The command at the front comes before those behind it, and after all that
\* was taken before it.
LEMMA TakeStep ==
    ASSUME IInv, NEW c \in Clients, Take(c)
    PROVE  IInv'
<1>0. PICK cmd : cmd = Head(inbox[c])
  OBVIOUS
<1> DEFINE type == IF cmd.kind = "noop" THEN "ack" ELSE "nak"
           rest == IF link[c] = "up" THEN Tail(inbox[c]) ELSE <<>>
<1>1. TypeOK /\ OrderInv /\ PressInv
  BY DEF IInv
<1>2. inbox[c] \in Seq(Commands) /\ inbox[c] # <<>> /\ Ascending(inbox[c])
  BY <1>1 DEF Take, TypeOK, OrderInv
<1>3. /\ cmd \in Commands /\ cmd \in ToSet(inbox[c])
      /\ rest \in Seq(Commands) /\ Ascending(rest)
      /\ \A w \in ToSet(rest) : w \in ToSet(inbox[c]) /\ cmd.id < w.id
  <2>1. <<>> \in Seq(Commands) /\ Ascending(<<>>) /\ ToSet(<<>>) = {}
    BY DEF Ascending, ToSet
  <2> QED BY <1>0, <1>2, <2>1, HeadFirst
<1>4. /\ serving[c] = Idle /\ inbox' = [inbox EXCEPT ![c] = rest]
      /\ UNCHANGED <<link, store, acts, late, sent, overlapped, lost, faults>>
      /\ \/ /\ serving' = [serving EXCEPT ![c] = Pressing(cmd, 0)]
            /\ request' = [request EXCEPT ![c] = "sent"] /\ outbox' = outbox
         \/ cmd.kind \notin Presses /\ Queue(c, type, cmd) /\ UNCHANGED <<serving, request>>
  BY <1>0 DEF Take
<1>5. cmd.client = c /\ cmd.id <= sent[c]
  BY <1>1, <1>3 DEF OrderInv
<1> HIDE DEF rest, type
<1>6. \A d \in Clients : /\ Ascending(inbox'[d]) /\ inbox'[d] \in Seq(Commands)
                         /\ ToSet(inbox'[d]) \subseteq ToSet(inbox[d])
  BY <1>1, <1>3, <1>4 DEF TypeOK, OrderInv
<1>7. /\ \A x \in Commands : Behind(x) => Behind(x)' /\ x # cmd
      /\ Behind(cmd)'
  BY <1>1, <1>3, <1>4, <1>5, <1>6 DEF Behind, Commands, TypeOK
<1>8. /\ outbox' \in [Clients -> Seq(Frames)]
      /\ \A d \in Clients : \A f \in ToSet(outbox'[d]) :
           f \in ToSet(outbox[d])
             \/ (d = c /\ f.type = type /\ f.cmd = cmd /\ cmd.kind \notin Presses)
  <2>1. CASE outbox' = outbox
    BY <1>1, <2>1 DEF TypeOK
  <2>2. CASE cmd.kind \notin Presses /\ Queue(c, type, cmd)
    BY <1>1, <1>3, <2>2, QueueOne DEF type
  <2> QED BY <1>4, <2>1, <2>2
<1>9. /\ Pressing(cmd, 0) \in Steps /\ Pressing(cmd, 0).step = "pressing"
      /\ Pressing(cmd, 0).cmd = cmd /\ serving[c].step = "idle"
  BY <1>3, <1>4, StepFacts, DispatchAssumption DEF DispatchAssumption
<1>10. /\ serving' \in [Clients -> Steps] /\ DOMAIN request' = Clients
       /\ \A d \in Clients : \/ serving'[d] = serving[d] /\ request'[d] = request[d]
                             \/ /\ d = c /\ serving'[d] = Pressing(cmd, 0)
                                /\ request'[d] = "sent" /\ outbox' = outbox
  <2>1. serving \in [Clients -> Steps] /\ DOMAIN request = Clients
    BY <1>1 DEF TypeOK
  <2> QED BY <1>4, <1>9, <2>1
<1>11. TypeOK'
  <2>1. request' \in [Clients -> {"none", "sent", "busy", "refused", "done"}]
    BY <1>1, <1>4 DEF TypeOK
  <2>2. inbox' \in [Clients -> Seq(Commands)]
    BY <1>1, <1>4, <1>6 DEF TypeOK
  <2>3. ASSUME NEW d \in Clients
        PROVE  request'[d] # "none" <=> serving'[d].step = "pressing"
    <3>1. CASE serving'[d] = serving[d] /\ request'[d] = request[d]
      BY <1>1, <3>1, ServingCommand
    <3>2. CASE serving'[d] = Pressing(cmd, 0) /\ request'[d] = "sent"
      BY <1>9, <3>2
    <3> QED BY <1>10, <3>1, <3>2
  <2> QED BY <1>1, <1>4, <1>8, <1>10, <2>1, <2>2, <2>3 DEF TypeOK
<1>12. OrderInv'
  <2>1. \A d \in Clients : \A w \in ToSet(inbox'[d]) : w.client = d /\ w.id <= sent'[d]
    BY <1>1, <1>4, <1>6 DEF OrderInv
  <2>2. ASSUME NEW d \in Clients, serving'[d].step # "idle", NEW x, x = serving'[d].cmd
        PROVE  x.client = d /\ Behind(x)'
    BY <1>1, <1>5, <1>7, <1>9, <1>10, <2>2, TypedCommands DEF OrderInv
  <2>3. ASSUME NEW d \in Clients, NEW f \in ToSet(outbox'[d]), f.type \in Answers
        PROVE  f.cmd.client = d /\ Behind(f.cmd)'
    BY <1>1, <1>5, <1>7, <1>8, <2>3, TypedCommands DEF OrderInv
  <2>4. ASSUME NEW x \in ToSet(acts') \cup late'
        PROVE  Behind(x)'
    BY <1>1, <1>4, <1>7, TypedCommands DEF OrderInv
  <2> QED BY <1>6, <2>1, <2>2, <2>3, <2>4 DEF OrderInv, Behind
<1>13. PressInv'
  <2>1. ASSUME NEW d \in Clients, serving'[d].step = "pressing"
        PROVE  /\ serving'[d].cmd \notin late'
               /\ request'[d] = "done" <=> serving'[d].cmd \in ToSet(acts')
               /\ \A f \in ToSet(outbox'[d]) : f.type \in Answers => f.cmd # serving'[d].cmd
    <3>1. CASE serving'[d] = Pressing(cmd, 0) /\ request'[d] = "sent" /\ outbox' = outbox /\ d = c
      <4>1. cmd \notin late /\ cmd \notin ToSet(acts)
        BY <1>1, <1>7, TypedCommands DEF OrderInv
      <4>2. \A f \in ToSet(outbox[d]) : f.type \in Answers => f.cmd # cmd
        BY <1>1, <1>7, TypedCommands DEF OrderInv
      <4> QED BY <1>4, <1>9, <3>1, <4>1, <4>2
    <3>2. CASE serving'[d] = serving[d] /\ request'[d] = request[d]
      <4>1. serving[d].cmd # cmd
        BY <1>1, <1>7, <2>1, <3>2, TypedCommands DEF OrderInv
      <4> QED BY <1>1, <1>4, <1>8, <2>1, <3>2, <4>1 DEF PressInv
    <3> QED BY <1>10, <3>1, <3>2
  <2>2. AnswersAreTrue'
    BY <1>1, <1>4, <1>8 DEF PressInv, AnswersAreTrue
  <2> QED BY <1>1, <1>4, <2>1, <2>2 DEF PressInv
<1> QED BY <1>11, <1>12, <1>13 DEF IInv

\* Another attempt at a press that was not performed, or an answer that it was
\* not: the command stays the same, and Companion has not performed it.
LEMMA TryStep ==
    ASSUME IInv, NEW c \in Clients,
           Retry(c) \/ \E how \in {"busy", "refused"} : Refuse(c, how)
    PROVE  IInv'
<1>1. TypeOK /\ OrderInv /\ PressInv
  BY DEF IInv
<1>2. /\ request[c] \in {"busy", "sent"}
      /\ UNCHANGED <<link, inbox, outbox, store, acts, late, sent, overlapped, lost>>
      /\ \E how \in {"sent", "busy", "refused"} : request' = [request EXCEPT ![c] = how]
  BY DEF Retry, Refuse
<1>3. /\ serving[c].step = "pressing" /\ serving[c].cmd \in Commands
      /\ serving[c].attempt \in 0..MaxRetries
      /\ serving[c] = Pressing(serving[c].cmd, serving[c].attempt)
  BY <1>1, <1>2 DEF TypeOK, Steps, Idle, Pressing
<1>4. /\ serving' \in [Clients -> Steps] /\ faults' \in 0..MaxFaults
      /\ \A d \in Clients : /\ serving'[d].step = serving[d].step
                            /\ serving'[d].step # "idle" => serving'[d].cmd = serving[d].cmd
  <2>1. CASE serving' = serving
    BY <1>1, <2>1, DispatchAssumption DEF Retry, Refuse, Fault, TypeOK, DispatchAssumption
  <2>2. CASE Retry(c)
    <3>1. PICK cmd \in Commands, n \in 0..MaxRetries : serving[c] = Pressing(cmd, n)
      BY <1>3
    <3>2. n + 1 \in 0..MaxRetries /\ faults' = faults
      BY <2>2, <3>1, DispatchAssumption DEF Retry, DispatchAssumption, Pressing
    <3>3. serving' = [serving EXCEPT ![c] = [Pressing(cmd, n) EXCEPT !.attempt = n + 1]]
      BY <2>2, <3>1 DEF Retry, Pressing
    <3>4. [Pressing(cmd, n) EXCEPT !.attempt = n + 1] = Pressing(cmd, n + 1)
      BY DEF Pressing
    <3>5. /\ Pressing(cmd, n + 1) \in Steps /\ Pressing(cmd, n + 1).step = "pressing"
          /\ Pressing(cmd, n + 1).cmd = cmd /\ Pressing(cmd, n).step = "pressing"
          /\ Pressing(cmd, n).cmd = cmd
      BY <3>2, StepFacts
    <3> QED BY <1>1, <3>1, <3>2, <3>3, <3>4, <3>5 DEF TypeOK
  <2> QED BY <2>1, <2>2 DEF Refuse
<1>5. TypeOK'
  <2>1. /\ request' \in [Clients -> {"none", "sent", "busy", "refused", "done"}]
        /\ request'[c] # "none" /\ \A d \in Clients : d # c => request'[d] = request[d]
    BY <1>1, <1>2 DEF TypeOK
  <2>2. \A d \in Clients : request'[d] # "none" <=> serving'[d].step = "pressing"
    BY <1>1, <1>3, <1>4, <2>1 DEF TypeOK
  <2> QED BY <1>1, <1>2, <1>4, <2>1, <2>2 DEF TypeOK
<1>6. OrderInv'
  BY <1>1, <1>2, <1>4 DEF OrderInv, Behind
<1>7. PressInv'
  <2>1. \A d \in Clients : serving[d].step = "pressing" =>
            (request'[d] = "done" <=> serving[d].cmd \in ToSet(acts))
    BY <1>1, <1>2 DEF PressInv, TypeOK
  <2> QED BY <1>1, <1>2, <1>4, <2>1 DEF PressInv, AnswersAreTrue
<1> QED BY <1>5, <1>6, <1>7 DEF IInv

-----------------------------------------------------------------------------
(* Recording, and Companion *)

LEMMA RecordStep ==
    ASSUME IInv, NEW c \in Clients, Record(c)
    PROVE  IInv'
<1>1. TypeOK /\ OrderInv /\ PressInv
  BY DEF IInv
<1>2. serving[c].step = "recording" /\ serving[c].cmd \in Commands
  BY <1>1, ServingCommand DEF Record
<1>3. /\ serving' = [serving EXCEPT ![c] = Idle] /\ store' = serving[c].cmd.value
      /\ UNCHANGED <<link, inbox, request, acts, late, sent, overlapped, lost, faults>>
  BY DEF Record, Finish
<1> DEFINE delta == Frame("delta", serving[c].cmd)
<1>4. delta \in Frames /\ delta.type \notin Answers
  BY <1>2 DEF Frame, Frames, Answers
<1> HIDE DEF delta
<1>5. /\ outbox' \in [Clients -> Seq(Frames)]
      /\ \A d \in Clients : \A f \in ToSet(outbox'[d]) :
           f \in ToSet(outbox[d]) \/ f.type \notin Answers
  <2>1. \A d \in Clients : /\ outbox[d] \in Seq(Frames)
                           /\ Append(outbox[d], delta) \in Seq(Frames)
                           /\ ToSet(Append(outbox[d], delta)) = ToSet(outbox[d]) \cup {delta}
    BY <1>1, <1>4, AppendElements DEF TypeOK
  <2>2. CASE outbox' = outbox
    BY <1>1, <2>2 DEF TypeOK
  <2>3. CASE outbox' = [d \in Clients |-> IF link[d] = "up" THEN Append(outbox[d], delta)
                                          ELSE outbox[d]]
    BY <1>4, <2>1, <2>3
  <2> QED BY <2>2, <2>3 DEF Record, delta
<1>6. Idle \in Steps /\ Idle.step = "idle"
  BY DEF Steps, Idle
<1>7. \A d \in Clients : serving'[d] = serving[d] \/ (d = c /\ serving'[d] = Idle)
  BY <1>1, <1>3 DEF TypeOK
<1>8. TypeOK'
  <2>1. store' \in Values \cup {Unknown}
    BY <1>2, <1>3 DEF Commands
  <2>2. serving' \in [Clients -> Steps]
    BY <1>1, <1>3, <1>6 DEF TypeOK
  <2>3. \A d \in Clients : request[d] # "none" <=> serving'[d].step = "pressing"
    BY <1>1, <1>2, <1>6, <1>7, ServingCommand
  <2> QED BY <1>1, <1>3, <1>5, <2>1, <2>2, <2>3 DEF TypeOK
<1>9. OrderInv'
  BY <1>1, <1>3, <1>5, <1>6, <1>7 DEF OrderInv, Behind
<1>10. PressInv'
  <2>1. AnswersAreTrue'
    BY <1>1, <1>3, <1>5 DEF PressInv, AnswersAreTrue, Answers
  <2> QED BY <1>1, <1>3, <1>5, <1>6, <1>7, <2>1 DEF PressInv
<1> QED BY <1>8, <1>9, <1>10 DEF IInv

\* What Companion performs it had not performed, and no answer has said so.
LEMMA ActOnce ==
    ASSUME IInv, NEW cmd \in Commands, Act(cmd), Behind(cmd), cmd \notin ToSet(acts),
           late' \in {late, late \ {cmd}}, cmd \notin late',
           request' \in [Clients -> {"none", "sent", "busy", "refused", "done"}],
           \A d \in Clients : request'[d] # "none" <=> serving[d].step = "pressing",
           \A d \in Clients :
             serving[d].step = "pressing" =>
               (request'[d] = "done" <=> request[d] = "done" \/ serving[d].cmd = cmd),
           \A d \in Clients : \A f \in ToSet(outbox[d]) :
               f.type = "nak" => f.cmd # cmd \/ f.cmd \in lost,
           UNCHANGED <<link, inbox, outbox, serving, store, sent, lost, faults>>
    PROVE  IInv'
<1>1. TypeOK /\ OrderInv /\ PressInv
  BY DEF IInv
<1>2. /\ acts' \in Seq(Commands) /\ ToSet(acts') = ToSet(acts) \cup {cmd}
      /\ IsInjective(acts')
  BY <1>1, AppendElements DEF Act, TypeOK, PressInv
<1>3. overlapped' \subseteq Commands
  <2>1. Unrecorded \subseteq Commands
    BY <1>1, ServingCommand DEF Unrecorded
  <2> QED BY <1>1, <2>1 DEF Act, TypeOK
<1>4. TypeOK'
  BY <1>1, <1>2, <1>3 DEF TypeOK
<1>5. OrderInv'
  BY <1>1, <1>2 DEF OrderInv, Behind
<1>6. AnswersAreTrue'
  BY <1>1, <1>2 DEF PressInv, AnswersAreTrue
<1>7. PressInv'
  BY <1>1, <1>2, <1>6 DEF PressInv
<1> QED BY <1>4, <1>5, <1>7 DEF IInv

LEMMA PerformStep ==
    ASSUME IInv, NEW c \in Clients, Perform(c)
    PROVE  IInv'
<1>1. TypeOK /\ OrderInv /\ PressInv
  BY DEF IInv
<1>2. /\ serving[c].step = "pressing" /\ serving[c].cmd \in Commands
      /\ serving[c].cmd.client = c /\ Behind(serving[c].cmd)
      /\ serving[c].cmd \notin late /\ serving[c].cmd \notin ToSet(acts)
  BY <1>1, ServingCommand DEF Perform, OrderInv, PressInv
<1>3. /\ request' = [request EXCEPT ![c] = "done"] /\ Act(serving[c].cmd)
      /\ UNCHANGED <<link, inbox, outbox, serving, store, late, sent, lost, faults>>
  BY DEF Perform
<1>4. /\ request' \in [Clients -> {"none", "sent", "busy", "refused", "done"}]
      /\ \A d \in Clients : request'[d] = IF d = c THEN "done" ELSE request[d]
  BY <1>1, <1>3 DEF TypeOK
<1>5. \A d \in Clients :
        serving[d].step = "pressing" =>
          (request'[d] = "done" <=> request[d] = "done" \/ serving[d].cmd = serving[c].cmd)
  BY <1>1, <1>2, <1>4 DEF OrderInv
<1>6. \A d \in Clients : \A f \in ToSet(outbox[d]) :
        f.type = "nak" => f.cmd # serving[c].cmd
  BY <1>1, <1>2 DEF OrderInv, PressInv, Answers
<1>7. \A d \in Clients : request'[d] # "none" <=> serving[d].step = "pressing"
  BY <1>1, <1>2, <1>4, ServingCommand
<1> QED BY <1>2, <1>3, <1>4, <1>5, <1>6, <1>7, ActOnce

LEMMA LateStep ==
    ASSUME IInv, NEW cmd \in late, PerformLate(cmd) \/ DropLate(cmd)
    PROVE  IInv'
<1>1. TypeOK /\ OrderInv /\ PressInv
  BY DEF IInv
<1>2. /\ cmd \in Commands /\ cmd \in lost /\ cmd \notin ToSet(acts) /\ Behind(cmd)
      /\ \A d \in Clients : serving[d].step = "pressing" => serving[d].cmd # cmd
  BY <1>1, TypedCommands DEF OrderInv, PressInv
<1>3. /\ late' = late \ {cmd}
      /\ UNCHANGED <<link, inbox, outbox, serving, request, store, sent, lost, faults>>
  BY DEF PerformLate, DropLate
<1>4. CASE PerformLate(cmd)
  <2>1. Act(cmd)
    BY <1>4 DEF PerformLate
  <2>2. request' \in [Clients -> {"none", "sent", "busy", "refused", "done"}]
    BY <1>1, <1>3 DEF TypeOK
  <2>3. \A d \in Clients : request'[d] # "none" <=> serving[d].step = "pressing"
    BY <1>1, <1>3, ServingCommand
  <2> QED BY <1>2, <1>3, <2>1, <2>2, <2>3, ActOnce
<1>5. CASE DropLate(cmd)
  <2>1. UNCHANGED <<acts, overlapped>>
    BY <1>5 DEF DropLate
  <2>2. TypeOK'
    BY <1>1, <1>3, <2>1 DEF TypeOK
  <2>3. OrderInv'
    BY <1>1, <1>3, <2>1 DEF OrderInv, Behind
  <2>4. PressInv'
    BY <1>1, <1>3, <2>1 DEF PressInv, AnswersAreTrue
  <2> QED BY <2>2, <2>3, <2>4 DEF IInv
<1> QED BY <1>4, <1>5

-----------------------------------------------------------------------------
LEMMA NextInv == IInv /\ [Next]_vars => IInv'
<1> SUFFICES ASSUME IInv, [Next]_vars PROVE IInv'
  OBVIOUS
<1>1. CASE UNCHANGED vars
  <2>1. TypeOK'
    BY <1>1 DEF vars, IInv, TypeOK
  <2>2. OrderInv'
    BY <1>1 DEF vars, IInv, OrderInv, Behind
  <2>3. PressInv'
    BY <1>1 DEF vars, IInv, PressInv, AnswersAreTrue
  <2> QED BY <2>1, <2>2, <2>3 DEF IInv
<1>2. ASSUME NEW c \in Clients,
             Connect(c) \/ Close(c) \/ Serve(c) \/ Answer(c)
      PROVE  IInv'
  BY <1>2, LinkStep, GoneStep, TakeStep, TryStep, OverStep, RecordStep, PerformStep
     DEF Serve, Answer
<1>3. ASSUME NEW c \in Clients, NEW kind \in Kinds, NEW v \in Values \cup {Unknown},
             Send(c, kind, v)
      PROVE  IInv'
  BY <1>3, SendStep
<1>4. ASSUME NEW cmd \in late, PerformLate(cmd) \/ DropLate(cmd)
      PROVE  IInv'
  BY <1>4, LateStep
<1> QED BY <1>1, <1>2, <1>3, <1>4 DEF Next

\* The inductive invariant holds in every reachable state.
THEOREM Invariance == Spec => []IInv
BY InitInv, NextInv, PTL DEF Spec

\* Companion performs a press at most once, however often it is tried and
\* whatever is given up on (companion/client.go attempt and do).
THEOREM Once == Spec => []ActsOnce
<1>1. IInv => ActsOnce
  BY DEF IInv, PressInv, ActsOnce
<1> QED BY <1>1, Invariance, PTL

\* What an operator is told happened, and what is denied did not, unless its
\* request went unanswered (api/client.go handleCmd, companion/client.go do).
THEOREM TrueAnswers == Spec => []AnswersAreTrue
<1>1. IInv => AnswersAreTrue
  BY DEF IInv, PressInv
<1> QED BY <1>1, Invariance, PTL

-----------------------------------------------------------------------------
(* The state and the booth *)

\* The last change performed raced another one, or its outcome was lost, or it
\* is the only one that may be due.
FollowInv ==
    \A i \in 1..Len(acts) : Latest(i) =>
        \/ acts[i] \in overlapped \cup lost
        \/ Unrecorded \subseteq {acts[i]} /\ (acts[i] \in Unrecorded \/ store = acts[i].value)

\* What is performed becomes the last change, or leaves it as it is.
LEMMA ActLatest ==
    ASSUME TypeOK, NEW cmd \in Commands, Act(cmd), NEW i \in 1..Len(acts'), Latest(i)'
    PROVE  \/ cmd.kind = "set" /\ acts'[i] = cmd
           \/ cmd.kind # "set" /\ i \in 1..Len(acts) /\ acts'[i] = acts[i] /\ Latest(i)
<1>1. /\ acts \in Seq(Commands) /\ acts' = Append(acts, cmd) /\ Len(acts) \in Nat
      /\ Len(acts') = Len(acts) + 1 /\ acts'[Len(acts) + 1] = cmd
      /\ \A j \in 1..Len(acts) : acts'[j] = acts[j]
  BY DEF TypeOK, Act
<1>2. CASE cmd.kind = "set"
  <2>1. Len(acts) + 1 <= i
    BY <1>1, <1>2 DEF Latest
  <2> QED BY <1>1, <1>2, <2>1
<1>3. CASE cmd.kind # "set"
  <2>1. i \in 1..Len(acts)
    BY <1>1, <1>3 DEF Latest
  <2> QED BY <1>1, <1>3, <2>1 DEF Latest
<1> QED BY <1>2, <1>3

\* Nothing is performed, and what is due stays due.
LEMMA FollowSame ==
    ASSUME FollowInv, UNCHANGED <<acts, store>>, Unrecorded' = Unrecorded,
           overlapped \subseteq overlapped', lost \subseteq lost'
    PROVE  FollowInv'
BY DEF FollowInv, Latest

LEMMA FollowGiveUp ==
    ASSUME IInv, FollowInv, NEW c \in Clients, NoAnswer(c) \/ Cancelled(c)
    PROVE  FollowInv'
<1>1. /\ serving' = [serving EXCEPT ![c] = Idle] /\ request' = [request EXCEPT ![c] = "none"]
      /\ UNCHANGED <<acts, store, overlapped>> /\ lost \subseteq lost'
      /\ request[c] = "done" => serving[c].cmd \in lost'
      /\ serving[c].step # "recording"
  BY DEF NoAnswer, Cancelled, GiveUp, Finish, IInv, TypeOK
<1>2. /\ Unrecorded' \subseteq Unrecorded
      /\ Unrecorded \subseteq Unrecorded' \cup
            (IF request[c] = "done" /\ serving[c].cmd.kind = "set" THEN {serving[c].cmd} ELSE {})
  <2>1. /\ \A d \in Clients \ {c} : serving'[d] = serving[d] /\ request'[d] = request[d]
        /\ serving'[c] = Idle /\ request'[c] = "none"
    BY <1>1 DEF IInv, TypeOK
  <2> QED BY <1>1, <2>1 DEF Unrecorded, Idle
<1> QED BY <1>1, <1>2 DEF FollowInv, Latest

LEMMA FollowRecord ==
    ASSUME IInv, FollowInv, NEW c \in Clients, Record(c)
    PROVE  FollowInv'
<1>1. /\ serving' = [serving EXCEPT ![c] = Idle] /\ UNCHANGED <<acts, overlapped, lost, request>>
      /\ store' = serving[c].cmd.value /\ serving[c].step = "recording"
  BY DEF Record, Finish
<1>2. Unrecorded' \subseteq Unrecorded /\ serving[c].cmd \in Unrecorded
  <2>1. /\ \A d \in Clients \ {c} : serving'[d] = serving[d] /\ request'[d] = request[d]
        /\ serving'[c] = Idle /\ request[c] # "done"
    BY <1>1 DEF IInv, TypeOK
  <2> QED BY <1>1, <2>1 DEF Unrecorded, Idle
<1> QED BY <1>1, <1>2 DEF FollowInv, Latest

LEMMA FollowPerform ==
    ASSUME IInv, FollowInv, NEW c \in Clients, Perform(c)
    PROVE  FollowInv'
<1> DEFINE cmd == serving[c].cmd
<1>1. /\ request[c] = "sent" /\ request' = [request EXCEPT ![c] = "done"] /\ Act(cmd)
      /\ UNCHANGED <<serving, store, lost>> /\ serving[c].step = "pressing"
  BY DEF Perform, IInv, TypeOK
<1>2. cmd \in Commands
  BY <1>1 DEF IInv, TypeOK, Steps, Idle
<1>3. Unrecorded' = Unrecorded \cup (IF cmd.kind = "set" THEN {cmd} ELSE {})
  <2>1. /\ \A d \in Clients \ {c} : request'[d] = request[d]
        /\ request'[c] = "done"
    BY <1>1 DEF IInv, TypeOK
  <2> QED BY <1>1, <2>1 DEF Unrecorded
<1> SUFFICES ASSUME NEW i \in 1..Len(acts'), Latest(i)'
             PROVE  \/ acts'[i] \in overlapped' \cup lost'
                    \/ Unrecorded' \subseteq {acts'[i]} /\
                         (acts'[i] \in Unrecorded' \/ store' = acts'[i].value)
  BY DEF FollowInv
<1>4. \/ cmd.kind = "set" /\ acts'[i] = cmd
      \/ cmd.kind # "set" /\ i \in 1..Len(acts) /\ acts'[i] = acts[i] /\ Latest(i)
  BY <1>1, <1>2, ActLatest DEF IInv
<1>5. overlapped' = IF cmd.kind = "set" /\ Unrecorded # {}
                    THEN overlapped \cup Unrecorded \cup {cmd} ELSE overlapped
  BY <1>1 DEF Act
<1> QED BY <1>1, <1>3, <1>4, <1>5 DEF FollowInv

LEMMA FollowLate ==
    ASSUME IInv, FollowInv, NEW cmd \in late, PerformLate(cmd)
    PROVE  FollowInv'
<1>1. /\ cmd \in Commands /\ cmd \in lost /\ Act(cmd)
      /\ UNCHANGED <<serving, request, store, lost>>
  BY DEF PerformLate, IInv, TypeOK, PressInv
<1>2. Unrecorded' = Unrecorded /\ overlapped \subseteq overlapped'
  BY <1>1 DEF Unrecorded, Act
<1> SUFFICES ASSUME NEW i \in 1..Len(acts'), Latest(i)'
             PROVE  \/ acts'[i] \in overlapped' \cup lost'
                    \/ Unrecorded' \subseteq {acts'[i]} /\
                         (acts'[i] \in Unrecorded' \/ store' = acts'[i].value)
  BY DEF FollowInv
<1>3. \/ cmd.kind = "set" /\ acts'[i] = cmd
      \/ cmd.kind # "set" /\ i \in 1..Len(acts) /\ acts'[i] = acts[i] /\ Latest(i)
  BY <1>1, ActLatest DEF IInv
<1> QED BY <1>1, <1>2, <1>3 DEF FollowInv

Due(d) == \/ serving[d].step = "recording"
          \/ request[d] = "done" /\ serving[d].cmd.kind = "set"

LEMMA DueMeans ==
    ASSUME \A d \in Clients :
              (Due(d)' <=> Due(d)) /\ (Due(d) => serving'[d].cmd = serving[d].cmd)
    PROVE  Unrecorded' = Unrecorded
<1>1. \A x : x \in Unrecorded <=> \E d \in Clients : Due(d) /\ x = serving[d].cmd
  BY DEF Unrecorded, Due
<1>2. \A x : x \in Unrecorded' <=> \E d \in Clients : Due(d)' /\ x = serving'[d].cmd
  BY DEF Unrecorded, Due
<1>3. \A x : x \in Unrecorded' <=> x \in Unrecorded
  BY <1>1, <1>2
<1> QED BY <1>3 DEF Unrecorded

\* The steps that leave what is due as it is.
LEMMA DueSame ==
    ASSUME IInv, NEW c \in Clients,
           \/ Connect(c) \/ Close(c) \/ Gone(c) \/ Take(c) \/ Retry(c) \/ Reject(c)
           \/ Acknowledge(c) \/ (\E how \in {"busy", "refused"} : Refuse(c, how))
           \/ \E kind \in Kinds, v \in Values \cup {Unknown} : Send(c, kind, v)
    PROVE  UNCHANGED <<acts, store, overlapped, lost>> /\ Unrecorded' = Unrecorded
<1> USE DEF IInv, TypeOK
<1>1. UNCHANGED <<acts, store, overlapped, lost>>
  BY DEF Connect, Close, Gone, Take, Retry, Reject, Acknowledge, Refuse, Send
<1>2. \/ UNCHANGED <<serving, request>> \/ Take(c) \/ Retry(c) \/ Reject(c) \/ Acknowledge(c)
      \/ \E how \in {"busy", "refused"} : Refuse(c, how)
  BY DEF Connect, Close, Gone, Send
<1>3. \A d \in Clients \ {c} : serving'[d] = serving[d] /\ request'[d] = request[d]
  BY <1>2 DEF Take, Retry, Reject, Acknowledge, Refuse, Finish
<1>4. /\ Due(c)' <=> Due(c)
      /\ Due(c) => serving'[c].cmd = serving[c].cmd
  <2>1. CASE UNCHANGED <<serving, request>>
    BY <2>1 DEF Due
  <2>2. CASE Take(c)
    <3>1. serving[c].step = "idle" /\ request[c] = "none"
      BY <2>2 DEF Take, Idle
    <3>2. serving'[c].step # "recording" /\ request'[c] # "done"
      BY <2>2, <3>1 DEF Take, Pressing, Idle
    <3> QED BY <3>1, <3>2 DEF Due
  <2>3. CASE Retry(c)
    BY <2>3 DEF Retry, Steps, Idle, Due
  <2>4. CASE Reject(c)
    BY <2>4 DEF Reject, Finish, Idle, Due
  <2>5. CASE Acknowledge(c)
    BY <2>5 DEF Acknowledge, Recording, Idle, Due
  <2>6. CASE \E how \in {"busy", "refused"} : Refuse(c, how)
    BY <2>6 DEF Refuse, Due
  <2> QED BY <1>2, <2>1, <2>2, <2>3, <2>4, <2>5, <2>6
<1>5. Unrecorded' = Unrecorded
  <2>1. ASSUME NEW d \in Clients
        PROVE  (Due(d)' <=> Due(d)) /\ (Due(d) => serving'[d].cmd = serving[d].cmd)
    BY <1>3, <1>4 DEF Due
  <2> QED BY <2>1, DueMeans
<1> QED BY <1>1, <1>5

LEMMA FollowStep == IInv /\ FollowInv /\ [Next]_vars => FollowInv'
<1> SUFFICES ASSUME IInv, FollowInv, [Next]_vars PROVE FollowInv'
  OBVIOUS
<1>1. CASE UNCHANGED vars
  BY <1>1, FollowSame DEF vars, Unrecorded
<1>2. ASSUME NEW c \in Clients, Record(c) PROVE FollowInv'
  BY <1>2, FollowRecord
<1>3. ASSUME NEW c \in Clients, NoAnswer(c) \/ Cancelled(c) PROVE FollowInv'
  BY <1>3, FollowGiveUp
<1>4. ASSUME NEW c \in Clients, Perform(c) PROVE FollowInv'
  BY <1>4, FollowPerform
<1>5. ASSUME NEW cmd \in late, PerformLate(cmd) PROVE FollowInv'
  BY <1>5, FollowLate
<1>6. ASSUME NEW cmd \in late, DropLate(cmd) PROVE FollowInv'
  BY <1>6, FollowSame DEF DropLate, Unrecorded
<1>7. ASSUME NEW c \in Clients,
             \/ Connect(c) \/ Close(c) \/ Gone(c) \/ Take(c) \/ Retry(c) \/ Reject(c)
             \/ Acknowledge(c) \/ (\E how \in {"busy", "refused"} : Refuse(c, how))
             \/ \E kind \in Kinds, v \in Values \cup {Unknown} : Send(c, kind, v)
      PROVE  FollowInv'
  BY <1>7, DueSame, FollowSame
<1> QED BY <1>1, <1>2, <1>3, <1>4, <1>5, <1>6, <1>7 DEF Next, Serve, Answer

\* The state is what Companion was last told, unless that command raced another
\* one or its outcome was lost.
THEOREM Follows == Spec => []StateFollowsBooth
<1>1. Init => FollowInv
  BY DEF Init, FollowInv
<1>2. FollowInv => StateFollowsBooth
  BY DEF FollowInv, StateFollowsBooth
<1> QED BY <1>1, <1>2, FollowStep, Invariance, PTL DEF Spec
-----------------------------------------------------------------------------
(***************************************************************************)
(* Dispatch implements Booth: a step of the code is a step of Booth, or    *)
(* changes nothing Booth sees.                                             *)
(***************************************************************************)

\* One client's part of a union changes, and no other's.
LEMMA UnionOf ==
    ASSUME NEW F, NEW G, NEW c \in Clients,
           \A d \in Clients \ {c} : G[d] = F[d],
           \A d \in Clients : \A x \in F[d] : x.client = d,
           NEW g, NEW h, \A x \in g : x.client = c, G[c] = (F[c] \ g) \cup h
    PROVE  (UNION {G[d] : d \in Clients}) = ((UNION {F[d] : d \in Clients}) \ g) \cup h
<1>1. \A x : x \in UNION {G[d] : d \in Clients} <=> \E d \in Clients : x \in G[d]
  OBVIOUS
<1>2. \A x : x \in UNION {F[d] : d \in Clients} <=> \E d \in Clients : x \in F[d]
  OBVIOUS
<1>3. ASSUME NEW x
      PROVE  (\E d \in Clients : x \in G[d]) <=> ((\E d \in Clients : x \in F[d]) /\ x \notin g) \/ x \in h
  <2>1. ASSUME NEW d \in Clients, x \in G[d]
        PROVE  (x \in F[d] /\ x \notin g) \/ x \in h
    BY <2>1
  <2>2. ASSUME NEW d \in Clients, x \in F[d], x \notin g
        PROVE  x \in G[d]
    BY <2>2
  <2> QED BY <2>1, <2>2
<1> QED BY <1>1, <1>2, <1>3

\* The commands that wait for an answer are their own connection's, none of them
\* is given up on, and only a press that is done was performed.
LEMMA Distinct ==
    ASSUME IInv, NEW c \in Clients
    PROVE  /\ \A x \in Waiting(c) : x.client = c /\ x \notin late
           /\ Wanted(c) \subseteq Waiting(c)
           /\ \A x \in Doing(c, "recording") : x.client = c
           /\ \A w \in ToSet(inbox[c]) : w \notin ToSet(acts) /\ w \notin Doing(c, "pressing")
           /\ \A x \in Doing(c, "pressing") : x \in ToSet(acts) <=> request[c] = "done"
<1>1. TypeOK /\ OrderInv /\ PressInv
  BY DEF IInv
<1>2. ASSUME NEW w \in ToSet(inbox[c]), NEW x, Behind(x) PROVE w # x
  <2>1. w \in Commands /\ w.client = c
    BY <1>1, TypedCommands DEF OrderInv
  <2>2. w.id \in Nat
    BY <2>1 DEF Commands
  <2> QED BY <1>2, <2>1, <2>2 DEF Behind
<1>3. \A w \in ToSet(inbox[c]) : w.client = c /\ w \notin late /\ w \notin ToSet(acts)
  BY <1>1, <1>2 DEF OrderInv
<1>4. ASSUME NEW x, x \in Doing(c, "pressing") \/ x \in Doing(c, "recording")
      PROVE  x.client = c /\ x \notin ToSet(inbox[c])
  <2>1. x = serving[c].cmd /\ serving[c].step # "idle"
    BY <1>4 DEF Doing
  <2> QED BY <1>1, <1>2, <2>1 DEF OrderInv
<1>5. \A x \in Doing(c, "pressing") : x \notin late /\ (x \in ToSet(acts) <=> request[c] = "done")
  BY <1>1 DEF PressInv, Doing
<1> QED BY <1>3, <1>4, <1>5 DEF Waiting, Wanted

\* What Companion may yet be asked to perform.
Requested == UNION {Wanted(c) : c \in Clients}

LEMMA AbleIs == Able = late \cup Requested /\ Able' = late' \cup Requested'
BY DEF Able, Requested

Turns(old, new, g, h) == new = (old \ g) \cup h

\* What a step of one connection makes of all.
LEMMA OneChanges ==
    ASSUME IInv, NEW c \in Clients,
           \A d \in Clients \ {c} :
               inbox'[d] = inbox[d] /\ serving'[d] = serving[d] /\ request'[d] = request[d]
    PROVE  \A g, h : (\A x \in g : x.client = c) =>
               /\ Turns(Waiting(c), Waiting(c)', g, h) => Turns(Open, Open', g, h)
               /\ Turns(Wanted(c), Wanted(c)', g, h) => Turns(Requested, Requested', g, h)
               /\ Turns(Doing(c, "recording"), Doing(c, "recording")', g, h)
                    => Turns(Changing, Changing', g, h)
<1> SUFFICES ASSUME NEW g, NEW h, \A x \in g : x.client = c
             PROVE  /\ Turns(Waiting(c), Waiting(c)', g, h) => Turns(Open, Open', g, h)
                    /\ Turns(Wanted(c), Wanted(c)', g, h) => Turns(Requested, Requested', g, h)
                    /\ Turns(Doing(c, "recording"), Doing(c, "recording")', g, h)
                         => Turns(Changing, Changing', g, h)
  OBVIOUS
<1>1. ASSUME NEW d \in Clients \ {c}
      PROVE  /\ Waiting(d)' = Waiting(d) /\ Wanted(d)' = Wanted(d)
             /\ Doing(d, "recording")' = Doing(d, "recording")
  <2>1. inbox'[d] = inbox[d] /\ serving'[d] = serving[d] /\ request'[d] = request[d]
    OBVIOUS
  <2> QED BY <2>1 DEF Waiting, Wanted, Doing
<1>2. ASSUME NEW d \in Clients
      PROVE  /\ \A x \in Waiting(d) : x.client = d
             /\ \A x \in Wanted(d) : x.client = d
             /\ \A x \in Doing(d, "recording") : x.client = d
  BY Distinct
<1>3. ASSUME Waiting(c)' = (Waiting(c) \ g) \cup h PROVE Open' = (Open \ g) \cup h
  <2> DEFINE F == [d \in Clients |-> Waiting(d)]
             G == [d \in Clients |-> Waiting(d)']
  <2>1. /\ \A d \in Clients \ {c} : G[d] = F[d]
        /\ \A d \in Clients : \A x \in F[d] : x.client = d
        /\ G[c] = (F[c] \ g) \cup h
    BY <1>1, <1>2, <1>3
  <2>2. Open = UNION {F[d] : d \in Clients} /\ Open' = UNION {G[d] : d \in Clients}
    BY DEF Open
  <2> HIDE DEF F, G
  <2> QED BY <2>1, <2>2, UnionOf
<1>4. ASSUME Wanted(c)' = (Wanted(c) \ g) \cup h PROVE Requested' = (Requested \ g) \cup h
  <2> DEFINE F == [d \in Clients |-> Wanted(d)]
             G == [d \in Clients |-> Wanted(d)']
  <2>1. /\ \A d \in Clients \ {c} : G[d] = F[d]
        /\ \A d \in Clients : \A x \in F[d] : x.client = d
        /\ G[c] = (F[c] \ g) \cup h
    BY <1>1, <1>2, <1>4
  <2>2. Requested = UNION {F[d] : d \in Clients} /\ Requested' = UNION {G[d] : d \in Clients}
    BY DEF Requested
  <2> HIDE DEF F, G
  <2> QED BY <2>1, <2>2, UnionOf
<1>5. ASSUME Doing(c, "recording")' = (Doing(c, "recording") \ g) \cup h
      PROVE  Changing' = (Changing \ g) \cup h
  <2> DEFINE F == [d \in Clients |-> Doing(d, "recording")]
             G == [d \in Clients |-> Doing(d, "recording")']
  <2>1. /\ \A d \in Clients \ {c} : G[d] = F[d]
        /\ \A d \in Clients : \A x \in F[d] : x.client = d
        /\ G[c] = (F[c] \ g) \cup h
    BY <1>1, <1>2, <1>5
  <2>2. Changing = UNION {F[d] : d \in Clients} /\ Changing' = UNION {G[d] : d \in Clients}
    BY DEF Changing
  <2> HIDE DEF F, G
  <2> QED BY <2>1, <2>2, UnionOf
<1> QED BY <1>3, <1>4, <1>5 DEF Turns

-----------------------------------------------------------------------------
(* Each step is a step of the booth, or nothing *)

LEMMA BoothInit == Init => Abstract!BInit
<1> SUFFICES ASSUME Init PROVE Abstract!BInit
  OBVIOUS
<1>1. /\ \A c \in Clients : link[c] # "up" /\ inbox[c] = <<>> /\ serving[c] = Idle
      /\ sent = [c \in Clients |-> 0] /\ acts = <<>> /\ late = {} /\ lost = {}
      /\ outbox = [c \in Clients |-> <<>>] /\ store = Unknown
  BY DEF Init
<1>2. ASSUME NEW c \in Clients PROVE Waiting(c) = {} /\ Wanted(c) = {} /\ Doing(c, "recording") = {}
  BY <1>1 DEF Waiting, Wanted, Doing, Idle, ToSet
<1>3. Up = {} /\ Open = {} /\ Able = {} /\ Changing = {}
  BY <1>1, <1>2 DEF Up, Open, Able, Changing
<1> QED BY <1>1, <1>3 DEF Abstract!BInit

\* A step that leaves inboxes, goroutines and requests alone.
LEMMA Unmoved ==
    ASSUME UNCHANGED <<inbox, serving, request>>
    PROVE  Open' = Open /\ Requested' = Requested /\ Changing' = Changing
BY DEF Open, Requested, Changing, Waiting, Wanted, Doing

LEMMA UpSame == ASSUME link' = link PROVE Up' = Up
BY DEF Up

LEMMA BoothLink ==
    ASSUME IInv, NEW c \in Clients, Connect(c) \/ Close(c)
    PROVE  Abstract!Connect(c) \/ Abstract!HangUp(c)
<1>1. /\ UNCHANGED <<inbox, outbox, serving, request, store, acts, late, sent, lost>>
      /\ \/ link' = [link EXCEPT ![c] = "up"]
         \/ link' = [link EXCEPT ![c] = "closing"]
  BY DEF Connect, Close
<1>2. Up' = Up \cup {c} \/ Up' = Up \ {c}
  BY <1>1 DEF Up, IInv, TypeOK
<1>3. Open' = Open /\ Able' = Able /\ Changing' = Changing
  BY <1>1, Unmoved, AbleIs
<1> QED BY <1>1, <1>2, <1>3 DEF Abstract!Connect, Abstract!HangUp

\* When the connection has ended, what it did not get to is forgotten.
LEMMA BoothGone ==
    ASSUME IInv, NEW c \in Clients, Gone(c)
    PROVE  \E gone \in SUBSET Open : Abstract!Lapse(c, gone)
<1> DEFINE gone == ToSet(inbox[c])
<1>1. /\ link[c] = "closing" /\ link' = [link EXCEPT ![c] = "down"] /\ serving[c] = Idle
      /\ inbox' = [inbox EXCEPT ![c] = <<>>] /\ outbox' = [outbox EXCEPT ![c] = <<>>]
      /\ UNCHANGED <<serving, request, store, acts, late, sent, lost>>
  BY DEF Gone
<1>2. c \notin Up /\ Up' = Up
  BY <1>1 DEF Up, IInv, TypeOK
<1>3. \A d \in Clients \ {c} :
          inbox'[d] = inbox[d] /\ serving'[d] = serving[d] /\ request'[d] = request[d]
  BY <1>1 DEF IInv, TypeOK
<1>4. ToSet(inbox'[c]) = {}
  BY <1>1 DEF IInv, TypeOK, ToSet
<1>5. Doing(c, "pressing") = {} /\ Doing(c, "pressing")' = {} /\ Doing(c, "recording") = {}
      /\ Doing(c, "recording")' = {}
  BY <1>1 DEF Doing, Idle
<1>6. Waiting(c) = gone /\ Waiting(c)' = {} /\ Wanted(c) \subseteq gone /\ Wanted(c)' = {}
  BY <1>4, <1>5 DEF Waiting, Wanted
<1>7. \A x \in gone : x.client = c /\ x \notin late
  BY <1>6, Distinct
<1>8. gone \subseteq {cmd \in Open : cmd.client = c}
  BY <1>6, <1>7 DEF Open
<1>9. Turns(Open, Open', gone, {}) /\ Turns(Requested, Requested', gone, {})
  <2> HIDE DEF gone
  <2>1. Turns(Waiting(c), Waiting(c)', gone, {}) /\ Turns(Wanted(c), Wanted(c)', gone, {})
    BY <1>6 DEF Turns
  <2> QED BY <2>1, <1>3, <1>7, OneChanges
<1>10. Changing' = Changing
  BY <1>1 DEF Changing, Doing
<1>11. Able' = Able \ gone
  BY <1>1, <1>7, <1>9, AbleIs DEF Turns
<1> HIDE DEF gone
<1>12. Abstract!Lapse(c, gone)
  BY <1>1, <1>2, <1>8, <1>9, <1>10, <1>11 DEF Abstract!Lapse, Turns
<1> QED BY <1>8, <1>12

LEMMA BoothOffer ==
    ASSUME IInv, NEW c \in Clients, NEW kind \in Kinds, NEW v \in Values \cup {Unknown},
           Send(c, kind, v)
    PROVE  Abstract!Offer(c, [client |-> c, id |-> sent[c] + 1, kind |-> kind, value |-> v])
<1> DEFINE cmd == [client |-> c, id |-> sent[c] + 1, kind |-> kind, value |-> v]
<1>1. /\ link[c] = "up" /\ sent' = [sent EXCEPT ![c] = cmd.id]
      /\ inbox' = [inbox EXCEPT ![c] = Append(inbox[c], cmd)]
      /\ UNCHANGED <<link, outbox, serving, request, store, acts, late, lost>>
  BY DEF Send, IInv, TypeOK
<1>2. cmd \in Commands /\ cmd.kind = kind /\ inbox[c] \in Seq(Commands)
  BY DEF Send, Commands, IInv, TypeOK
<1> HIDE DEF cmd
<1>3. ToSet(inbox'[c]) = ToSet(inbox[c]) \cup {cmd}
  BY <1>1, <1>2, AppendElements DEF IInv, TypeOK
<1>4. \A d \in Clients \ {c} :
          inbox'[d] = inbox[d] /\ serving'[d] = serving[d] /\ request'[d] = request[d]
  BY <1>1 DEF IInv, TypeOK
<1> DEFINE new == IF kind \in Presses THEN {cmd} ELSE {}
<1>5. /\ Turns(Waiting(c), Waiting(c)', {}, {cmd}) /\ Turns(Wanted(c), Wanted(c)', {}, new)
      /\ Changing' = Changing
  <2>1. Doing(c, "pressing")' = Doing(c, "pressing") /\ request' = request
    BY <1>1 DEF Doing
  <2>2. Changing' = Changing
    BY <1>1 DEF Changing, Doing
  <2> QED BY <1>2, <1>3, <2>1, <2>2 DEF Waiting, Wanted, Turns
<1>6. Turns(Open, Open', {}, {cmd}) /\ Turns(Requested, Requested', {}, new)
  <2> HIDE DEF new
  <2>1. \A x \in {} : x.client = c
    OBVIOUS
  <2> QED BY <1>4, <1>5, <2>1, OneChanges
<1>7. Able' = IF cmd.kind \in {"set", "press"} THEN Able \cup {cmd} ELSE Able
  BY <1>1, <1>2, <1>6, AbleIs DEF Presses, Turns
<1>8. c \in Up /\ Up' = Up
  BY <1>1 DEF Up
<1>9. Abstract!Offer(c, cmd)
  BY <1>1, <1>5, <1>6, <1>7, <1>8 DEF Abstract!Offer, Turns
<1> QED BY <1>9 DEF cmd

\* A frame that is queued is read if the client is still connected.
LEMMA QueueTells ==
    ASSUME TypeOK, NEW c \in Clients, NEW type, NEW cmd, cmd.client = c, Queue(c, type, cmd)
    PROVE  Abstract!Tell({cmd.client}, type, cmd)
<1>1. outbox \in [Clients -> Seq(Frames)]
  BY DEF TypeOK
<1>2. outbox' = IF link[c] = "up" THEN [outbox EXCEPT ![c] = Append(outbox[c], [type |-> type, cmd |-> cmd])]
                ELSE outbox
  BY DEF Queue, Frame
<1>3. c \in Up <=> link[c] = "up"
  BY DEF Up
<1>4. outbox' = [d \in Clients |-> IF d \in {c} \cap Up
                                   THEN Append(outbox[d], [type |-> type, cmd |-> cmd])
                                   ELSE outbox[d]]
  BY <1>1, <1>2, <1>3
<1> QED BY <1>4 DEF Abstract!Tell

\* What the end of a press, answered and perhaps to be recorded, makes of all.
LEMMA PressOver ==
    ASSUME IInv, NEW c \in Clients, serving[c].step = "pressing",
           NEW new \in {Idle, Recording(serving[c].cmd)},
           serving' = [serving EXCEPT ![c] = new], request' = [request EXCEPT ![c] = "none"],
           inbox' = inbox
    PROVE  LET cmd == serving[c].cmd IN
           /\ cmd \in Open /\ cmd.client = c /\ cmd \notin late
           /\ cmd \in ToSet(acts) <=> request[c] = "done"
           /\ cmd \in Requested <=> request[c] # "done"
           /\ Turns(Open, Open', {cmd}, {}) /\ Turns(Requested, Requested', {cmd}, {})
           /\ Turns(Changing, Changing', {}, IF new = Idle THEN {} ELSE {cmd})
<1> DEFINE cmd == serving[c].cmd
           more == IF new = Idle THEN {} ELSE {cmd}
<1>1. /\ serving'[c] = new /\ request'[c] = "none" /\ inbox'[c] = inbox[c]
      /\ \A d \in Clients \ {c} :
            inbox'[d] = inbox[d] /\ serving'[d] = serving[d] /\ request'[d] = request[d]
  BY DEF IInv, TypeOK
<1>2. Doing(c, "pressing") = {cmd} /\ Doing(c, "recording") = {}
  BY DEF Doing
<1>3. Doing(c, "pressing")' = {} /\ Doing(c, "recording")' = more
  BY <1>1 DEF Doing, Idle, Recording
<1>4. /\ cmd.client = c /\ cmd \notin late /\ cmd \notin ToSet(inbox[c])
      /\ cmd \in ToSet(acts) <=> request[c] = "done"
  BY <1>2, Distinct DEF Waiting
<1> HIDE DEF cmd, more
<1>5. /\ Turns(Waiting(c), Waiting(c)', {cmd}, {}) /\ Turns(Wanted(c), Wanted(c)', {cmd}, {})
      /\ Turns(Doing(c, "recording"), Doing(c, "recording")', {}, more)
  BY <1>1, <1>2, <1>3, <1>4 DEF Waiting, Wanted, Turns
<1>6. (\A x \in {cmd} : x.client = c) /\ (\A x \in {} : x.client = c)
  BY <1>4
<1>7. /\ Turns(Open, Open', {cmd}, {}) /\ Turns(Requested, Requested', {cmd}, {})
      /\ Turns(Changing, Changing', {}, more)
  BY <1>1, <1>5, <1>6, OneChanges
<1>8. cmd \in Open
  BY <1>2 DEF Open, Waiting
<1>9. cmd \in Requested <=> request[c] # "done"
  <2>1. cmd \in Wanted(c) <=> request[c] # "done"
    BY <1>2, <1>4 DEF Wanted
  <2>2. \A d \in Clients \ {c} : cmd \notin Wanted(d)
    BY <1>4, Distinct
  <2> QED BY <2>1, <2>2 DEF Requested
<1> QED BY <1>4, <1>7, <1>8, <1>9 DEF cmd, more

LEMMA BoothAck ==
    ASSUME IInv, NEW c \in Clients, Acknowledge(c)
    PROVE  \E cmd \in Open : Abstract!Ack(cmd)
<1> DEFINE cmd == serving[c].cmd
           new == IF cmd.kind = "set" THEN Recording(cmd) ELSE Idle
<1>1. /\ request[c] = "done" /\ Queue(c, "ack", cmd) /\ serving' = [serving EXCEPT ![c] = new]
      /\ request' = [request EXCEPT ![c] = "none"] /\ inbox' = inbox
      /\ UNCHANGED <<link, store, acts, late, sent, lost>>
  BY DEF Acknowledge
<1>2. TypeOK /\ serving[c].step = "pressing"
  BY <1>1 DEF IInv, TypeOK
<1>3. new = Idle <=> cmd.kind # "set"
  BY DEF Idle, Recording
<1>4. new \in {Idle, Recording(cmd)}
  OBVIOUS
<1>5. /\ cmd \in Open /\ cmd.client = c /\ cmd \notin late
      /\ cmd \in ToSet(acts) /\ cmd \notin Requested
      /\ Turns(Open, Open', {cmd}, {}) /\ Turns(Requested, Requested', {cmd}, {})
      /\ Turns(Changing, Changing', {}, IF new = Idle THEN {} ELSE {cmd})
  <2> HIDE DEF new
  <2> QED BY <1>1, <1>2, <1>4, PressOver
<1> HIDE DEF cmd, new
<1>6. Able' = Able
  BY <1>1, <1>5, AbleIs DEF Turns
<1>7. Changing' = IF cmd.kind = "set" THEN Changing \cup {cmd} ELSE Changing
  BY <1>3, <1>5 DEF Turns
<1>8. Abstract!Tell({cmd.client}, "ack", cmd)
  BY <1>1, <1>2, <1>5, QueueTells
<1>9. Abstract!Answer(cmd, "ack")
  BY <1>1, <1>5, <1>8, UpSame DEF Abstract!Answer, Turns
<1>10. Abstract!Ack(cmd)
  BY <1>1, <1>5, <1>6, <1>7, <1>9 DEF Abstract!Ack, Abstract!ToSet, ToSet
<1> QED BY <1>5, <1>10

LEMMA BoothNak ==
    ASSUME IInv, NEW c \in Clients, Reject(c) \/ NoAnswer(c) \/ Cancelled(c)
    PROVE  \E cmd \in Open : Abstract!Refuse(cmd) \/ Abstract!GiveUp(cmd)
<1> DEFINE cmd == serving[c].cmd
<1>1. /\ Queue(c, "nak", cmd) /\ serving' = [serving EXCEPT ![c] = Idle]
      /\ request' = [request EXCEPT ![c] = "none"] /\ inbox' = inbox
      /\ UNCHANGED <<link, store, acts, sent>>
  BY DEF Reject, NoAnswer, Cancelled, GiveUp, Finish
<1>2. TypeOK /\ serving[c].step = "pressing" /\ request[c] \in {"sent", "busy", "refused", "done"}
  BY DEF Reject, NoAnswer, Cancelled, IInv, TypeOK
<1>3. \/ request[c] \in {"busy", "refused"} /\ UNCHANGED <<late, lost>>
      \/ request[c] = "sent" /\ late' = late \cup {cmd} /\ lost' = lost \cup {cmd}
      \/ request[c] = "done" /\ late' = late /\ lost' = lost \cup {cmd}
  BY <1>2 DEF Reject, NoAnswer, Cancelled, GiveUp
<1>5. /\ cmd \in Open /\ cmd.client = c /\ cmd \notin late
      /\ cmd \in ToSet(acts) <=> request[c] = "done"
      /\ cmd \in Requested <=> request[c] # "done"
      /\ Turns(Open, Open', {cmd}, {}) /\ Turns(Requested, Requested', {cmd}, {})
      /\ Turns(Changing, Changing', {}, {})
  BY <1>1, <1>2, PressOver
<1> HIDE DEF cmd
<1>6. Changing' = Changing /\ Open' = Open \ {cmd}
  BY <1>5 DEF Turns
<1>7. Abstract!Tell({cmd.client}, "nak", cmd)
  BY <1>1, <1>2, <1>5, QueueTells
<1>8. Abstract!Answer(cmd, "nak")
  BY <1>1, <1>6, <1>7, UpSame DEF Abstract!Answer
<1>9. CASE request[c] \in {"busy", "refused"}
  <2>1. Able' = Able \ {cmd}
    BY <1>3, <1>5, <1>9, AbleIs DEF Turns
  <2>2. Abstract!Refuse(cmd)
    BY <1>3, <1>5, <1>6, <1>8, <1>9, <2>1 DEF Abstract!Refuse, Abstract!ToSet, ToSet
  <2> QED BY <1>5, <2>2
<1>10. CASE request[c] \in {"sent", "done"}
  <2>1. Able' = Able
    BY <1>3, <1>5, <1>10, AbleIs DEF Turns
  <2>2. Abstract!GiveUp(cmd)
    BY <1>3, <1>6, <1>8, <1>10, <2>1 DEF Abstract!GiveUp
  <2> QED BY <1>5, <2>2
<1> QED BY <1>2, <1>9, <1>10

LEMMA HeadAndTail ==
    ASSUME NEW s \in Seq(Commands), s # <<>>
    PROVE  ToSet(s) = {Head(s)} \cup ToSet(Tail(s))
<1>1. /\ Len(s) \in Nat /\ Len(s) >= 1 /\ DOMAIN s = 1..Len(s) /\ Head(s) = s[1]
      /\ Tail(s) \in Seq(Commands) /\ Len(Tail(s)) = Len(s) - 1
      /\ DOMAIN Tail(s) = 1..Len(Tail(s))
      /\ \A i \in 1..Len(Tail(s)) : Tail(s)[i] = s[i + 1]
  OBVIOUS
<1>2. ASSUME NEW x \in ToSet(s) PROVE x = Head(s) \/ x \in ToSet(Tail(s))
  <2>1. PICK i \in 1..Len(s) : x = s[i]
    BY <1>1 DEF ToSet
  <2>2. CASE i = 1
    BY <1>1, <2>1, <2>2
  <2>3. CASE i # 1
    <3>1. i - 1 \in 1..Len(Tail(s)) /\ (i - 1) + 1 = i
      BY <1>1, <2>3
    <3> QED BY <1>1, <2>1, <3>1 DEF ToSet
  <2> QED BY <2>2, <2>3
<1>3. \A x \in ToSet(Tail(s)) : x \in ToSet(s)
  <2> SUFFICES ASSUME NEW x \in ToSet(Tail(s)) PROVE x \in ToSet(s)
    OBVIOUS
  <2>1. PICK i \in 1..Len(Tail(s)) : x = Tail(s)[i]
    BY <1>1 DEF ToSet
  <2>2. i + 1 \in 1..Len(s) /\ x = s[i + 1]
    BY <1>1, <2>1
  <2> QED BY <1>1, <2>2 DEF ToSet
<1>4. Head(s) \in ToSet(s)
  BY <1>1 DEF ToSet
<1> QED BY <1>2, <1>3, <1>4

LEMMA BoothTake ==
    ASSUME IInv, NEW c \in Clients, Take(c)
    PROVE  \/ \E gone \in SUBSET Open : Abstract!Lapse(c, gone)
           \/ \E cmd \in Open : Abstract!Ack(cmd) \/ Abstract!Refuse(cmd)
           \/ UNCHANGED Abstract!bvars
<1> DEFINE all  == ToSet(inbox[c])
           cmd  == Head(inbox[c])
           rest == ToSet(Tail(inbox[c]))
           left == IF link[c] = "up" THEN rest ELSE {}
           kept == IF cmd.kind \in Presses THEN {cmd} ELSE {}
           gone == all \ (left \cup kept)
<1>1. /\ link[c] # "down" /\ serving[c] = Idle /\ inbox[c] # <<>>
      /\ inbox' = [inbox EXCEPT ![c] = IF link[c] = "up" THEN Tail(inbox[c]) ELSE <<>>]
      /\ UNCHANGED <<link, store, acts, late, sent, lost>>
  BY DEF Take
<1>2. \/ /\ cmd.kind \in Presses /\ serving' = [serving EXCEPT ![c] = Pressing(cmd, 0)]
         /\ request' = [request EXCEPT ![c] = "sent"] /\ outbox' = outbox
      \/ /\ cmd.kind \notin Presses /\ UNCHANGED <<serving, request>>
         /\ \/ cmd.kind = "noop" /\ Queue(c, "ack", cmd)
            \/ cmd.kind # "noop" /\ Queue(c, "nak", cmd)
  BY DEF Take
<1>3. TypeOK /\ inbox[c] \in Seq(Commands) /\ Ascending(inbox[c])
  BY DEF IInv, OrderInv, TypeOK
<1>4. /\ all = {cmd} \cup rest /\ cmd \notin rest /\ cmd \in Commands
  <2>1. all = {cmd} \cup rest
    BY <1>1, <1>3, HeadAndTail
  <2>2. cmd \in Commands /\ \A w \in rest : cmd.id < w.id
    BY <1>1, <1>3, HeadFirst
  <2>3. cmd.id \in Nat
    BY <2>2 DEF Commands
  <2> QED BY <2>1, <2>2, <2>3
<1>5. ToSet(inbox'[c]) = left
  BY <1>1, <1>3 DEF TypeOK, ToSet
<1>6. \A d \in Clients \ {c} :
          inbox'[d] = inbox[d] /\ serving'[d] = serving[d] /\ request'[d] = request[d]
  BY <1>1, <1>2, <1>3 DEF TypeOK
<1>7. Doing(c, "pressing") = {} /\ Doing(c, "recording") = {}
  BY <1>1 DEF Doing, Idle
<1>8. Doing(c, "pressing")' = kept /\ Doing(c, "recording")' = {}
  <2>1. CASE cmd.kind \in Presses
    <3>1. serving'[c].step = "pressing" /\ serving'[c].cmd = cmd
      BY <1>2, <1>3, <2>1 DEF TypeOK, Pressing
    <3> HIDE DEF cmd
    <3> QED BY <2>1, <3>1 DEF Doing
  <2>2. CASE cmd.kind \notin Presses
    BY <1>2, <1>7, <2>2 DEF Doing
  <2> QED BY <2>1, <2>2
<1>9. cmd.kind \in Presses => request'[c] = "sent"
  BY <1>2, <1>3 DEF TypeOK
<1>10. \A x \in all : x.client = c /\ x \notin late /\ x \notin ToSet(acts)
  BY Distinct DEF Waiting
<1> HIDE DEF all, cmd, rest
<1>11. Waiting(c) = all /\ Wanted(c) = {w \in all : w.kind \in Presses}
  BY <1>7 DEF Waiting, Wanted, all
<1>12. Waiting(c)' = left \cup kept /\ Wanted(c)' = {w \in left : w.kind \in Presses} \cup kept
  BY <1>5, <1>8, <1>9 DEF Waiting, Wanted
<1>13. Turns(Waiting(c), Waiting(c)', gone, {}) /\ Turns(Wanted(c), Wanted(c)', gone, {})
  BY <1>4, <1>11, <1>12 DEF Turns
<1>14. Turns(Open, Open', gone, {}) /\ Turns(Requested, Requested', gone, {})
       /\ Turns(Changing, Changing', {}, {})
  <2>1. Turns(Doing(c, "recording"), Doing(c, "recording")', {}, {})
    BY <1>7, <1>8 DEF Turns
  <2>2. (\A x \in gone : x.client = c) /\ (\A x \in {} : x.client = c)
    BY <1>10
  <2> HIDE DEF gone
  <2> QED BY <1>6, <1>13, <2>1, <2>2, OneChanges
<1>15. /\ Open' = Open \ gone /\ Changing' = Changing /\ Able' = Able \ gone /\ Up' = Up
  BY <1>1, <1>10, <1>14, AbleIs, UpSame DEF Turns
<1>16. all \subseteq Open
  BY <1>11 DEF Open
<1>17. CASE link[c] # "up"
  <2>1. outbox' = outbox
    BY <1>2, <1>17 DEF Queue
  <2>2. c \notin Up
    BY <1>17 DEF Up
  <2>3. gone \subseteq {x \in Open : x.client = c}
    BY <1>10, <1>16
  <2> HIDE DEF gone
  <2>4. Abstract!Lapse(c, gone)
    BY <1>1, <1>15, <2>1, <2>2, <2>3 DEF Abstract!Lapse
  <2> QED BY <2>3, <2>4
<1>18. CASE link[c] = "up" /\ cmd.kind \in Presses
  <2>1. gone = {}
    BY <1>4, <1>18
  <2> QED BY <1>1, <1>2, <1>15, <1>18, <2>1 DEF Abstract!bvars
<1>19. CASE link[c] = "up" /\ cmd.kind \notin Presses
  <2>1. gone = {cmd} /\ cmd \in all
    BY <1>4, <1>19
  <2> HIDE DEF gone
  <2>2. cmd.client = c /\ cmd \in Open /\ cmd \notin late /\ cmd \notin ToSet(acts)
    BY <1>10, <1>16, <2>1
  <2>3. ASSUME NEW type, Queue(c, type, cmd) PROVE Abstract!Answer(cmd, type)
    <3>1. Abstract!Tell({cmd.client}, type, cmd)
      BY <1>3, <2>2, <2>3, QueueTells
    <3> QED BY <1>1, <1>15, <2>1, <3>1 DEF Abstract!Answer
  <2>4. CASE cmd.kind = "noop"
    <3>1. cmd \notin Requested
      <4>1. cmd \notin Wanted(c)
        BY <1>11, <1>19
      <4>2. \A d \in Clients \ {c} : cmd \notin Wanted(d)
        BY <2>2, Distinct
      <4> QED BY <4>1, <4>2 DEF Requested
    <3>2. Able' = Able
      BY <1>15, <2>1, <2>2, <3>1, AbleIs
    <3>3. Queue(c, "ack", cmd)
      BY <1>2, <1>19, <2>4
    <3>4. Abstract!Answer(cmd, "ack")
      BY <2>3, <3>3
    <3>5. Abstract!Ack(cmd)
      BY <1>1, <1>15, <2>4, <3>2, <3>4 DEF Abstract!Ack
    <3> QED BY <2>2, <3>5
  <2>5. CASE cmd.kind # "noop"
    <3>1. Abstract!Answer(cmd, "nak")
      BY <1>2, <1>19, <2>3, <2>5
    <3>2. Abstract!Refuse(cmd)
      BY <1>1, <1>15, <2>1, <2>2, <3>1 DEF Abstract!Refuse, Abstract!ToSet, ToSet
    <3> QED BY <2>2, <3>2
  <2> QED BY <2>4, <2>5
<1> QED BY <1>17, <1>18, <1>19

LEMMA BoothTry ==
    ASSUME IInv, NEW c \in Clients, Retry(c) \/ \E how \in {"busy", "refused"} : Refuse(c, how)
    PROVE  UNCHANGED Abstract!bvars
<1>1. /\ UNCHANGED <<link, inbox, outbox, store, acts, late, sent, lost>>
      /\ request[c] \in {"busy", "sent"}
      /\ \E r \in {"sent", "busy", "refused"} : request' = [request EXCEPT ![c] = r]
      /\ serving' = serving \/ serving' = [serving EXCEPT ![c].attempt = @ + 1]
  BY DEF Retry, Refuse
<1>2. serving[c].step = "pressing" /\ serving[c] \in Steps
  BY <1>1 DEF IInv, TypeOK
<1>3. /\ serving'[c].step = "pressing" /\ serving'[c].cmd = serving[c].cmd
      /\ request'[c] # "done" /\ request[c] # "done"
  BY <1>1, <1>2 DEF IInv, TypeOK, Steps, Idle
<1>4. \A d \in Clients \ {c} : serving'[d] = serving[d] /\ request'[d] = request[d]
  BY <1>1 DEF IInv, TypeOK
<1>5. ASSUME NEW d \in Clients
      PROVE  /\ Doing(d, "pressing")' = Doing(d, "pressing")
             /\ Doing(d, "recording")' = Doing(d, "recording")
             /\ request'[d] = "done" <=> request[d] = "done"
             /\ inbox'[d] = inbox[d]
  BY <1>1, <1>2, <1>3, <1>4 DEF Doing
<1>6. \A d \in Clients : Waiting(d)' = Waiting(d) /\ Wanted(d)' = Wanted(d)
  BY <1>5 DEF Waiting, Wanted
<1>7. Open' = Open /\ Able' = Able /\ Changing' = Changing
  BY <1>1, <1>5, <1>6 DEF Open, Able, Changing
<1> QED BY <1>1, <1>7, UpSame DEF Abstract!bvars

LEMMA BoothChange ==
    ASSUME IInv, NEW c \in Clients, Record(c)
    PROVE  \E cmd \in Changing : Abstract!Change(cmd)
<1> DEFINE cmd == serving[c].cmd
<1>1. /\ serving[c].step = "recording" /\ store' = cmd.value
      /\ outbox' = IF store = cmd.value THEN outbox
                   ELSE [d \in Clients |-> IF link[d] = "up"
                                           THEN Append(outbox[d], [type |-> "delta", cmd |-> cmd])
                                           ELSE outbox[d]]
      /\ serving' = [serving EXCEPT ![c] = Idle]
      /\ UNCHANGED <<link, inbox, request, acts, late, sent, lost>>
  BY DEF Record, Finish, Frame
<1>2. \A d \in Clients \ {c} :
          inbox'[d] = inbox[d] /\ serving'[d] = serving[d] /\ request'[d] = request[d]
  BY <1>1 DEF IInv, TypeOK
<1>3. /\ Doing(c, "recording") = {cmd} /\ Doing(c, "recording")' = {}
      /\ Doing(c, "pressing") = {} /\ Doing(c, "pressing")' = {}
  BY <1>1 DEF IInv, TypeOK, Doing, Idle
<1>4. cmd.client = c /\ cmd \in Changing
  BY <1>3, Distinct DEF Changing
<1> HIDE DEF cmd
<1>5. /\ Turns(Waiting(c), Waiting(c)', {}, {}) /\ Turns(Wanted(c), Wanted(c)', {}, {})
      /\ Turns(Doing(c, "recording"), Doing(c, "recording")', {cmd}, {})
  BY <1>1, <1>3 DEF Waiting, Wanted, Turns
<1>6. /\ Turns(Open, Open', {}, {}) /\ Turns(Requested, Requested', {}, {})
      /\ Turns(Changing, Changing', {cmd}, {})
  <2>1. (\A x \in {cmd} : x.client = c) /\ (\A x \in {} : x.client = c)
    BY <1>4
  <2> QED BY <1>2, <1>5, <2>1, OneChanges
<1>7. Open' = Open /\ Able' = Able /\ Changing' = Changing \ {cmd}
  BY <1>1, <1>6, AbleIs DEF Turns
<1>8. \A d \in Clients : d \in Clients \cap Up <=> link[d] = "up"
  BY DEF Up
<1>9. IF store = cmd.value THEN outbox' = outbox ELSE Abstract!Tell(Clients, "delta", cmd)
  <2>1. CASE store = cmd.value
    BY <1>1, <2>1
  <2>2. CASE store # cmd.value
    <3>1. outbox' = [d \in Clients |-> IF d \in Clients \cap Up
                                       THEN Append(outbox[d], [type |-> "delta", cmd |-> cmd])
                                       ELSE outbox[d]]
      BY <1>1, <1>8, <2>2
    <3> QED BY <2>2, <3>1 DEF Abstract!Tell
  <2> QED BY <2>1, <2>2
<1>10. Abstract!Change(cmd)
  BY <1>1, <1>7, <1>9, UpSame DEF Abstract!Change
<1> QED BY <1>4, <1>10

LEMMA BoothPerform ==
    ASSUME IInv, NEW c \in Clients, Perform(c)
    PROVE  \E cmd \in Able : Abstract!Perform(cmd)
<1> DEFINE cmd == serving[c].cmd
<1>1. /\ request[c] = "sent" /\ request' = [request EXCEPT ![c] = "done"]
      /\ acts' = Append(acts, cmd)
      /\ UNCHANGED <<link, inbox, outbox, serving, store, late, sent, lost>>
  BY DEF Perform, Act
<1>2. serving[c].step = "pressing" /\ request'[c] = "done"
  BY <1>1 DEF IInv, TypeOK
<1>3. \A d \in Clients \ {c} :
          inbox'[d] = inbox[d] /\ serving'[d] = serving[d] /\ request'[d] = request[d]
  BY <1>1 DEF IInv, TypeOK
<1>4. Doing(c, "pressing") = {cmd} /\ Doing(c, "pressing")' = {cmd}
  BY <1>1, <1>2 DEF Doing
<1>5. cmd.client = c /\ cmd \notin late /\ cmd \notin ToSet(inbox[c])
  BY <1>4, Distinct DEF Waiting
<1> HIDE DEF cmd
<1>6. Turns(Wanted(c), Wanted(c)', {cmd}, {}) /\ cmd \in Wanted(c)
  BY <1>1, <1>2, <1>4, <1>5 DEF Wanted, Turns
<1>7. Turns(Requested, Requested', {cmd}, {})
  <2>1. \A x \in {cmd} : x.client = c
    BY <1>5
  <2> QED BY <1>3, <1>6, <2>1, OneChanges
<1>8. cmd \in Able /\ Able' = Able \ {cmd}
  BY <1>1, <1>5, <1>6, <1>7, AbleIs DEF Turns, Requested
<1>9. Open' = Open /\ Changing' = Changing
  BY <1>1 DEF Open, Changing, Waiting, Doing
<1>10. Abstract!Perform(cmd)
  BY <1>1, <1>8, <1>9, UpSame DEF Abstract!Perform
<1> QED BY <1>8, <1>10

LEMMA BoothLate ==
    ASSUME IInv, NEW cmd \in late, PerformLate(cmd) \/ DropLate(cmd)
    PROVE  cmd \in Able /\ (Abstract!Perform(cmd) \/ Abstract!Fade(cmd))
<1>1. /\ late' = late \ {cmd}
      /\ UNCHANGED <<link, inbox, outbox, serving, request, store, sent, lost>>
      /\ acts' = acts \/ acts' = Append(acts, cmd)
  BY DEF PerformLate, DropLate, Act
<1>2. cmd \notin Requested /\ cmd \in lost
  BY Distinct DEF Requested, IInv, PressInv
<1>3. Open' = Open /\ Requested' = Requested /\ Changing' = Changing
  BY <1>1, Unmoved
<1>4. cmd \in Able /\ Able' = Able \ {cmd}
  BY <1>1, <1>2, <1>3, AbleIs
<1> QED BY <1>1, <1>2, <1>3, <1>4, UpSame DEF Abstract!Perform, Abstract!Fade

LEMMA BoothStep == IInv /\ [Next]_vars => [Abstract!BNext]_Abstract!bvars
<1> SUFFICES ASSUME IInv, [Next]_vars PROVE [Abstract!BNext]_Abstract!bvars
  OBVIOUS
<1>1. ASSUME NEW c \in Clients, Connect(c) \/ Close(c) PROVE Abstract!BNext
  BY <1>1, BoothLink DEF Abstract!BNext
<1>2. ASSUME NEW c \in Clients, Gone(c) PROVE Abstract!BNext
  BY <1>2, BoothGone DEF Abstract!BNext
<1>3. ASSUME NEW c \in Clients, NEW kind \in Kinds, NEW v \in Values \cup {Unknown}, Send(c, kind, v)
      PROVE  Abstract!BNext
  BY <1>3, BoothOffer DEF Abstract!BNext
<1>4. ASSUME NEW c \in Clients, Take(c) PROVE [Abstract!BNext]_Abstract!bvars
  BY <1>4, BoothTake DEF Abstract!BNext
<1>5. ASSUME NEW c \in Clients, Acknowledge(c) PROVE Abstract!BNext
  BY <1>5, BoothAck DEF Abstract!BNext
<1>6. ASSUME NEW c \in Clients, Reject(c) \/ NoAnswer(c) \/ Cancelled(c) PROVE Abstract!BNext
  BY <1>6, BoothNak DEF Abstract!BNext
<1>7. ASSUME NEW c \in Clients, Record(c) PROVE Abstract!BNext
  BY <1>7, BoothChange DEF Abstract!BNext
<1>8. ASSUME NEW c \in Clients, Perform(c) PROVE Abstract!BNext
  BY <1>8, BoothPerform DEF Abstract!BNext
<1>9. ASSUME NEW cmd \in late, PerformLate(cmd) \/ DropLate(cmd) PROVE Abstract!BNext
  BY <1>9, BoothLate DEF Abstract!BNext
<1>10. ASSUME NEW c \in Clients, Retry(c) \/ \E how \in {"busy", "refused"} : Refuse(c, how)
       PROVE  [Abstract!BNext]_Abstract!bvars
  BY <1>10, BoothTry
<1>11. CASE UNCHANGED vars
  <2>1. /\ UNCHANGED <<inbox, serving, request>>
        /\ UNCHANGED <<link, outbox, store, acts, late, sent, lost>>
    BY <1>11 DEF vars
  <2> QED BY <2>1, Unmoved, AbleIs, UpSame DEF Abstract!bvars
<1> QED BY <1>1, <1>2, <1>3, <1>4, <1>5, <1>6, <1>7, <1>8, <1>9, <1>10, <1>11 DEF Next, Serve, Answer

\* However requests are retried, refused, lost or overtaken, commanding the booth
\* keeps Booth's promise (docs/protocol.md, cmd and ack): for any number of
\* connections and of commands, any retries and any faults.
THEOREM Refinement == Spec => BoothSpec
BY BoothInit, BoothStep, Invariance, PTL DEF Spec, BoothSpec, Abstract!BSpec
=============================================================================
