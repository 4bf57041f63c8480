-------------------------- MODULE ChatAuth_proofs ---------------------------
(***************************************************************************)
(* The chat credential is never spent twice nor given up without cause, a  *)
(* refusal counts only against the credential it was about, and a newer    *)
(* authorization stands: for any number of requests and callbacks, any     *)
(* number of pairs, and any faults.                                        *)
(***************************************************************************)
EXTENDS ChatAuth, FiniteSetTheorems, TLAPS

Rejected == rotated \cup revoked \cup retired
Issued   == 1..Len(grant)
Sound(p) == p \notin rotated \ excused
Requests == [pc : Places, gen : Nat, retire : Nat, tok : Nat, status : {"ready", "needs_auth"}]

Shape ==
    /\ h \in [Handlers -> Requests] /\ refreshMu \in Handlers \cup {Free}
    /\ grant \in Seq(Nat) /\ gen \in Nat /\ refused \in BOOLEAN
    /\ tok \in 0..Len(grant) /\ disk \in 0..Len(grant)
    /\ rotated \in SUBSET Issued

\* What a handler carries with it: the pair it refreshes is the one held, the
\* pair it was answered with is new and of that pair's authorization, or the
\* newest; the pair it was served with is of the authorization held, unless
\* another was completed since it began.
Carries(x) ==
    /\ h[x].pc \in Exchanging <=> refreshMu = x
    /\ h[x].tok <= Len(grant) /\ h[x].gen <= gen
    /\ h[x].retire \in {NoPair} \cup Rejected
    /\ h[x].pc = "post" /\ x \in Mints =>
          tok # NoPair /\ h[x].tok = tok /\ tok \in aged \cup Rejected
    /\ h[x].pc \in {"answered", "save"} => h[x].tok # NoPair /\ h[x].tok \notin rotated
    /\ h[x].pc = "answered" /\ x \in Mints => tok # NoPair /\ grant[h[x].tok] = grant[tok]
    /\ h[x].pc = "answered" /\ x \in Logins => \A p \in Issued : grant[p] <= grant[h[x].tok]
    /\ h[x].pc = "save" => tok = h[x].tok
    /\ h[x].pc = "clear" => tok = NoPair
    /\ h[x].pc \in {"fetch", "holdoff"} /\ h[x].gen = gen /\ tok # NoPair =>
          h[x].tok # NoPair /\ grant[h[x].tok] = grant[tok]

\* A mint whose exchange has replaced the pair in memory, and the one in the file.
Stale(places) == refreshMu \in Mints /\ h[refreshMu].pc \in places

\* Memory and file agree until an exchange was answered, or refused.
Agree == \/ refreshMu = Free
         \/ refreshMu \in Handlers /\ h[refreshMu].pc = "post"
         \/ refreshMu \in Logins /\ h[refreshMu].pc = "answered"

HeldInv ==
    /\ ~Stale({"answered"}) => Sound(tok)
    /\ ~Stale({"answered", "save"}) => Sound(disk)
    /\ Agree => disk = tok \/ disk \in excused
    /\ refused /\ tok # NoPair => blamed = grant[tok]
    /\ rotated \subseteq retired \cup aged

\* Authorizations are numbered as they are issued.
Numbered == \E n \in Nat : {grant[p] : p \in DOMAIN grant} = 1..n

CredInv == Shape /\ (\A x \in Handlers : Carries(x)) /\ HeldInv /\ Numbered

LEMMA CredInit == Init => CredInv
<1> SUFFICES ASSUME Init PROVE CredInv
  OBVIOUS
<1>1. Shape
  <2>1. grant \in Seq(Nat) /\ Len(grant) \in Nat
    <3>1. CASE grant = <<>>
      BY <3>1
    <3>2. CASE grant = <<1>>
      BY <3>2
    <3> QED BY <3>1, <3>2 DEF Init
  <2>2. Idle \in Requests
    BY DEF Requests, Idle, Places, NoPair
  <2>3. /\ h = [x \in Handlers |-> Idle] /\ refreshMu = Free /\ gen = 0 /\ refused = FALSE
        /\ tok = Len(grant) /\ disk = Len(grant) /\ rotated = {}
    BY DEF Init
  <2>4. Len(grant) \in 0..Len(grant)
    BY <2>1
  <2> QED BY <2>1, <2>2, <2>3, <2>4 DEF Shape
<1>2. \A x \in Handlers : Carries(x)
  BY ChatAssumption DEF ChatAssumption, Init, Carries, Idle, Exchanging, NoPair, Handlers
<1>3. HeldInv
  BY ChatAssumption DEF ChatAssumption, Init, HeldInv, Stale, Agree, Sound
<1>4. Numbered
  <2>1. CASE grant = <<>>
    <3>1. {grant[p] : p \in DOMAIN grant} = 1..0
      BY <2>1
    <3> QED BY <3>1 DEF Numbered
  <2>2. CASE grant = <<1>>
    <3>1. {grant[p] : p \in DOMAIN grant} = 1..1
      BY <2>2
    <3> QED BY <3>1 DEF Numbered
  <2> QED BY <2>1, <2>2 DEF Init
<1> QED BY <1>1, <1>2, <1>3, <1>4 DEF CredInv

-----------------------------------------------------------------------------
(* The other handlers *)

\* What the platform has done stays done.
Grown ==
    /\ gen <= gen' /\ Len(grant) <= Len(grant')
    /\ \A p \in Issued : grant'[p] = grant[p]
    /\ Rejected \subseteq Rejected'

\* A handler outside an exchange minds only a change of the credential to one of
\* another authorization in the same generation.
LEMMA Bystander ==
    ASSUME CredInv, Shape', NEW x \in Handlers, h'[x] = h[x], h[x].pc \notin Exchanging,
           refreshMu' # x, Grown,
           gen' = gen /\ tok' # NoPair => tok # NoPair /\ grant'[tok'] = grant[tok]
    PROVE  Carries(x)'
<1>1. /\ h[x] \in Requests /\ Carries(x)
      /\ grant \in Seq(Nat) /\ tok \in 0..Len(grant) /\ gen \in Nat /\ gen' \in Nat
      /\ grant' \in Seq(Nat)
  BY DEF CredInv, Shape
<1>2. h[x].tok \in Nat /\ h[x].gen \in Nat /\ h[x].tok <= Len(grant) /\ h[x].gen <= gen
  BY <1>1 DEF Requests, Carries
<1>3. h[x].pc \in {"fetch", "holdoff"} /\ h[x].gen = gen' /\ tok' # NoPair =>
        h[x].tok # NoPair /\ grant'[h[x].tok] = grant'[tok']
  <2> SUFFICES ASSUME h[x].pc \in {"fetch", "holdoff"}, h[x].gen = gen', tok' # NoPair
               PROVE  h[x].tok # NoPair /\ grant'[h[x].tok] = grant'[tok']
    OBVIOUS
  <2>1. gen' = gen
    BY <1>1, <1>2 DEF Grown
  <2>2. tok # NoPair /\ grant'[tok'] = grant[tok]
    BY <2>1
  <2>3. h[x].tok # NoPair /\ grant[h[x].tok] = grant[tok]
    BY <1>1, <2>1, <2>2 DEF Carries
  <2>4. h[x].tok \in Issued
    BY <1>1, <1>2, <2>3 DEF Issued, NoPair
  <2> QED BY <2>2, <2>3, <2>4 DEF Grown
<1>4. h[x].tok <= Len(grant') /\ h[x].gen <= gen'
  <2>1. Len(grant) \in Nat /\ Len(grant') \in Nat
    BY <1>1
  <2>2. gen <= gen' /\ Len(grant) <= Len(grant')
    BY DEF Grown
  <2> QED BY <1>1, <1>2, <2>1, <2>2
<1>5. h[x].retire \in {NoPair} \cup Rejected'
  BY <1>1 DEF Carries, Grown
<1> QED BY <1>3, <1>4, <1>5 DEF Carries, Exchanging

LEMMA Untouched ==
    ASSUME CredInv, NEW x \in Handlers, h'[x] = h[x],
           UNCHANGED <<refreshMu, tok, gen, grant, rotated>>, Grown, aged \subseteq aged'
    PROVE  Carries(x)'
BY DEF CredInv, Carries, Grown, Issued

\* A handler that neither enters nor leaves an exchange, and changes nothing else.
Moves(x) ==
    /\ \A y \in Handlers \ {x} : h'[y] = h[y]
    /\ UNCHANGED <<refreshMu, tok, refused, gen, disk, excused, blamed,
                   grant, rotated, revoked, retired, aged>>

LEMMA MoveStep ==
    ASSUME CredInv, NEW x \in Handlers, Moves(x), h' \in [Handlers -> Requests],
           h[x].pc \notin Exchanging, Carries(x)'
    PROVE  CredInv'
<1>1. Shape'
  BY DEF CredInv, Shape, Moves, Issued
<1>2. \A y \in Handlers : Carries(y)'
  <2> SUFFICES ASSUME NEW y \in Handlers, y # x PROVE Carries(y)'
    OBVIOUS
  <2> QED BY Untouched DEF Moves, Grown, Issued, Rejected, CredInv, Shape
<1>3. refreshMu # x
  BY DEF CredInv, Carries
<1>4. HeldInv'
  BY <1>3 DEF CredInv, Shape, HeldInv, Stale, Agree, Moves, Sound, Handlers
<1>5. Numbered'
  BY DEF CredInv, Numbered, Moves
<1> QED BY <1>1, <1>2, <1>4, <1>5 DEF CredInv

-----------------------------------------------------------------------------
(* Outside an exchange *)

\* A handler that is only elsewhere.
LEMMA PlaceStep ==
    ASSUME CredInv, NEW x \in Handlers, NEW pc \in Places, h' = [h EXCEPT ![x].pc = pc]
    PROVE  /\ h' \in [Handlers -> Requests] /\ \A y \in Handlers \ {x} : h'[y] = h[y]
           /\ h'[x].pc = pc /\ h'[x].gen = h[x].gen /\ h'[x].retire = h[x].retire
           /\ h'[x].tok = h[x].tok /\ h'[x].status = h[x].status
<1>1. h \in [Handlers -> Requests] /\ h[x] \in Requests
  BY DEF CredInv, Shape
<1> DEFINE r == [h[x] EXCEPT !.pc = pc]
<1>2. /\ r \in Requests /\ r.pc = pc /\ r.gen = h[x].gen /\ r.retire = h[x].retire
      /\ r.tok = h[x].tok /\ r.status = h[x].status
  BY <1>1 DEF Requests
<1>3. h' = [h EXCEPT ![x] = r]
  OBVIOUS
<1> HIDE DEF r
<1> QED BY <1>1, <1>2, <1>3

LEMMA AskStep ==
    ASSUME CredInv, NEW m \in Mints, Ask(m)
    PROVE  CredInv'
<1>1. /\ m \in Handlers /\ h' \in [Handlers -> Requests] /\ Moves(m)
      /\ h[m].pc = "idle" /\ refreshMu' # m
      /\ h'[m].pc = "fast" /\ h'[m].gen = gen /\ h'[m].retire = NoPair /\ h'[m].tok = NoPair
  BY DEF CredInv, Shape, Carries, Ask, At, Idle, Requests, Places, Handlers, Moves, memory,
     platform, clocks, NoPair, Exchanging
<1>2. Carries(m)'
  BY <1>1 DEF CredInv, Shape, Carries, Exchanging, Moves, NoPair
<1> QED BY <1>1, <1>2, MoveStep DEF Exchanging

LEMMA LookStep ==
    ASSUME CredInv, NEW m \in Handlers, Look(m) \/ (m \in Mints /\ FindRefreshed(m))
    PROVE  CredInv'
<1>1. /\ h' \in [Handlers -> Requests] /\ Moves(m)
      /\ h[m].pc \in {"fast", "wait"} /\ refreshMu' # m
      /\ h'[m].gen = h[m].gen /\ h'[m].retire = h[m].retire
      /\ \/ h'[m].pc = "wait" /\ h'[m].tok = h[m].tok
         \/ h'[m].pc = "fetch" /\ h'[m].tok = tok /\ tok # NoPair
  <2>1. /\ h \in [Handlers -> Requests] /\ tok \in Nat
        /\ Moves(m) /\ refreshMu' = refreshMu
        /\ h[m].pc \in {"fast", "wait"}
        /\ \/ h' = [h EXCEPT ![m].pc = "wait"]
           \/ h' = [h EXCEPT ![m].pc = "fetch", ![m].tok = tok] /\ tok # NoPair
    BY DEF CredInv, Shape, Look, FindRefreshed, At, Moves, memory, platform, clocks,
       Usable, Authorized, Valid
  <2>2. refreshMu # m
    BY <2>1 DEF CredInv, Carries, Exchanging
  <2> QED BY <2>1, <2>2 DEF Requests, Places, NoPair
<1>2. Carries(m)'
  BY <1>1 DEF CredInv, Shape, Carries, Exchanging, Moves, Requests, Rejected
<1> QED BY <1>1, <1>2, MoveStep DEF Exchanging

\* The outcome is settled, is published, or the handler is done.
LEMMA SettleStep ==
    ASSUME CredInv, NEW x \in Handlers,
           \/ x \in Mints /\ FindNone(x)
           \/ Served(x) \/ FetchFails(x) \/ ReadStatus(x) \/ Publish(x)
    PROVE  CredInv'
<1>1. /\ h' \in [Handlers -> Requests] /\ Moves(x)
      /\ h[x].pc \in {"wait", "fetch", "read", "publish"}
      /\ h'[x].pc \in {"read", "publish", "idle"}
      /\ \/ h'[x].gen = 0 /\ h'[x].retire = NoPair /\ h'[x].tok = NoPair
         \/ h'[x].gen = h[x].gen /\ h'[x].retire = h[x].retire /\ h'[x].tok = h[x].tok
  <2>1. CASE x \in Mints /\ FindNone(x)
    BY <2>1 DEF CredInv, Shape, Carries, FindNone, Goto, At, Requests, Places, Moves,
       memory, platform, clocks, NoPair, Report, Finish, Idle, StatusOf
  <2>2. CASE Served(x)
    BY <2>2 DEF CredInv, Shape, Carries, Served, Goto, At, Requests, Places, Moves,
       memory, platform, clocks, NoPair, Report, Finish, Idle, StatusOf
  <2>3. CASE FetchFails(x)
    BY <2>3 DEF CredInv, Shape, Carries, FetchFails, Goto, At, Requests, Places, Moves,
       memory, platform, clocks, NoPair, Report, Finish, Idle, StatusOf
  <2>4. CASE ReadStatus(x)
    <3>1. /\ h[x] \in Requests /\ h[x].pc = "read"
          /\ UNCHANGED <<refreshMu, tok, refused, gen, disk, excused, blamed,
                         grant, rotated, revoked, retired, aged>>
      BY <2>4 DEF CredInv, Shape, ReadStatus, At, memory, platform, clocks
    <3> DEFINE r == [h[x] EXCEPT !.pc = "publish", !.status = StatusOf]
    <3>2. StatusOf \in {"ready", "needs_auth"}
      BY DEF StatusOf
    <3>3. /\ r \in Requests /\ r.pc = "publish" /\ r.gen = h[x].gen
          /\ r.retire = h[x].retire /\ r.tok = h[x].tok
      BY <3>1, <3>2 DEF Requests, Places
    <3>4. h' = [h EXCEPT ![x] = r]
      BY <2>4 DEF ReadStatus
    <3> HIDE DEF r
    <3>5. h' \in [Handlers -> Requests] /\ h'[x] = r /\ \A y \in Handlers \ {x} : h'[y] = h[y]
      BY <3>3, <3>4 DEF CredInv, Shape
    <3> QED BY <3>1, <3>3, <3>5 DEF Moves
  <2>5. CASE Publish(x)
    BY <2>5 DEF CredInv, Shape, Carries, Publish, Goto, At, Requests, Places, Moves,
       memory, platform, clocks, NoPair, Report, Finish, Idle, StatusOf
  <2> QED BY <2>1, <2>2, <2>3, <2>4, <2>5
<1>2. refreshMu' # x
  BY <1>1 DEF CredInv, Carries, Exchanging, Moves
<1>3. Carries(x)'
  <2>1. /\ h[x].retire \in {NoPair} \cup Rejected /\ Rejected' = Rejected
        /\ gen' = gen /\ grant' = grant
    <3>1. UNCHANGED <<gen, grant, rotated, revoked, retired>>
      BY <1>1 DEF Moves
    <3>2. h[x].retire \in {NoPair} \cup Rejected
      BY DEF CredInv, Carries
    <3> QED BY <3>1, <3>2 DEF Rejected
  <2>2. /\ h'[x].tok <= Len(grant') /\ h'[x].gen <= gen'
        /\ h'[x].retire \in {NoPair} \cup Rejected'
    <3>1. gen \in Nat /\ Len(grant) \in Nat
      BY DEF CredInv, Shape
    <3>2. h[x].tok <= Len(grant) /\ h[x].gen <= gen
      BY DEF CredInv, Carries
    <3>3. CASE h'[x].gen = 0 /\ h'[x].retire = NoPair /\ h'[x].tok = NoPair
      BY <2>1, <3>1, <3>3 DEF NoPair
    <3>4. CASE h'[x].gen = h[x].gen /\ h'[x].retire = h[x].retire /\ h'[x].tok = h[x].tok
      BY <2>1, <3>2, <3>4
    <3> QED BY <1>1, <3>3, <3>4
  <2> QED BY <1>1, <1>2, <2>2 DEF Carries, Exchanging
<1> QED BY <1>1, <1>3, MoveStep DEF Exchanging

LEMMA RefusedStep ==
    ASSUME CredInv, NEW x \in Handlers,
           (x \in Logins /\ Callback(x)) \/ Unauthorized(x) \/ Forbidden(x)
    PROVE  CredInv'
<1>1. /\ h' \in [Handlers -> Requests] /\ Moves(x)
      /\ h[x].pc \in {"idle", "fetch"} /\ h'[x].gen = h[x].gen
      /\ \/ /\ h'[x].pc \in {"wait", "holdoff"} /\ h'[x].tok = h[x].tok
            /\ h'[x].retire = h[x].retire /\ (h'[x].pc = "holdoff" => h[x].pc = "fetch")
         \/ /\ h'[x].pc = "fast" /\ h'[x].tok = NoPair
            /\ h'[x].retire = h[x].tok /\ h[x].tok \in Rejected
  <2>1. CASE x \in Logins /\ Callback(x)
    <3>1. /\ h[x].pc = "idle" /\ h' = [h EXCEPT ![x].pc = "wait"] /\ "wait" \in Places
          /\ UNCHANGED <<refreshMu, tok, refused, gen, disk, excused, blamed,
                         grant, rotated, revoked, retired, aged>>
      BY <2>1 DEF Callback, At, Goto, Places, memory, platform, clocks
    <3> QED BY <3>1, PlaceStep DEF Moves
  <2>2. CASE Unauthorized(x)
    <3>1. /\ h[x].pc = "fetch" /\ h[x].tok \in Rejected /\ h[x] \in Requests
          /\ UNCHANGED <<refreshMu, tok, refused, gen, disk, excused, blamed,
                         grant, rotated, revoked, retired, aged>>
      BY <2>2 DEF CredInv, Shape, Unauthorized, At, Rejected, memory, platform, clocks
    <3>2. CASE h[x].retire = NoPair
      <4> DEFINE r == [h[x] EXCEPT !.pc = "fast", !.retire = h[x].tok, !.tok = NoPair]
      <4>1. /\ r \in Requests /\ r.pc = "fast" /\ r.tok = NoPair /\ r.retire = h[x].tok
            /\ r.gen = h[x].gen
        BY <3>1 DEF Requests, Places, NoPair
      <4>2. h' = [h EXCEPT ![x] = r]
        BY <2>2, <3>2 DEF Unauthorized
      <4> HIDE DEF r
      <4>3. /\ h' \in [Handlers -> Requests] /\ h'[x] = r
            /\ \A y \in Handlers \ {x} : h'[y] = h[y]
        BY <4>1, <4>2 DEF CredInv, Shape
      <4> QED BY <3>1, <4>1, <4>3 DEF Moves
    <3>3. CASE h[x].retire # NoPair
      <4>1. h' = [h EXCEPT ![x].pc = "holdoff"] /\ "holdoff" \in Places
        BY <2>2, <3>3 DEF Unauthorized, Places
      <4> QED BY <3>1, <4>1, PlaceStep DEF Moves
    <3> QED BY <3>2, <3>3
  <2>3. CASE Forbidden(x)
    <3>1. /\ h[x].pc = "fetch" /\ h' = [h EXCEPT ![x].pc = "holdoff"] /\ "holdoff" \in Places
          /\ UNCHANGED <<refreshMu, tok, refused, gen, disk, excused, blamed,
                         grant, rotated, revoked, retired, aged>>
      BY <2>3 DEF Forbidden, At, Goto, Places, memory, platform, clocks
    <3> QED BY <3>1, PlaceStep DEF Moves
  <2> QED BY <2>1, <2>2, <2>3
<1>2. refreshMu' # x
  BY <1>1 DEF CredInv, Carries, Exchanging, Moves
<1>3. Carries(x)'
  <2>1. /\ gen' = gen /\ tok' = tok /\ grant' = grant /\ Rejected' = Rejected
        /\ refreshMu' = refreshMu /\ Carries(x)
    BY <1>1 DEF CredInv, Moves, Rejected
  <2>2. NoPair \in Nat /\ Len(grant) \in Nat /\ 0 <= Len(grant)
    BY DEF CredInv, Shape, NoPair
  <2>3. CASE /\ h'[x].pc \in {"wait", "holdoff"} /\ h'[x].tok = h[x].tok
             /\ h'[x].retire = h[x].retire /\ (h'[x].pc = "holdoff" => h[x].pc = "fetch")
    BY <1>1, <1>2, <2>1, <2>3 DEF Carries, Exchanging
  <2>4. CASE /\ h'[x].pc = "fast" /\ h'[x].tok = NoPair
             /\ h'[x].retire = h[x].tok /\ h[x].tok \in Rejected
    BY <1>1, <1>2, <2>1, <2>2, <2>4 DEF Carries, Exchanging, NoPair
  <2> QED BY <1>1, <2>3, <2>4
<1> QED BY <1>1, <1>3, MoveStep DEF Exchanging

-----------------------------------------------------------------------------
(* An exchange *)

\* What a step of the one handler in an exchange, x, asks of the others.
LEMMA OthersStep ==
    ASSUME CredInv, Shape', NEW x \in Handlers, refreshMu \in {x, Free}, refreshMu' \in {x, Free},
           \A y \in Handlers \ {x} : h'[y] = h[y],
           Grown,
           gen' = gen /\ tok' # NoPair => tok # NoPair /\ grant'[tok'] = grant[tok],
           Carries(x)'
    PROVE  \A y \in Handlers : Carries(y)'
<1> SUFFICES ASSUME NEW y \in Handlers, y # x PROVE Carries(y)'
  OBVIOUS
<1>1. Free \notin Handlers
  BY ChatAssumption DEF ChatAssumption, Handlers
<1>2. h[y].pc \notin Exchanging /\ refreshMu' # y
  BY <1>1 DEF CredInv, Carries
<1> QED BY <1>2, Bystander

LEMMA BeginStep ==
    ASSUME CredInv, NEW x \in Handlers,
           (x \in Mints /\ BeginRefresh(x)) \/ (x \in Logins /\ BeginExchange(x))
    PROVE  CredInv'
<1>1. /\ h' \in [Handlers -> Requests] /\ \A y \in Handlers \ {x} : h'[y] = h[y]
      /\ h[x].pc = "wait" /\ refreshMu = Free /\ refreshMu' = x
      /\ h'[x].pc = "post" /\ h'[x].gen = h[x].gen /\ h'[x].retire = h[x].retire
      /\ UNCHANGED <<tok, refused, gen, disk, excused, blamed, grant, rotated, revoked,
                     retired, aged>>
      /\ \/ x \in Mints /\ h'[x].tok = tok /\ tok # NoPair /\ (tok = h[x].retire \/ tok \in aged)
         \/ x \in Logins /\ h'[x].tok = h[x].tok
  <2>1. /\ h \in [Handlers -> Requests] /\ tok \in Nat
    BY DEF CredInv, Shape
  <2>2. CASE x \in Mints /\ BeginRefresh(x)
    BY <2>1, <2>2 DEF BeginRefresh, At, memory, platform, clocks, Usable, Authorized, Valid,
       Fresh, Requests, Places
  <2>3. CASE x \in Logins /\ BeginExchange(x)
    BY <2>1, <2>3 DEF BeginExchange, At, Goto, memory, platform, clocks, Requests, Places
  <2> QED BY <2>2, <2>3
<1>2. Shape'
  BY <1>1 DEF CredInv, Shape, Issued
<1>3. Carries(x)'
  <2>1. Carries(x) /\ h[x] \in Requests /\ h'[x] \in Requests /\ tok \in 0..Len(grant)
        /\ Mints \cap Logins = {}
    BY <1>1, ChatAssumption DEF CredInv, Shape, ChatAssumption
  <2> QED BY <1>1, <2>1 DEF Carries, Exchanging, Rejected, NoPair
<1>4. Grown
  BY <1>1 DEF CredInv, Shape, Grown, Rejected
<1>5. \A y \in Handlers : Carries(y)'
  BY <1>1, <1>2, <1>3, <1>4, OthersStep
<1>6. HeldInv'
  BY <1>1, ChatAssumption DEF ChatAssumption, CredInv, HeldInv, Stale, Agree, Sound, Handlers
<1>7. Numbered'
  BY <1>1 DEF CredInv, Numbered
<1> QED BY <1>2, <1>5, <1>6, <1>7 DEF CredInv

\* The number of a new authorization is beyond every one there is.
LEMMA NextNumber ==
    ASSUME CredInv, NEW n, n = 1 + Cardinality({grant[p] : p \in DOMAIN grant})
    PROVE  /\ n \in Nat /\ \A p \in Issued : grant[p] < n
           /\ {grant[p] : p \in DOMAIN grant} \cup {n} = 1..n
<1>1. PICK k \in Nat : {grant[p] : p \in DOMAIN grant} = 1..k
  BY DEF CredInv, Numbered
<1>2. Cardinality(1..k) = k
  BY FS_Interval
<1>3. n = k + 1
  <2>1. Cardinality({grant[p] : p \in DOMAIN grant}) = k
    BY <1>1, <1>2, Zenon
  <2> QED BY <2>1
<1>4. \A p \in Issued : grant[p] \in 1..k
  BY <1>1 DEF Issued, CredInv, Shape
<1>5. 1..k \cup {n} = 1..n
  BY <1>3
<1> QED BY <1>1, <1>3, <1>4, <1>5

\* An answer puts a pair into its handler's hands.
LEMMA AnswerHand ==
    ASSUME CredInv, NEW x \in Handlers, NEW p \in Nat,
           h' = [h EXCEPT ![x].pc = "answered", ![x].tok = p]
    PROVE  /\ h' \in [Handlers -> Requests] /\ \A y \in Handlers \ {x} : h'[y] = h[y]
           /\ h'[x].pc = "answered" /\ h'[x].tok = p
           /\ h'[x].gen = h[x].gen /\ h'[x].retire = h[x].retire
BY DEF CredInv, Shape, Requests, Places

\* The platform's record grows by one pair.
LEMMA AppendGrant ==
    ASSUME CredInv, NEW v \in Nat, grant' = Append(grant, v)
    PROVE  /\ grant' \in Seq(Nat) /\ Len(grant) \in Nat /\ Len(grant') = Len(grant) + 1
           /\ grant'[Len(grant) + 1] = v
           /\ \A p \in Issued : grant'[p] = grant[p]
           /\ {grant'[p] : p \in DOMAIN grant'} = {grant[p] : p \in DOMAIN grant} \cup {v}
<1>1. /\ grant \in Seq(Nat) /\ grant' \in Seq(Nat) /\ Len(grant') = Len(grant) + 1
      /\ grant'[Len(grant) + 1] = v /\ Len(grant) \in Nat
      /\ \A p \in 1..Len(grant) : grant'[p] = grant[p]
  BY DEF CredInv, Shape
<1>2. DOMAIN grant = 1..Len(grant) /\ DOMAIN grant' = 1..(Len(grant) + 1)
  BY <1>1
<1>3. 1..(Len(grant) + 1) = 1..Len(grant) \cup {Len(grant) + 1}
  BY <1>1
<1>4. {grant'[p] : p \in DOMAIN grant'} = {grant[p] : p \in DOMAIN grant} \cup {v}
  <2>1. \A p \in DOMAIN grant : p \in DOMAIN grant' /\ grant'[p] = grant[p]
    BY <1>1, <1>2, <1>3
  <2>2. \A p \in DOMAIN grant' : p \in DOMAIN grant \/ p = Len(grant) + 1
    BY <1>2, <1>3
  <2>3. Len(grant) + 1 \in DOMAIN grant'
    BY <1>2, <1>3
  <2> QED BY <1>1, <2>1, <2>2, <2>3
<1> QED BY <1>1, <1>4 DEF Issued

LEMMA IssueStep ==
    ASSUME CredInv, NEW l \in Logins, Issue(l)
    PROVE  CredInv'
<1> DEFINE n == 1 + Cardinality({grant[p] : p \in DOMAIN grant})
<1>1. /\ l \in Handlers /\ l \notin Mints /\ h[l].pc = "post" /\ refreshMu = l
      /\ UNCHANGED <<refreshMu, tok, refused, gen, disk, excused, blamed, rotated, revoked,
                     retired, aged>>
  BY ChatAssumption DEF ChatAssumption, CredInv, Carries, Exchanging, Handlers, Issue, At,
     memory, clocks
<1>2. n \in Nat /\ \A p \in Issued : grant[p] < n
  BY NextNumber
<1>3. {grant[p] : p \in DOMAIN grant} \cup {n} = 1..n
  BY NextNumber
<1>4. grant' = Append(grant, n) /\ h' = [h EXCEPT ![l].pc = "answered", ![l].tok = Len(grant) + 1]
  BY DEF Issue
<1> HIDE DEF n
<1>5. /\ grant' \in Seq(Nat) /\ Len(grant) \in Nat /\ Len(grant') = Len(grant) + 1
      /\ grant'[Len(grant) + 1] = n
      /\ \A p \in Issued : grant'[p] = grant[p]
      /\ {grant'[p] : p \in DOMAIN grant'} = 1..n
  BY <1>2, <1>3, <1>4, AppendGrant
<1>6. /\ h' \in [Handlers -> Requests] /\ \A y \in Handlers \ {l} : h'[y] = h[y]
      /\ h'[l].pc = "answered" /\ h'[l].tok = Len(grant) + 1
      /\ h'[l].gen = h[l].gen /\ h'[l].retire = h[l].retire
  <2>1. Len(grant) + 1 \in Nat
    BY <1>5
  <2> QED BY <1>1, <1>4, <2>1, AnswerHand
<1>7. /\ tok \in 0..Len(grant) /\ disk \in 0..Len(grant) /\ rotated \in SUBSET Issued /\ gen \in Nat
  BY DEF CredInv, Shape
<1>8. Shape'
  BY <1>1, <1>5, <1>6, <1>7 DEF CredInv, Shape, Issued
<1>9. Carries(l)'
  <2>1. Carries(l) /\ h[l] \in Requests
    BY <1>1 DEF CredInv, Shape
  <2>2. h'[l].tok \notin rotated' /\ h'[l].tok # NoPair /\ h'[l].tok <= Len(grant')
    BY <1>1, <1>5, <1>6, <1>7 DEF Issued, NoPair
  <2>3. \A p \in Issued' : grant'[p] <= grant'[h'[l].tok]
    <3> SUFFICES ASSUME NEW p \in 1..(Len(grant) + 1) PROVE grant'[p] <= n
      BY <1>5, <1>6 DEF Issued
    <3>1. p = Len(grant) + 1 \/ p \in Issued
      BY <1>5 DEF Issued
    <3>2. p \in Issued => grant[p] \in Nat
      BY DEF CredInv, Shape, Issued
    <3> QED BY <1>2, <1>5, <3>1, <3>2
  <2> QED BY <1>1, <1>6, <2>1, <2>2, <2>3 DEF Carries, Exchanging, Rejected
<1>10. Grown
  BY <1>1, <1>5, <1>7 DEF Grown, Rejected
<1>11. tok # NoPair => grant'[tok] = grant[tok]
  BY <1>5, <1>7 DEF Issued, NoPair
<1>12. \A y \in Handlers : Carries(y)'
  BY <1>1, <1>6, <1>8, <1>9, <1>10, <1>11, OthersStep
<1>13. HeldInv'
  BY <1>1, <1>6, <1>11 DEF CredInv, HeldInv, Stale, Agree, Sound
<1>14. Numbered'
  BY <1>2, <1>5 DEF Numbered
<1> QED BY <1>8, <1>12, <1>13, <1>14 DEF CredInv

LEMMA RotateStep ==
    ASSUME CredInv, NEW m \in Mints, Rotate(m)
    PROVE  CredInv'
<1>1. /\ m \in Handlers /\ m \notin Logins /\ h[m].pc = "post" /\ refreshMu = m
      /\ h[m].tok = tok /\ tok # NoPair /\ tok \in aged \cup retired
      /\ rotated' = rotated \cup {tok}
      /\ UNCHANGED <<refreshMu, tok, refused, gen, disk, excused, blamed, revoked,
                     retired, aged>>
  BY ChatAssumption DEF ChatAssumption, CredInv, Carries, Exchanging, Handlers, Rotate, At,
     Live, Rejected, memory, clocks
<1>2. /\ tok \in Issued /\ disk \in 0..Len(grant) /\ rotated \in SUBSET Issued /\ gen \in Nat
      /\ grant[tok] \in Nat
  BY <1>1 DEF CredInv, Shape, Issued, NoPair
<1>3. /\ grant' = Append(grant, grant[tok])
      /\ h' = [h EXCEPT ![m].pc = "answered", ![m].tok = Len(grant) + 1]
  BY <1>1 DEF Rotate
<1>4. /\ grant' \in Seq(Nat) /\ Len(grant) \in Nat /\ Len(grant') = Len(grant) + 1
      /\ grant'[Len(grant) + 1] = grant[tok]
      /\ \A p \in Issued : grant'[p] = grant[p]
      /\ {grant'[p] : p \in DOMAIN grant'} = {grant[p] : p \in DOMAIN grant} \cup {grant[tok]}
  BY <1>2, <1>3, AppendGrant
<1>5. /\ h' \in [Handlers -> Requests] /\ \A y \in Handlers \ {m} : h'[y] = h[y]
      /\ h'[m].pc = "answered" /\ h'[m].tok = Len(grant) + 1
      /\ h'[m].gen = h[m].gen /\ h'[m].retire = h[m].retire
  <2>1. Len(grant) + 1 \in Nat
    BY <1>4
  <2> QED BY <1>1, <1>3, <2>1, AnswerHand
<1>6. Shape'
  BY <1>1, <1>2, <1>4, <1>5 DEF CredInv, Shape, Issued
<1>7. Carries(m)'
  <2>1. Carries(m) /\ h[m] \in Requests
    BY <1>1 DEF CredInv, Shape
  <2>2. h'[m].tok \notin rotated' /\ h'[m].tok # NoPair /\ h'[m].tok <= Len(grant')
    BY <1>1, <1>2, <1>4, <1>5 DEF Issued, NoPair
  <2>3. grant'[h'[m].tok] = grant'[tok']
    BY <1>1, <1>2, <1>4, <1>5
  <2>4. h'[m].retire \in {NoPair} \cup Rejected'
    BY <1>1, <1>5, <2>1 DEF Carries, Rejected
  <2>5. h'[m].gen <= gen'
    BY <1>1, <1>5, <2>1 DEF Carries
  <2> QED BY <1>1, <1>5, <2>2, <2>3, <2>4, <2>5 DEF Carries, Exchanging
<1>8. Grown
  BY <1>1, <1>2, <1>4 DEF Grown, Rejected
<1>9. \A y \in Handlers : Carries(y)'
  BY <1>1, <1>2, <1>4, <1>5, <1>6, <1>7, <1>8, OthersStep
<1>10. HeldInv'
  BY <1>1, <1>2, <1>4, <1>5 DEF CredInv, HeldInv, Stale, Agree, Sound
<1>11. Numbered'
  <2>1. grant[tok] \in {grant[p] : p \in DOMAIN grant}
    BY <1>2 DEF CredInv, Shape, Issued
  <2> QED BY <1>4, <2>1 DEF CredInv, Numbered
<1> QED BY <1>6, <1>9, <1>10, <1>11 DEF CredInv

\* What every handler in an exchange brings.
LEMMA InExchange ==
    ASSUME CredInv, NEW x \in Handlers, h[x].pc \in Exchanging
    PROVE  /\ refreshMu = x /\ h[x] \in Requests /\ Carries(x) /\ ~(x \in Mints /\ x \in Logins)
           /\ h \in [Handlers -> Requests] /\ gen \in Nat
           /\ tok \in 0..Len(grant) /\ disk \in 0..Len(grant) /\ Len(grant) \in Nat
           /\ rotated \in SUBSET Issued /\ NoPair \notin rotated
BY ChatAssumption DEF ChatAssumption, CredInv, Shape, Carries, Issued, NoPair

LEMMA FailStep ==
    ASSUME CredInv, NEW x \in Handlers, (x \in Mints /\ LoseAnswer(x)) \/ ExchangeFails(x)
    PROVE  CredInv'
<1>1. /\ h[x].pc = "post" /\ refreshMu' = Free /\ h' = [h EXCEPT ![x] = Idle]
      /\ UNCHANGED <<tok, refused, gen, disk, blamed, grant, revoked, retired, aged>>
      /\ \/ UNCHANGED <<rotated, excused>>
         \/ /\ x \in Mints /\ Live(h[x].tok)
            /\ rotated' = rotated \cup {h[x].tok} /\ excused' = excused \cup {h[x].tok}
  BY DEF LoseAnswer, ExchangeFails, At, Unlock, Finish, memory, platform, clocks
<1>2. /\ refreshMu = x /\ h \in [Handlers -> Requests] /\ Carries(x)
      /\ tok \in 0..Len(grant) /\ Len(grant) \in Nat /\ rotated \in SUBSET Issued /\ gen \in Nat
      /\ x \in Mints => h[x].tok = tok /\ tok # NoPair /\ tok \in aged \cup Rejected
  BY <1>1, InExchange DEF Exchanging, Carries
<1>3. \/ UNCHANGED <<rotated, excused>>
      \/ rotated' = rotated \cup {tok} /\ excused' = excused \cup {tok} /\ tok \in aged \cup retired
         /\ tok \in Issued
  BY <1>1, <1>2 DEF Live, Rejected, Issued
<1>4. /\ h' \in [Handlers -> Requests] /\ \A y \in Handlers \ {x} : h'[y] = h[y]
      /\ h'[x] = Idle /\ Idle \in Requests
  BY <1>1, <1>2 DEF Idle, Requests, Places, NoPair
<1>5. Shape'
  BY <1>1, <1>3, <1>4 DEF CredInv, Shape, Issued
<1>6. Carries(x)'
  BY <1>1, <1>2, <1>4, ChatAssumption DEF ChatAssumption, Carries, Exchanging, Idle, NoPair, Handlers
<1>7. Grown
  BY <1>1, <1>2, <1>3 DEF Grown, Rejected
<1>8. \A y \in Handlers : Carries(y)'
  BY <1>1, <1>2, <1>4, <1>5, <1>6, <1>7, OthersStep
<1>9. HeldInv'
  <2>1. Free \notin Mints /\ Free \notin Handlers
    BY ChatAssumption DEF ChatAssumption, Handlers
  <2>2. Sound(tok) /\ Sound(disk) /\ (disk = tok \/ disk \in excused)
    BY <1>1, <1>2 DEF CredInv, HeldInv, Stale, Agree
  <2> QED BY <1>1, <1>3, <2>1, <2>2 DEF CredInv, HeldInv, Stale, Agree, Sound
<1>10. Numbered'
  BY <1>1 DEF CredInv, Numbered
<1> QED BY <1>5, <1>8, <1>9, <1>10 DEF CredInv

LEMMA DiscardStep ==
    ASSUME CredInv, NEW m \in Mints, Discard(m)
    PROVE  CredInv'
<1>1. /\ m \in Handlers /\ h[m].pc = "post" /\ h' = [h EXCEPT ![m].pc = "clear"] /\ tok' = NoPair
      /\ UNCHANGED <<refreshMu, refused, gen, disk, blamed, grant, revoked, retired, aged,
                     rotated, excused>>
  BY DEF Discard, At, Goto, platform, clocks, Handlers
<1>2. /\ refreshMu = m /\ h \in [Handlers -> Requests] /\ Carries(m) /\ h[m] \in Requests
      /\ Len(grant) \in Nat /\ NoPair \notin rotated /\ gen \in Nat /\ m \notin Logins
  BY <1>1, InExchange DEF Exchanging
<1>3. /\ h' \in [Handlers -> Requests] /\ \A y \in Handlers \ {m} : h'[y] = h[y]
      /\ h'[m].pc = "clear" /\ h'[m].tok = h[m].tok /\ h'[m].gen = h[m].gen
      /\ h'[m].retire = h[m].retire
  BY <1>1, <1>2 DEF Requests, Places
<1>4. Shape'
  BY <1>1, <1>2, <1>3 DEF CredInv, Shape, Issued, NoPair
<1>5. Carries(m)'
  BY <1>1, <1>2, <1>3 DEF Carries, Exchanging, Rejected
<1>6. Grown
  BY <1>1, <1>2 DEF Grown, Rejected
<1>7. \A y \in Handlers : Carries(y)'
  BY <1>1, <1>2, <1>3, <1>4, <1>5, <1>6, OthersStep
<1>8. HeldInv'
  <2>1. Sound(disk)
    BY <1>1, <1>2 DEF CredInv, HeldInv, Stale
  <2> QED BY <1>1, <1>2, <1>3, <2>1, ChatAssumption DEF ChatAssumption, CredInv, HeldInv, Stale,
          Agree, Sound, Handlers
<1>9. Numbered'
  BY <1>1 DEF CredInv, Numbered
<1> QED BY <1>4, <1>7, <1>8, <1>9 DEF CredInv

LEMMA AdoptStep ==
    ASSUME CredInv, NEW x \in Handlers, Adopt(x)
    PROVE  CredInv'
<1>1. /\ h[x].pc = "answered" /\ h' = [h EXCEPT ![x].pc = "save"] /\ tok' = h[x].tok
      /\ refused' = FALSE /\ gen' = IF x \in Logins THEN gen + 1 ELSE gen
      /\ UNCHANGED <<refreshMu, disk, grant, revoked, retired, aged, rotated, excused>>
  BY DEF Adopt, At, Goto, platform, clocks
<1>2. /\ refreshMu = x /\ h \in [Handlers -> Requests] /\ Carries(x) /\ h[x] \in Requests
      /\ Len(grant) \in Nat /\ gen \in Nat /\ ~(x \in Mints /\ x \in Logins)
      /\ h[x].tok # NoPair /\ h[x].tok \notin rotated /\ h[x].tok <= Len(grant)
      /\ x \in Mints => tok # NoPair /\ grant[h[x].tok] = grant[tok]
  BY <1>1, InExchange DEF Exchanging, Carries
<1>3. /\ h' \in [Handlers -> Requests] /\ \A y \in Handlers \ {x} : h'[y] = h[y]
      /\ h'[x].pc = "save" /\ h'[x].tok = h[x].tok /\ h'[x].gen = h[x].gen
      /\ h'[x].retire = h[x].retire
  BY <1>1, <1>2 DEF Requests, Places
<1>4. tok' \in 0..Len(grant) /\ gen' \in Nat /\ gen <= gen' /\ (x \in Logins => gen' # gen)
  BY <1>1, <1>2 DEF Requests
<1>5. Shape'
  BY <1>1, <1>2, <1>3, <1>4 DEF CredInv, Shape, Issued
<1>6. Carries(x)'
  <2>1. h'[x].gen <= gen'
    BY <1>2, <1>3, <1>4 DEF Carries, Requests
  <2> QED BY <1>1, <1>2, <1>3, <2>1 DEF Carries, Exchanging, Rejected
<1>7. Grown
  BY <1>1, <1>2, <1>4 DEF Grown, Rejected
<1>8. \A y \in Handlers : Carries(y)'
  BY <1>1, <1>2, <1>3, <1>4, <1>5, <1>6, <1>7, OthersStep DEF Handlers
<1>9. HeldInv'
  <2>1. x \in Logins => Sound(disk)
    BY <1>1, <1>2 DEF CredInv, HeldInv, Stale
  <2>2. x # Free
    BY ChatAssumption DEF ChatAssumption, Handlers
  <2> QED BY <1>1, <1>2, <1>3, <2>1, <2>2 DEF CredInv, HeldInv, Stale, Agree, Sound, Handlers
<1>10. Numbered'
  BY <1>1 DEF CredInv, Numbered
<1> QED BY <1>5, <1>8, <1>9, <1>10 DEF CredInv

\* The exchange ends with the file written, cleared, or left behind for a cause.
LEMMA SaveStep ==
    ASSUME CredInv, NEW x \in Handlers, Save(x) \/ Clear(x)
    PROVE  CredInv'
<1>1. /\ h[x].pc \in {"save", "clear"} /\ refreshMu' = Free
      /\ UNCHANGED <<tok, refused, gen, blamed, grant, revoked, retired, aged, rotated>>
      /\ \/ excused' = excused \cup {disk} /\ UNCHANGED disk
         \/ UNCHANGED excused /\ h[x].pc = "save" /\ disk' = h[x].tok
         \/ UNCHANGED excused /\ h[x].pc = "clear" /\ disk' = NoPair
  BY DEF Save, Clear, At, Unlock, memory, platform, clocks
<1>2. /\ refreshMu = x /\ h \in [Handlers -> Requests] /\ Carries(x) /\ h[x] \in Requests
      /\ Len(grant) \in Nat /\ gen \in Nat /\ ~(x \in Mints /\ x \in Logins)
      /\ disk \in 0..Len(grant) /\ tok \in 0..Len(grant) /\ NoPair \notin rotated
      /\ h[x].pc = "save" => h[x].tok = tok
      /\ h[x].pc = "clear" => tok = NoPair
  BY <1>1, InExchange DEF Exchanging, Carries
<1>3. /\ h' \in [Handlers -> Requests] /\ \A y \in Handlers \ {x} : h'[y] = h[y]
      /\ \/ h'[x].pc = "read" /\ h'[x].tok = NoPair /\ h'[x].gen = 0 /\ h'[x].retire = NoPair
         \/ /\ h'[x].pc = "fetch" /\ h[x].pc = "save" /\ h'[x].tok = h[x].tok
            /\ h'[x].gen = h[x].gen /\ h'[x].retire = h[x].retire
  <2>1. \/ h' = [h EXCEPT ![x] = [Idle EXCEPT !.pc = "read"]]
        \/ h' = [h EXCEPT ![x].pc = "fetch"] /\ h[x].pc = "save"
    BY DEF Save, Clear, Onward, Report, Goto, At
  <2>2. CASE h' = [h EXCEPT ![x] = [Idle EXCEPT !.pc = "read"]]
    <3> DEFINE r == [Idle EXCEPT !.pc = "read"]
    <3>1. r \in Requests /\ r.pc = "read" /\ r.tok = NoPair /\ r.gen = 0 /\ r.retire = NoPair
      BY DEF Requests, Places, Idle, NoPair
    <3>2. h' = [h EXCEPT ![x] = r]
      BY <2>2
    <3> HIDE DEF r
    <3> QED BY <3>1, <3>2 DEF CredInv, Shape
  <2>3. CASE h' = [h EXCEPT ![x].pc = "fetch"] /\ h[x].pc = "save"
    <3>1. "fetch" \in Places
      BY DEF Places
    <3> QED BY <2>3, <3>1, PlaceStep
  <2> QED BY <2>1, <2>2, <2>3
<1>4. Shape'
  BY <1>1, <1>2, <1>3 DEF CredInv, Shape, Issued, NoPair
<1>5. Carries(x)'
  <2>1. refreshMu' # x
    BY <1>1, ChatAssumption DEF ChatAssumption, Handlers
  <2> QED BY <1>1, <1>2, <1>3, <2>1 DEF Carries, Exchanging, Rejected, NoPair
<1>6. Grown
  BY <1>1, <1>2 DEF Grown, Rejected
<1>7. \A y \in Handlers : Carries(y)'
  BY <1>1, <1>2, <1>3, <1>4, <1>5, <1>6, OthersStep
<1>8. HeldInv'
  <2>1. Free \notin Mints
    BY ChatAssumption DEF ChatAssumption
  <2>2. Sound(tok)
    BY <1>1, <1>2 DEF CredInv, HeldInv, Stale
  <2> QED BY <1>1, <1>2, <2>1, <2>2 DEF CredInv, HeldInv, Stale, Agree, Sound
<1>9. Numbered'
  BY <1>1 DEF CredInv, Numbered
<1> QED BY <1>4, <1>7, <1>8, <1>9 DEF CredInv

-----------------------------------------------------------------------------
(* The refusal, the platform, the clock and the process *)

LEMMA HoldOffStep ==
    ASSUME CredInv, NEW m \in Handlers, HoldOff(m)
    PROVE  CredInv'
<1>1. /\ h[m].pc = "holdoff" /\ h' = [h EXCEPT ![m] = [Idle EXCEPT !.pc = "read"]]
      /\ refused' = (refused \/ gen = h[m].gen)
      /\ blamed' = IF gen = h[m].gen THEN grant[h[m].tok] ELSE blamed
      /\ UNCHANGED <<refreshMu, tok, gen, disk, grant, revoked, retired, aged, rotated, excused>>
  BY DEF HoldOff, At, Report, platform, clocks
<1>2. /\ h \in [Handlers -> Requests] /\ Carries(m) /\ refreshMu # m /\ gen \in Nat
      /\ Len(grant) \in Nat
  BY <1>1 DEF CredInv, Shape, Carries, Exchanging
<1>3. /\ h' \in [Handlers -> Requests] /\ \A y \in Handlers \ {m} : h'[y] = h[y]
      /\ h'[m].pc = "read" /\ h'[m].tok = NoPair /\ h'[m].gen = 0 /\ h'[m].retire = NoPair
  BY <1>1, <1>2 DEF Requests, Places, Idle, NoPair
<1>4. Shape'
  BY <1>1, <1>3 DEF CredInv, Shape, Issued
<1>5. Carries(m)'
  BY <1>1, <1>2, <1>3 DEF Carries, Exchanging, NoPair
<1>6. Grown /\ aged \subseteq aged'
  BY <1>1, <1>2 DEF Grown, Rejected
<1>7. \A y \in Handlers : Carries(y)'
  BY <1>1, <1>3, <1>5, <1>6, Untouched
<1>8. HeldInv'
  <2>1. gen = h[m].gen /\ tok # NoPair => grant[h[m].tok] = grant[tok]
    BY <1>1, <1>2 DEF Carries
  <2>2. refreshMu \in Handlers \cup {Free} /\ Mints \subseteq Handlers /\ Logins \subseteq Handlers
    BY DEF CredInv, Shape, Handlers
  <2>3. refreshMu \in Handlers => h'[refreshMu] = h[refreshMu]
    BY <1>2, <1>3
  <2>4. refused' /\ tok' # NoPair => blamed' = grant'[tok']
    BY <1>1, <2>1 DEF CredInv, HeldInv
  <2> QED BY <1>1, <2>2, <2>3, <2>4 DEF CredInv, HeldInv, Stale, Agree, Sound
<1>9. Numbered'
  BY <1>1 DEF CredInv, Numbered
<1> QED BY <1>4, <1>7, <1>8, <1>9 DEF CredInv

LEMMA OutsideStep ==
    ASSUME CredInv,
           \/ Revoke \/ Retire \/ Age \/ Lapse \/ CooldownOver
           \/ Shutdown \/ StartDrain \/ DrainDone \/ UNCHANGED vars
    PROVE  CredInv'
<1>1. /\ UNCHANGED <<h, refreshMu, tok, gen, disk, grant, rotated, excused>>
      /\ revoked \subseteq revoked' /\ retired \subseteq retired' /\ aged \subseteq aged'
      /\ UNCHANGED <<refused, blamed>> \/ refused' = FALSE
  BY DEF Revoke, Retire, Age, Lapse, CooldownOver, Shutdown, StartDrain, DrainDone, memory,
     platform, clocks, vars
<1>2. Shape'
  BY <1>1 DEF CredInv, Shape, Issued
<1>3. Grown
  BY <1>1 DEF CredInv, Shape, Grown, Rejected
<1>4. \A y \in Handlers : Carries(y)'
  BY <1>1, <1>3, Untouched
<1>5. HeldInv'
  BY <1>1 DEF CredInv, HeldInv, Stale, Agree, Sound
<1>6. Numbered'
  BY <1>1 DEF CredInv, Numbered
<1> QED BY <1>2, <1>4, <1>5, <1>6 DEF CredInv

LEMMA RebootStep ==
    ASSUME CredInv, Reboot
    PROVE  CredInv'
<1>1. /\ h' = [x \in Handlers |-> Idle] /\ refreshMu' = Free /\ gen' = 0 /\ refused' = FALSE
      /\ tok' = disk /\ UNCHANGED <<disk, grant, rotated, revoked, retired, aged>>
      /\ excused' = IF \E m \in Mints : At(m, "answered") \/ At(m, "save")
                    THEN excused \cup {disk} ELSE excused
  BY DEF Reboot, platform, clocks
<1>2. Idle \in Requests /\ Free \notin Mints /\ Free \notin Handlers
  BY ChatAssumption DEF ChatAssumption, Handlers, Idle, Requests, Places, NoPair
<1>3. Shape'
  BY <1>1, <1>2 DEF CredInv, Shape, Issued
<1>4. \A x \in Handlers : Carries(x)'
  BY <1>1, <1>2 DEF CredInv, Shape, Carries, Idle, Exchanging, NoPair
<1>5. HeldInv'
  <2>1. disk \in excused' \/ Sound(disk)
    BY <1>1 DEF CredInv, HeldInv, Stale, At
  <2> QED BY <1>1, <1>2, <2>1 DEF CredInv, HeldInv, Stale, Agree, Sound
<1>6. Numbered'
  BY <1>1 DEF CredInv, Numbered
<1> QED BY <1>3, <1>4, <1>5, <1>6 DEF CredInv

LEMMA CredStep == CredInv /\ [Next]_vars => CredInv'
<1> SUFFICES ASSUME CredInv, [Next]_vars PROVE CredInv'
  OBVIOUS
<1>1. ASSUME NEW m \in Mints, Ask(m) PROVE CredInv'
  BY <1>1, AskStep
<1>2. ASSUME NEW l \in Logins, Callback(l) PROVE CredInv'
  BY <1>2, RefusedStep DEF Handlers
<1>3. ASSUME NEW x \in Handlers, Lock(x) PROVE CredInv'
  BY <1>3, LookStep, SettleStep, BeginStep DEF Lock, FindNone, FindRefreshed, BeginRefresh,
     BeginExchange
<1>4. ASSUME NEW x \in Handlers, Step(x) PROVE CredInv'
  <2>1. CASE Look(x) \/ Served(x) \/ Unauthorized(x) \/ Forbidden(x) \/ FetchFails(x) \/ HoldOff(x)
             \/ ReadStatus(x) \/ Publish(x)
    BY <2>1, LookStep, SettleStep, RefusedStep, HoldOffStep
  <2>2. CASE Issue(x) \/ Rotate(x)
    BY <2>2, IssueStep, RotateStep DEF Issue, Rotate
  <2>3. CASE LoseAnswer(x) \/ ExchangeFails(x) \/ Discard(x)
    BY <2>3, FailStep, DiscardStep DEF LoseAnswer, Discard
  <2>4. CASE Clear(x) \/ Adopt(x) \/ Save(x)
    BY <2>4, SaveStep, AdoptStep
  <2> QED BY <1>4, <2>1, <2>2, <2>3, <2>4 DEF Step
<1>5. CASE \/ Revoke \/ Retire \/ Age \/ Lapse \/ CooldownOver
           \/ Shutdown \/ StartDrain \/ DrainDone \/ UNCHANGED vars
  BY <1>5, OutsideStep
<1>6. CASE Exit \/ Crash
  BY <1>6, RebootStep DEF Exit, Crash
<1> QED BY <1>1, <1>2, <1>3, <1>4, <1>5, <1>6 DEF Next

\* The invariant the rest follows from.
THEOREM Invariance == Spec => []CredInv
BY CredInit, CredStep, PTL DEF Spec

\* No refresh posts a pair the platform has replaced, unless an answer or a
\* write was lost.
THEOREM SpentNoMore == Spec => []NeverSpentTwice
<1>1. CredInv => NeverSpentTwice
  BY DEF CredInv, HeldInv, Stale, Sound, Carries, Exchanging, NeverSpentTwice, At, Handlers
<1> QED BY <1>1, Invariance, PTL

\* Between exchanges memory and file hold the same pair, and one that is good
\* as far as the platform has answered.
THEOREM Kept == Spec => []CredentialKept
<1>1. CredInv => CredentialKept
  BY ChatAssumption DEF ChatAssumption, CredInv, HeldInv, Stale, Agree, Sound, CredentialKept
<1> QED BY <1>1, Invariance, PTL

\* A pair is rotated only because it neared expiry or was itself refused.
THEOREM Shared == Spec => []OneRotationEach
<1>1. CredInv => OneRotationEach
  BY DEF CredInv, HeldInv, OneRotationEach
<1> QED BY <1>1, Invariance, PTL

\* The cooldown is of the authorization that was refused.
THEOREM Current == Spec => []RefusalIsCurrent
<1>1. CredInv => RefusalIsCurrent
  BY DEF CredInv, HeldInv, RefusalIsCurrent
<1> QED BY <1>1, Invariance, PTL

\* What AuthorizationStands asks of a step.
Stands == tok # NoPair /\ tok' # tok =>
    \/ tok' = NoPair /\ ~Live(tok)
    \/ tok' # NoPair /\ grant'[tok'] >= grant[tok]
    \/ phase' = "up" /\ tok' = disk

\* Only discard, adopt and a new process change the pair held.
LEMMA TokStep ==
    ASSUME [Next]_vars, tok' # tok
    PROVE  (\E m \in Mints : Discard(m)) \/ (\E x \in Handlers : Adopt(x)) \/ Reboot
<1>1. CASE \E m \in Mints : Ask(m)
  BY <1>1 DEF Ask, memory
<1>2. CASE \E l \in Logins : Callback(l)
  BY <1>2 DEF Callback, memory
<1>3. ASSUME NEW x \in Handlers, Lock(x) PROVE FALSE
  BY <1>3 DEF Lock, FindNone, FindRefreshed, BeginRefresh, BeginExchange, memory
<1>4. ASSUME NEW x \in Handlers, Step(x) PROVE Discard(x) \/ Adopt(x)
  BY <1>4 DEF Step, Look, Issue, Rotate, LoseAnswer, ExchangeFails, Clear, Save, Served,
     Unauthorized, Forbidden, FetchFails, HoldOff, ReadStatus, Publish, memory
<1>5. CASE \/ Revoke \/ Retire \/ Age \/ Lapse \/ CooldownOver
           \/ Shutdown \/ StartDrain \/ DrainDone \/ UNCHANGED vars
  BY <1>5 DEF Revoke, Retire, Age, Lapse, CooldownOver, Shutdown, StartDrain, DrainDone, memory,
     vars
<1> QED BY <1>1, <1>2, <1>3, <1>4, <1>5 DEF Next, Exit, Crash, Discard

LEMMA StandsStep == CredInv /\ [Next]_vars => Stands
<1> SUFFICES ASSUME CredInv, [Next]_vars, tok # NoPair, tok' # tok PROVE Stands
  BY DEF Stands
<1>1. ASSUME NEW m \in Mints, Discard(m) PROVE Stands
  BY <1>1 DEF Discard, At, CredInv, Carries, Handlers, Stands
<1>2. ASSUME NEW x \in Handlers, Adopt(x) PROVE Stands
  <2>1. h[x].pc = "answered" /\ tok' = h[x].tok /\ grant' = grant
    BY <1>2 DEF Adopt, At, platform
  <2>2. tok \in Issued /\ grant[tok] \in Nat
    BY DEF CredInv, Shape, Issued, NoPair
  <2>3. tok' # NoPair /\ (x \in Mints => grant[tok'] = grant[tok])
        /\ (x \in Logins => grant[tok] <= grant[tok'])
    BY <2>1, <2>2 DEF CredInv, Carries
  <2>4. tok' \in Issued /\ grant[tok'] \in Nat
    <3>1. CredInv'
      BY <1>2, AdoptStep
    <3>2. grant' \in Seq(Nat) /\ tok' \in 0..Len(grant')
      BY <3>1 DEF CredInv, Shape
    <3> QED BY <2>1, <2>3, <3>2 DEF Issued, NoPair
  <2> QED BY <2>1, <2>2, <2>3, <2>4 DEF Stands, Handlers
<1>3. CASE Reboot
  BY <1>3 DEF Reboot, Stands
<1> QED BY <1>1, <1>2, <1>3, TokStep

\* No refresh of an older authorization's pair replaces a newer one, and a pair
\* is dropped only once the platform rejects it.
THEOREM Standing == Spec => AuthorizationStands
<1>1. CredInv /\ [Next]_vars => [Stands]_vars
  BY StandsStep
<1> QED BY <1>1, Invariance, PTL DEF Spec, AuthorizationStands, Stands
=============================================================================
