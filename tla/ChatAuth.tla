------------------------------ MODULE ChatAuth ------------------------------
(***************************************************************************)
(* The chat credential: /chat/url requests and authorization callbacks     *)
(* (api/chat.go) share one token pair whose refresh token the platform     *)
(* rotates on every use (chat/restream.go), kept in memory and in a file   *)
(* (chat/tokenstore.go), through crashes and a graceful shutdown           *)
(* (api/server.go serve).                                                  *)
(*                                                                         *)
(* A pair is the number the platform issued it under; grant[p] is the      *)
(* authorization its family descends from.  The platform is external: it   *)
(* is what the code's error paths say it may do.  excused and blamed are   *)
(* history: pairs whose loss has an external cause, and the authorization  *)
(* the last refusal was about.                                             *)
(***************************************************************************)
EXTENDS Integers, Sequences, FiniteSets

CONSTANTS Mints,    \* /chat/url requests served at a time
          Logins,   \* callback slots (chatCallbackSlots)
          Free,     \* nobody holds refreshMu
          MaxPairs, \* bound: pairs the platform issues
          MaxFaults \* bound: expiries, revocations, cooldowns, lost answers, failed writes, crashes

ASSUME ChatAssumption ==
    /\ Mints \cap Logins = {} /\ Free \notin Mints \cup Logins
    /\ MaxPairs \in Nat \ {0} /\ MaxFaults \in Nat

VARIABLES
    phase,      \* "up", "stopping", "draining" (Drain polls) or "drained"
    tok,        \* Restream.tok, NoPair when there is none
    refused,    \* now is before refusedUntil
    gen,        \* Restream.gen
    tokenCalls, \* Restream.tokenCalls
    refreshMu,  \* the handler that holds it, or Free
    h,          \* the request handlers
    disk,       \* the pair in the token file
    published,  \* stream.chat.status in the Store
    grant,      \* platform: the pairs issued so far
    rotated,    \* platform: pairs replaced by a refresh
    revoked,    \* platform: pairs rejected for another reason
    retired,    \* platform: access tokens refused before their stated expiry
    aged,       \* pairs whose access token is within refreshSkew of expiry
    lapsed,     \* pairs past RefreshExpiry
    faults, excused, blamed

memory   == <<tok, refused, gen>>
platform == <<grant, rotated, revoked, retired>>
clocks   == <<aged, lapsed>>
vars == <<phase, tok, refused, gen, tokenCalls, refreshMu, h, disk, published,
          grant, rotated, revoked, retired, aged, lapsed, faults, excused, blamed>>

-----------------------------------------------------------------------------
Handlers == Mints \cup Logins
NoPair   == 0
Pairs    == 1..MaxPairs
Held     == Pairs \cup {NoPair}
Places   == {"idle", "fast", "wait", "post", "answered", "save", "clear",
             "fetch", "holdoff", "read", "publish"}
Idle     == [pc |-> "idle", gen |-> 0, retire |-> NoPair, tok |-> NoPair,
             status |-> "needs_auth"]

At(x, pc)   == h[x].pc = pc
Goto(x, pc) == h' = [h EXCEPT ![x].pc = pc]
Finish(x)   == h' = [h EXCEPT ![x] = Idle]
\* The outcome is settled; what is left is to publish the status.
Report(x)   == h' = [h EXCEPT ![x] = [Idle EXCEPT !.pc = "read"]]
\* After an exchange a mint goes on to fetch and a callback to report.
Onward(x)   == IF x \in Mints THEN Goto(x, "fetch") ELSE Report(x)

\* The platform redeems the pair's refresh token.
Live(p)  == p \in 1..Len(grant) \ (rotated \cup revoked)
\* tokens.valid.
Valid(p) == p # NoPair /\ p \notin lapsed
\* The access token needs no refresh (refreshSkew before its expiry).
Fresh(p) == p \notin aged
Authorized == Valid(tok) /\ ~refused
StatusOf == IF Authorized THEN "ready" ELSE "needs_auth"
Usable(retire) == Authorized /\ tok # retire /\ Fresh(tok)

Fault == faults < MaxFaults /\ faults' = faults + 1

\* A server that was never authorized, or one that found a pair in its file.
Init ==
    /\ phase = "up" /\ refused = FALSE /\ gen = 0 /\ tokenCalls = 0
    /\ refreshMu = Free /\ h = [x \in Handlers |-> Idle]
    /\ grant \in {<<>>, <<1>>}
    /\ tok = Len(grant) /\ disk = Len(grant)
    /\ rotated = {} /\ revoked = {} /\ retired = {} /\ aged = {} /\ lapsed = {}
    /\ published = StatusOf
    /\ faults = 0 /\ excused = {} /\ blamed = 0

-----------------------------------------------------------------------------
(* accessToken *)

\* URL: the generation is captured before the attempt.
Ask(m) ==
    /\ phase = "up" /\ At(m, "idle")
    /\ h' = [h EXCEPT ![m] = [Idle EXCEPT !.pc = "fast", !.gen = gen]]
    /\ UNCHANGED <<phase, tokenCalls, refreshMu, disk, published, faults, excused, blamed>>
    /\ UNCHANGED memory /\ UNCHANGED platform /\ UNCHANGED clocks

\* usableToken answers without refreshMu, or the request queues for it.
Look(m) ==
    /\ At(m, "fast")
    /\ h' = IF Usable(h[m].retire)
            THEN [h EXCEPT ![m].pc = "fetch", ![m].tok = tok]
            ELSE [h EXCEPT ![m].pc = "wait"]
    /\ UNCHANGED <<phase, tokenCalls, refreshMu, disk, published, faults, excused, blamed>>
    /\ UNCHANGED memory /\ UNCHANGED platform /\ UNCHANGED clocks

\* With refreshMu: no credential, or one in its refusal cooldown.
FindNone(m) ==
    /\ m \in Mints /\ At(m, "wait") /\ refreshMu = Free
    /\ ~Authorized
    /\ Report(m)
    /\ UNCHANGED <<phase, tokenCalls, refreshMu, disk, published, faults, excused, blamed>>
    /\ UNCHANGED memory /\ UNCHANGED platform /\ UNCHANGED clocks

\* With refreshMu: whoever held it before left a token good enough.
FindRefreshed(m) ==
    /\ m \in Mints /\ At(m, "wait") /\ refreshMu = Free
    /\ Usable(h[m].retire)
    /\ h' = [h EXCEPT ![m].pc = "fetch", ![m].tok = tok]
    /\ UNCHANGED <<phase, tokenCalls, refreshMu, disk, published, faults, excused, blamed>>
    /\ UNCHANGED memory /\ UNCHANGED platform /\ UNCHANGED clocks

\* Fault: the refresh does not wait for refreshMu.
BeginRefresh_Unlocked(m) ==
    /\ m \in Mints /\ At(m, "wait")
    /\ Authorized /\ ~Usable(h[m].retire)
    /\ refreshMu' = m /\ tokenCalls' = tokenCalls + 1
    /\ h' = [h EXCEPT ![m].pc = "post", ![m].tok = tok]
    /\ UNCHANGED <<phase, disk, published, faults, excused, blamed>>
    /\ UNCHANGED memory /\ UNCHANGED platform /\ UNCHANGED clocks

\* Fault: a refused caller refreshes whatever token is held by now.
BeginRefresh_Forced(m) ==
    /\ m \in Mints /\ At(m, "wait") /\ refreshMu = Free
    /\ Authorized /\ (h[m].retire # NoPair \/ ~Usable(h[m].retire))
    /\ refreshMu' = m /\ tokenCalls' = tokenCalls + 1
    /\ h' = [h EXCEPT ![m].pc = "post", ![m].tok = tok]
    /\ UNCHANGED <<phase, disk, published, faults, excused, blamed>>
    /\ UNCHANGED memory /\ UNCHANGED platform /\ UNCHANGED clocks

\* With refreshMu: the held token is near expiry, or is the one that was refused.
BeginRefresh(m) ==
    /\ m \in Mints /\ At(m, "wait") /\ refreshMu = Free
    /\ Authorized /\ ~Usable(h[m].retire)
    /\ refreshMu' = m /\ tokenCalls' = tokenCalls + 1
    /\ h' = [h EXCEPT ![m].pc = "post", ![m].tok = tok]
    /\ UNCHANGED <<phase, disk, published, faults, excused, blamed>>
    /\ UNCHANGED memory /\ UNCHANGED platform /\ UNCHANGED clocks

-----------------------------------------------------------------------------
(* Complete *)

\* A callback with a code and a pending state, which it consumes.
Callback(l) ==
    /\ phase = "up" /\ At(l, "idle")
    /\ Goto(l, "wait")
    /\ UNCHANGED <<phase, tokenCalls, refreshMu, disk, published, faults, excused, blamed>>
    /\ UNCHANGED memory /\ UNCHANGED platform /\ UNCHANGED clocks

\* Fault: the exchange does not wait for refreshMu.
BeginExchange_Unlocked(l) ==
    /\ l \in Logins /\ At(l, "wait")
    /\ refreshMu' = l /\ tokenCalls' = tokenCalls + 1
    /\ Goto(l, "post")
    /\ UNCHANGED <<phase, disk, published, faults, excused, blamed>>
    /\ UNCHANGED memory /\ UNCHANGED platform /\ UNCHANGED clocks

BeginExchange(l) ==
    /\ l \in Logins /\ At(l, "wait") /\ refreshMu = Free
    /\ refreshMu' = l /\ tokenCalls' = tokenCalls + 1
    /\ Goto(l, "post")
    /\ UNCHANGED <<phase, disk, published, faults, excused, blamed>>
    /\ UNCHANGED memory /\ UNCHANGED platform /\ UNCHANGED clocks

\* The platform issues the first pair of a new authorization.
Issue(l) ==
    /\ l \in Logins /\ At(l, "post") /\ Len(grant) < MaxPairs
    /\ grant' = Append(grant, 1 + Cardinality({grant[p] : p \in DOMAIN grant}))
    /\ h' = [h EXCEPT ![l].pc = "answered", ![l].tok = Len(grant) + 1]
    /\ UNCHANGED <<phase, tokenCalls, refreshMu, disk, published, rotated, revoked,
                   retired, faults, excused, blamed>>
    /\ UNCHANGED memory /\ UNCHANGED clocks

-----------------------------------------------------------------------------
(* The token exchange: postToken, adopt, discard *)

Unlock == refreshMu' = Free /\ tokenCalls' = tokenCalls - 1

\* The platform rotates the pair on receipt and answers with its successor.
Rotate(m) ==
    /\ m \in Mints /\ At(m, "post") /\ Live(h[m].tok) /\ Len(grant) < MaxPairs
    /\ grant' = Append(grant, grant[h[m].tok])
    /\ rotated' = rotated \cup {h[m].tok}
    /\ h' = [h EXCEPT ![m].pc = "answered", ![m].tok = Len(grant) + 1]
    /\ UNCHANGED <<phase, tokenCalls, refreshMu, disk, published, revoked, retired,
                   faults, excused, blamed>>
    /\ UNCHANGED memory /\ UNCHANGED clocks

\* The platform rotates the pair and its answer never arrives.
LoseAnswer(m) ==
    /\ m \in Mints /\ At(m, "post") /\ Live(h[m].tok) /\ Fault
    /\ rotated' = rotated \cup {h[m].tok}
    /\ excused' = excused \cup {h[m].tok}
    /\ Unlock /\ Finish(m)
    /\ UNCHANGED <<phase, disk, published, grant, revoked, retired, blamed>>
    /\ UNCHANGED memory /\ UNCHANGED clocks

\* Fault: the error path does not end the exchange.
ExchangeFails_LeaksCall(x) ==
    /\ At(x, "post")
    /\ refreshMu' = Free /\ UNCHANGED tokenCalls /\ Finish(x)
    /\ UNCHANGED <<phase, disk, published, faults, excused, blamed>>
    /\ UNCHANGED memory /\ UNCHANGED platform /\ UNCHANGED clocks

\* Any other failure: unreachable, a gateway error, a rejected code, a missing
\* scope.  The credential held is kept.
ExchangeFails(x) ==
    /\ At(x, "post")
    /\ Unlock /\ Finish(x)
    /\ UNCHANGED <<phase, disk, published, faults, excused, blamed>>
    /\ UNCHANGED memory /\ UNCHANGED platform /\ UNCHANGED clocks

\* invalid_grant: discard drops the credential ...
Discard(m) ==
    /\ m \in Mints /\ At(m, "post") /\ ~Live(h[m].tok)
    /\ tok' = NoPair
    /\ Goto(m, "clear")
    /\ UNCHANGED <<phase, refused, gen, tokenCalls, refreshMu, disk, published,
                   faults, excused, blamed>>
    /\ UNCHANGED platform /\ UNCHANGED clocks

\* Fault: the rejected path returns without releasing refreshMu.
Clear_KeepsLock(m) ==
    /\ At(m, "clear")
    /\ disk' = NoPair
    /\ Report(m)
    /\ UNCHANGED <<phase, tokenCalls, refreshMu, published, faults, excused, blamed>>
    /\ UNCHANGED memory /\ UNCHANGED platform /\ UNCHANGED clocks

\* ... and clears the file, or fails to.
Clear(m) ==
    /\ At(m, "clear")
    /\ \/ disk' = NoPair /\ UNCHANGED <<faults, excused>>
       \/ Fault /\ excused' = excused \cup {disk} /\ UNCHANGED disk
    /\ Unlock /\ Report(m)
    /\ UNCHANGED <<phase, published, blamed>>
    /\ UNCHANGED memory /\ UNCHANGED platform /\ UNCHANGED clocks

\* adopt, in memory: the pair, no refusal, and a login's new generation.
Adopt(x) ==
    /\ At(x, "answered")
    /\ tok' = h[x].tok /\ refused' = FALSE /\ blamed' = 0
    /\ gen' = IF x \in Logins THEN gen + 1 ELSE gen
    /\ Goto(x, "save")
    /\ UNCHANGED <<phase, tokenCalls, refreshMu, disk, published, faults, excused>>
    /\ UNCHANGED platform /\ UNCHANGED clocks

\* Fault: the pair is left for shutdown to persist.
Save_Skipped(x) ==
    /\ At(x, "save")
    /\ Unlock /\ Onward(x)
    /\ UNCHANGED <<phase, disk, published, faults, excused, blamed>>
    /\ UNCHANGED memory /\ UNCHANGED platform /\ UNCHANGED clocks

\* adopt, on disk: tokenStore.save replaces the file whole, or fails.
Save(x) ==
    /\ At(x, "save")
    /\ \/ disk' = h[x].tok /\ UNCHANGED <<faults, excused>>
       \/ Fault /\ excused' = excused \cup {disk} /\ UNCHANGED disk
    /\ Unlock /\ Onward(x)
    /\ UNCHANGED <<phase, published, blamed>>
    /\ UNCHANGED memory /\ UNCHANGED platform /\ UNCHANGED clocks

-----------------------------------------------------------------------------
(* mint: the webchat request *)

Served(m) ==
    /\ At(m, "fetch") /\ h[m].tok \notin rotated \cup revoked \cup retired
    /\ Report(m)
    /\ UNCHANGED <<phase, tokenCalls, refreshMu, disk, published, faults, excused, blamed>>
    /\ UNCHANGED memory /\ UNCHANGED platform /\ UNCHANGED clocks

\* 401: the first time the token is retired and the attempt repeated.
Unauthorized(m) ==
    /\ At(m, "fetch") /\ h[m].tok \in rotated \cup revoked \cup retired
    /\ h' = IF h[m].retire = NoPair
            THEN [h EXCEPT ![m].pc = "fast", ![m].retire = h[m].tok, ![m].tok = NoPair]
            ELSE [h EXCEPT ![m].pc = "holdoff"]
    /\ UNCHANGED <<phase, tokenCalls, refreshMu, disk, published, faults, excused, blamed>>
    /\ UNCHANGED memory /\ UNCHANGED platform /\ UNCHANGED clocks

\* 403 insufficient_scope.
Forbidden(m) ==
    /\ At(m, "fetch")
    /\ Goto(m, "holdoff")
    /\ UNCHANGED <<phase, tokenCalls, refreshMu, disk, published, faults, excused, blamed>>
    /\ UNCHANGED memory /\ UNCHANGED platform /\ UNCHANGED clocks

\* Any other answer, or none within webchatTimeout.
FetchFails(m) ==
    /\ At(m, "fetch")
    /\ Finish(m)
    /\ UNCHANGED <<phase, tokenCalls, refreshMu, disk, published, faults, excused, blamed>>
    /\ UNCHANGED memory /\ UNCHANGED platform /\ UNCHANGED clocks

\* Fault: a refusal counts whatever has been authorized since.
HoldOff_AnyGeneration(m) ==
    /\ At(m, "holdoff")
    /\ refused' = TRUE /\ blamed' = grant[h[m].tok]
    /\ Report(m)
    /\ UNCHANGED <<phase, tok, gen, tokenCalls, refreshMu, disk, published, faults, excused>>
    /\ UNCHANGED platform /\ UNCHANGED clocks

\* holdOff, unless a login completed since the attempt began.
HoldOff(m) ==
    /\ At(m, "holdoff")
    /\ refused' = (refused \/ gen = h[m].gen)
    /\ blamed' = IF gen = h[m].gen THEN grant[h[m].tok] ELSE blamed
    /\ Report(m)
    /\ UNCHANGED <<phase, tok, gen, tokenCalls, refreshMu, disk, published, faults, excused>>
    /\ UNCHANGED platform /\ UNCHANGED clocks

(* publishChatStatus: the status is read first, stored later *)

ReadStatus(x) ==
    /\ At(x, "read")
    /\ h' = [h EXCEPT ![x].pc = "publish", ![x].status = StatusOf]
    /\ UNCHANGED <<phase, tokenCalls, refreshMu, disk, published, faults, excused, blamed>>
    /\ UNCHANGED memory /\ UNCHANGED platform /\ UNCHANGED clocks

Publish(x) ==
    /\ At(x, "publish")
    /\ published' = h[x].status
    /\ Finish(x)
    /\ UNCHANGED <<phase, tokenCalls, refreshMu, disk, faults, excused, blamed>>
    /\ UNCHANGED memory /\ UNCHANGED platform /\ UNCHANGED clocks

-----------------------------------------------------------------------------
(* The platform and the clock *)

Revoke ==
    /\ Live(tok) /\ Fault
    /\ revoked' = revoked \cup {tok}
    /\ UNCHANGED <<phase, tokenCalls, refreshMu, h, disk, published, grant, rotated,
                   retired, excused, blamed>>
    /\ UNCHANGED memory /\ UNCHANGED clocks

Retire ==
    /\ tok # NoPair /\ tok \notin retired /\ Fault
    /\ retired' = retired \cup {tok}
    /\ UNCHANGED <<phase, tokenCalls, refreshMu, h, disk, published, grant, rotated,
                   revoked, excused, blamed>>
    /\ UNCHANGED memory /\ UNCHANGED clocks

Age ==
    /\ tok # NoPair /\ Fresh(tok) /\ Fault
    /\ aged' = aged \cup {tok}
    /\ UNCHANGED <<phase, tokenCalls, refreshMu, h, disk, published, lapsed, excused, blamed>>
    /\ UNCHANGED memory /\ UNCHANGED platform

Lapse ==
    /\ Valid(tok) /\ Fault
    /\ lapsed' = lapsed \cup {tok}
    /\ UNCHANGED <<phase, tokenCalls, refreshMu, h, disk, published, aged, excused, blamed>>
    /\ UNCHANGED memory /\ UNCHANGED platform

CooldownOver ==
    /\ refused /\ Fault
    /\ refused' = FALSE /\ blamed' = 0
    /\ UNCHANGED <<phase, tok, gen, tokenCalls, refreshMu, h, disk, published, excused>>
    /\ UNCHANGED platform /\ UNCHANGED clocks

-----------------------------------------------------------------------------
(* The process *)

\* serve: no new request is accepted.
Shutdown ==
    /\ phase = "up"
    /\ phase' = "stopping"
    /\ UNCHANGED <<tokenCalls, refreshMu, h, disk, published, faults, excused, blamed>>
    /\ UNCHANGED memory /\ UNCHANGED platform /\ UNCHANGED clocks

\* http.Server.Shutdown returns: every handler is done, or its five seconds ran
\* out while an exchange kept some of them busy.
StartDrain ==
    /\ phase = "stopping"
    /\ refreshMu # Free \/ \A x \in Handlers : At(x, "idle")
    /\ phase' = "draining"
    /\ UNCHANGED <<tokenCalls, refreshMu, h, disk, published, faults, excused, blamed>>
    /\ UNCHANGED memory /\ UNCHANGED platform /\ UNCHANGED clocks

\* Drain sees no token request in flight and returns.
DrainDone ==
    /\ phase = "draining" /\ tokenCalls = 0
    /\ phase' = "drained"
    /\ UNCHANGED <<tokenCalls, refreshMu, h, disk, published, faults, excused, blamed>>
    /\ UNCHANGED memory /\ UNCHANGED platform /\ UNCHANGED clocks

\* The process ends where it is and a new one starts from the file: NewRestream,
\* then NewServer's first publishChatStatus.
Reboot ==
    /\ phase' = "up" /\ tokenCalls' = 0 /\ refreshMu' = Free
    /\ h' = [x \in Handlers |-> Idle]
    /\ tok' = disk /\ refused' = FALSE /\ gen' = 0 /\ blamed' = 0
    /\ published' = IF Valid(disk) THEN "ready" ELSE "needs_auth"
    /\ excused' = IF \E m \in Mints : At(m, "answered") \/ At(m, "save")
                  THEN excused \cup {disk} ELSE excused
    /\ UNCHANGED disk /\ UNCHANGED platform /\ UNCHANGED clocks

Exit  == phase = "drained" /\ Reboot /\ UNCHANGED faults
\* A crash, or a Drain that ran out of time.
Crash == Fault /\ Reboot

-----------------------------------------------------------------------------
Lock(x) == FindNone(x) \/ FindRefreshed(x) \/ BeginRefresh(x) \/ BeginExchange(x)
Step(x) ==
    \/ Look(x) \/ Issue(x) \/ Rotate(x) \/ LoseAnswer(x) \/ ExchangeFails(x)
    \/ Discard(x) \/ Clear(x) \/ Adopt(x) \/ Save(x)
    \/ Served(x) \/ Unauthorized(x) \/ Forbidden(x) \/ FetchFails(x) \/ HoldOff(x)
    \/ ReadStatus(x) \/ Publish(x)

Next ==
    \/ \E m \in Mints : Ask(m)
    \/ \E l \in Logins : Callback(l)
    \/ \E x \in Handlers : Lock(x) \/ Step(x)
    \/ Revoke \/ Retire \/ Age \/ Lapse \/ CooldownOver
    \/ Shutdown \/ StartDrain \/ DrainDone \/ Exit \/ Crash

Spec == Init /\ [][Next]_vars

\* Handlers run; every outbound request has a deadline, so it ends somehow; a
\* Go mutex in starvation mode hands itself to its oldest waiter; Drain polls.
Fairness == /\ \A x \in Handlers : WF_vars(Step(x)) /\ SF_vars(Lock(x))
            /\ WF_vars(StartDrain) /\ WF_vars(DrainDone)
FairSpec == Spec /\ Fairness

-----------------------------------------------------------------------------
(* Properties *)

Exchanging == {"post", "answered", "save", "clear"}

\* Every variable has its type; refreshMu is held exactly by the one handler in
\* an exchange, and tokenCalls counts it (beginExchange, endExchange).
TypeOK ==
    /\ phase \in {"up", "stopping", "draining", "drained"}
    /\ tok \in Held /\ disk \in Held /\ refused \in BOOLEAN /\ gen \in 0..MaxPairs
    /\ tokenCalls \in {0, 1} /\ refreshMu \in Handlers \cup {Free}
    /\ h \in [Handlers -> [pc : Places, gen : 0..MaxPairs, retire : Held, tok : Held,
                           status : {"ready", "needs_auth"}]]
    /\ published \in {"ready", "needs_auth"}
    /\ Len(grant) <= MaxPairs /\ \A p \in DOMAIN grant : grant[p] \in Pairs
    /\ rotated \subseteq Pairs /\ revoked \subseteq Pairs /\ retired \subseteq Pairs
    /\ aged \subseteq Pairs /\ lapsed \subseteq Pairs /\ excused \subseteq Held
    /\ faults \in 0..MaxFaults /\ blamed \in 0..MaxPairs
    /\ \A x \in Handlers : refreshMu = x <=> h[x].pc \in Exchanging
    /\ tokenCalls = Cardinality({x \in Handlers : h[x].pc \in Exchanging})

\* A refresh token is never spent twice: no refresh posts a pair the platform
\* has already replaced, however many requests were refused together (the
\* comment on refreshMu), unless an answer or a write was lost.
NeverSpentTwice == \A m \in Mints : At(m, "post") => h[m].tok \notin rotated \ excused

\* Between exchanges the credential is never a pair the platform has replaced,
\* in memory or in the file, and the file holds the same one; only a lost
\* answer, a failed write or a process that ends inside an exchange excuses it
\* (adopt writes before it hands back).
CredentialKept ==
    refreshMu = Free => /\ tok \notin rotated \ excused /\ disk \notin rotated \ excused
                        /\ disk = tok \/ disk \in excused

\* A completed authorization stands: no refresh of an older authorization's pair
\* ends up replacing it, and it is dropped only once the platform rejects it
\* (Complete takes refreshMu); a restart takes what the file holds.
AuthorizationStands ==
    [][tok # NoPair /\ tok' # tok =>
         \/ tok' = NoPair /\ ~Live(tok)
         \/ tok' # NoPair /\ grant'[tok'] >= grant[tok]
         \/ phase' = "up" /\ tok' = disk]_vars

\* The refusal cooldown never suppresses a credential other than the one that
\* was refused: an answer that was in flight while the operator authorized
\* again does not hold the new pair off (holdOff's generation).
RefusalIsCurrent == refused /\ tok # NoPair => blamed = grant[tok]

\* Requests refused together share one rotation: the platform rotates a pair
\* only because that pair neared expiry or was itself refused (mint's retire).
OneRotationEach == rotated \subseteq retired \cup aged

\* Every /chat/url request and every callback is answered, whatever the
\* platform does with the exchange it waits behind.
Answered == \A x \in Handlers : ~At(x, "idle") ~> At(x, "idle")

\* A shutdown ends by itself, without spending the drain timeout: every exchange
\* begun is also ended, on every path (endExchange).
Drains == phase \in {"stopping", "draining"} ~> phase \notin {"stopping", "draining"}

\* api/chat.go:228 says the status is published "whenever authorization changes,
\* so a client that was showing the connect prompt switches over": with no
\* request under way and a usable credential, the published status is ready.
ConnectTakesEffect ==
    (\A x \in Handlers : At(x, "idle")) /\ Authorized => published = "ready"
=============================================================================
