----------------------------- MODULE ChatLogin ------------------------------
(***************************************************************************)
(* Connecting the chat account (api/chat.go, api/ratelimit.go and the      *)
(* authorizations of chat/restream.go): an operator's browser asks for an  *)
(* authorization, is sent to the first public_url, then to the platform's  *)
(* dialog, and comes back to the redirect URI.                             *)
(*                                                                         *)
(* Time passes in ticks; what a handler does in one go takes none.  The    *)
(* exchange itself is ChatAuth's: here it succeeds or fails.               *)
(***************************************************************************)
EXTENDS Integers, Sequences, FiniteSets

CONSTANTS Logins,      \* authorizations, each with a state parameter of its own
          UrlLists,    \* the lists chat.public_url may hold
          Others,      \* further addresses the server is reached at
          Burst,       \* chatStartBurst
          Every,       \* chatStartEvery
          TTL,         \* loginStateTTL
          MaxPending,  \* maxPendingLogins
          Slots        \* chatCallbackSlots

ASSUME LoginAssumption ==
    /\ \A us \in UrlLists : 1 \in DOMAIN us    \* a primary address
    /\ \A n \in {Burst, Every, TTL, MaxPending, Slots} : n \in Nat \ {0}
    /\ TTL % Every = 0 /\ MaxPending >= Burst + TTL \div Every

VARIABLES
    urls,     \* cfg.Chat.PublicURL
    tokens,   \* rateLimiter.tokens
    elapsed,  \* time since rateLimiter.last; Never before the first call
    pending,  \* Restream.pending
    age,      \* ticks since the state was issued: pendingLogin.expires
    at,       \* where each browser is
    addr,     \* the address it has opened
    page,     \* whether the client opened it from a page there
    hops,     \* history: redirects it has followed
    spent     \* history: exchanges its state has been good for

vars == <<urls, tokens, elapsed, pending, age, at, addr, page, hops, spent>>
limits  == <<urls, tokens, elapsed>>
browser == <<addr, page, hops>>

Never == -1
MaxHops == 2    \* bound: nothing is learned from further redirects
Goto(l, place) == at' = [at EXCEPT ![l] = place]

-----------------------------------------------------------------------------
(* The addresses *)

\* An address is [scheme, name, port], the port "" when the URL names none.
Primary == urls[1]

\* The host a URL names, and the one a browser that has opened it sends: it
\* leaves out the scheme's own port.
Host(u)   == <<u.name, u.port>>
Header(u) == <<u.name, IF u.port = (IF u.scheme = "http" THEN "80" ELSE "443")
                       THEN "" ELSE u.port>>

Hosts == {Host(urls[i]) : i \in DOMAIN urls}

\* A browser names the site a request comes from to these destinations only.
Trustworthy(u) == u.scheme = "https" \/ u.name = "localhost"

chatAuthPublicRedirect(u) == Header(u) # Host(Primary)

chatHostAllowed(u) == Header(u) \in Hosts

-----------------------------------------------------------------------------
(* The rate limiter *)

Least(a, b) == IF a < b THEN a ELSE b
Refilled == Least(tokens + (IF elapsed = Never THEN 0 ELSE elapsed \div Every), Burst)

\* Fault: the remainder of an interval is lost at every call.
Remainder_Lost == 0

\* Fault: an interval is credited again at every call.
Remainder_Kept == IF elapsed = Never THEN 0 ELSE elapsed

\* Only whole intervals are credited.
Remainder == IF elapsed = Never THEN 0 ELSE elapsed % Every

allow == /\ Refilled > 0
         /\ tokens' = Refilled - 1 /\ elapsed' = Remainder

deny  == /\ Refilled = 0
         /\ tokens' = 0 /\ elapsed' = Remainder

-----------------------------------------------------------------------------
(* The pending authorizations *)

Expired(l) == age[l] > TTL
Unexpired  == {l \in pending : ~Expired(l)}
Oldest(l)  == \A k \in Unexpired : age[k] <= age[l]

\* prunePendingLocked, then evictOldestPendingLocked while there is no room.
Kept(ps) ==
    IF Cardinality(Unexpired) < MaxPending
    THEN ps = Unexpired
    ELSE \E l \in Unexpired : Oldest(l) /\ ps = Unexpired \ {l}

Init ==
    /\ urls \in UrlLists
    /\ tokens = Burst /\ elapsed = Never /\ pending = {}
    /\ age = [l \in Logins |-> 0] /\ at = [l \in Logins |-> "idle"]
    /\ addr = [l \in Logins |-> Primary]
    /\ page = [l \in Logins |-> FALSE]
    /\ hops = [l \in Logins |-> 0] /\ spent = [l \in Logins |-> 0]

-----------------------------------------------------------------------------
(* serveChatAuthStart *)

\* The browser shows another page.
Left(l) == /\ page' = [page EXCEPT ![l] = FALSE] /\ hops' = [hops EXCEPT ![l] = 0]
           /\ addr' = [addr EXCEPT ![l] = Primary]

\* The operator opens the start route: from the web client's page at that
\* address, or from the native client, which hands it to a browser.
Begin(l, u) ==
    /\ at[l] = "idle"
    /\ Goto(l, "start") /\ addr' = [addr EXCEPT ![l] = u]
    /\ page' \in {[page EXCEPT ![l] = p] : p \in BOOLEAN}
    /\ UNCHANGED <<limits, pending, age, hops, spent>>

\* A page's request that was redirected to another name comes from another site.
FromElsewhere(l) == page[l] /\ hops[l] > 0 /\ Trustworthy(addr[l])

BarStart(l) ==
    /\ at[l] = "start" /\ FromElsewhere(l)
    /\ Goto(l, "barred")
    /\ UNCHANGED <<limits, pending, age, spent>> /\ UNCHANGED browser

Redirect(l) ==
    /\ at[l] = "start" /\ ~FromElsewhere(l) /\ chatAuthPublicRedirect(addr[l])
    /\ hops[l] < MaxHops
    /\ \/ addr' = [addr EXCEPT ![l] = Primary] /\ hops' = [hops EXCEPT ![l] = @ + 1]
          /\ UNCHANGED <<at, page>>
       \/ addr[l] # Primary /\ Goto(l, "unreachable") /\ Left(l)
    /\ UNCHANGED <<limits, pending, age, spent>>

Settled(l) == at[l] = "start" /\ ~FromElsewhere(l) /\ ~chatAuthPublicRedirect(addr[l])

\* Too many attempts: the operator may try again.
Limit(l) ==
    /\ Settled(l) /\ deny
    /\ Goto(l, "idle") /\ Left(l)
    /\ UNCHANGED <<urls, pending, age, spent>>

LoginURL(l) ==
    /\ Settled(l) /\ allow
    /\ \E ps \in SUBSET pending : Kept(ps) /\ pending' = ps \cup {l}
    /\ age' = [age EXCEPT ![l] = 0] /\ Goto(l, "dialog")
    /\ page' = [page EXCEPT ![l] = FALSE] /\ hops' = [hops EXCEPT ![l] = 0]
    /\ UNCHANGED <<urls, spent, addr>>

-----------------------------------------------------------------------------
(* The platform and the browser *)

\* The operator answers the dialog, and the platform redirects to the redirect
\* URI; a browser that has not opened the first address may not reach it.
Answer(l) ==
    /\ at[l] = "dialog"
    /\ \/ \E reply \in {"granted", "declined"} : Goto(l, reply)
       \/ addr[l] # Primary /\ Goto(l, "lost")
    /\ Left(l)
    /\ UNCHANGED <<limits, pending, age, spent>>

\* The callback's page is loaded again, with the same parameters.
Reload(l) ==
    /\ at[l] \in {"done", "failed", "unknown", "busy"}
    /\ Goto(l, "granted")
    /\ UNCHANGED <<limits, pending, age, spent>> /\ UNCHANGED browser

-----------------------------------------------------------------------------
(* serveChatAuthCallback and Complete *)

\* chatGuard, for a request that the platform's page leads to.
Guarded(l)  == at[l] \in {"granted", "declined"} /\ chatHostAllowed(Primary)
               /\ ~Trustworthy(Primary)
Exchanging  == {l \in Logins : at[l] = "exchange"}
Admitted(l) == Guarded(l) /\ Cardinality(Exchanging) < Slots

BarCallback(l) ==
    /\ at[l] \in {"granted", "declined"} /\ ~Guarded(l)
    /\ Goto(l, "barred")
    /\ UNCHANGED <<limits, pending, age, spent>> /\ UNCHANGED browser

Busy(l) ==
    /\ Guarded(l) /\ ~Admitted(l)
    /\ Goto(l, "busy")
    /\ UNCHANGED <<limits, pending, age, spent>> /\ UNCHANGED browser

\* Restream redirects back with no parameters when the operator declines.
Cancelled(l) ==
    /\ Admitted(l) /\ at[l] = "declined"
    /\ Goto(l, "cancelled")
    /\ UNCHANGED <<limits, pending, age, spent>> /\ UNCHANGED browser

\* Fault: the state is consumed when the exchange has succeeded.
Consume_Late(l) == pending' = Unexpired

\* The state is consumed here, whether or not the exchange succeeds.
Consume(l) == pending' = Unexpired \ {l}

Complete(l) ==
    /\ Admitted(l) /\ at[l] = "granted"
    /\ Consume(l)
    /\ IF l \in Unexpired
       THEN Goto(l, "exchange") /\ spent' = [spent EXCEPT ![l] = Least(@ + 1, 2)]
       ELSE Goto(l, "unknown") /\ UNCHANGED spent
    /\ UNCHANGED <<limits, age>> /\ UNCHANGED browser

Exchanged(l) ==
    /\ at[l] = "exchange"
    /\ \E outcome \in {"done", "failed"} : Goto(l, outcome)
    /\ UNCHANGED <<limits, pending, age, spent>> /\ UNCHANGED browser

-----------------------------------------------------------------------------
\* Beyond a full bucket, only the remainder of elapsed tells; beyond TTL, no age.
Tick ==
    /\ elapsed' = IF elapsed = Never THEN Never
                  ELSE IF elapsed + 1 < (Burst + 2) * Every THEN elapsed + 1
                  ELSE elapsed + 1 - Every
    /\ age' = [l \in Logins |-> IF at[l] \in {"idle", "start"} THEN age[l]
                                ELSE Least(age[l] + 1, TTL + 1)]
    /\ UNCHANGED <<urls, tokens, pending, at, spent>> /\ UNCHANGED browser

Served(l) ==
    \/ BarStart(l) \/ Redirect(l) \/ Limit(l) \/ LoginURL(l)
    \/ BarCallback(l) \/ Busy(l) \/ Cancelled(l) \/ Complete(l) \/ Exchanged(l)

Addresses == {urls[i] : i \in DOMAIN urls} \cup Others

Next ==
    \/ \E l \in Logins : \/ \E u \in Addresses : Begin(l, u)
                         \/ Served(l) \/ Answer(l) \/ Reload(l)
    \/ Tick

Spec == Init /\ [][Next]_vars
-----------------------------------------------------------------------------
\* Every variable has its shape, and the pending states are bounded.
TypeOK ==
    /\ tokens \in 0 .. Burst /\ elapsed \in {Never} \cup 0 .. (Burst + 2) * Every
    /\ pending \subseteq Logins /\ Cardinality(pending) <= MaxPending
    /\ age \in [Logins -> 0 .. TTL + 1]
    /\ at \in [Logins -> {"idle", "start", "unreachable", "barred", "dialog", "granted",
                          "declined", "lost", "busy", "cancelled", "exchange",
                          "unknown", "done", "failed"}]
    /\ urls \in UrlLists /\ addr \in [Logins -> Addresses] /\ page \in [Logins -> BOOLEAN]
    /\ hops \in [Logins -> 0 .. MaxHops] /\ spent \in [Logins -> 0 .. 2]

\* An operator who comes back in time is known: a state is refused only when it
\* has been used or has expired.  The rate limit admits fewer starts in one
\* lifetime than there is room for, so the eviction that keeps the map bounded
\* never drops one that could still be completed (ratelimit.go allow against
\* restream.go evictOldestPendingLocked).
NotForgotten ==
    \A l \in Logins : at[l] = "unknown" => spent[l] > 0 \/ Expired(l)

\* A state is good for one exchange, however often its callback is loaded again
\* and whether or not that exchange succeeded (restream.go Complete).
SpentOnce == \A l \in Logins : spent[l] <= 1

\* docs/development.md:106 has an operator who puts the server behind TLS "Put the
\* new name first, and register the matching `<public_url>/chat/auth/callback`": the
\* browser that the platform sends there is answered, not barred.
CallbackServed ==
    [][\A l \in Logins : at[l] \in {"granted", "declined"} => at'[l] # "barred"]_vars

\* The handshake goes through: one redirect settles the address, and the operator
\* whom the platform sends back arrives and is answered (chat.go
\* chatAuthPublicRedirect, chatGuard). It does for some lists only.
RoundTrip == \A l \in Logins : hops[l] <= 1 /\ at[l] \notin {"lost", "barred"}

\* The addresses of a server with the list us.
Reaching(us) == {us[i] : i \in DOMAIN us} \cup Others

\* The first address is the one whose Host header says so.
Recognised == \A us \in UrlLists : \A u \in Reaching(us) : Header(u) = Host(us[1]) <=> u = us[1]

\* No Host header ever names the first address: a browser leaves out the port that
\* its URL names, as config.go's validate lets it.
Unrecognised == \A us \in UrlLists : \A u \in Reaching(us) : Header(u) # Host(us[1])

\* A start is refused only for one admitted within the last interval: a permit
\* that has come due is there, even after calls that came faster than permits
\* do, since what an interval leaves over is carried forward (ratelimit.go allow).
RefusedForARecentOne ==
    [][\A l \in Logins : at[l] = "start" /\ at'[l] = "idle"
         => \E k \in Logins : at[k] \notin {"idle", "start"} /\ age[k] < Every]_vars
=============================================================================
