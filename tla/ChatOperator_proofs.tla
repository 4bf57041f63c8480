------------------------ MODULE ChatOperator_proofs ------------------------
(***************************************************************************)
(* The operator's side of chat: connecting the account (ChatLogin) and the *)
(* panels (ChatPanel), two components that share nothing.                  *)
(*                                                                         *)
(* For every number of authorizations, every rate, lifetime, room and      *)
(* number of slots: a state parameter is spent at most once, an operator   *)
(* who comes back in time is known, and a start is refused only for a      *)
(* recent one.  Which lists of addresses the handshake goes through for,   *)
(* for which it is barred at its end, and for which it never begins.  And  *)
(* a panel is never pinned to an answer older than the status it shows,    *)
(* for any number of panels and of events.                                 *)
(***************************************************************************)
EXTENDS ChatLogin, ChatPanel, FiniteSetTheorems, TLAPS

-----------------------------------------------------------------------------
(* Spending a state *)

Places == {"idle", "start", "unreachable", "barred", "dialog", "granted", "declined",
           "lost", "busy", "cancelled", "exchange", "unknown", "done", "failed"}

\* A state that is pending, or has yet to be issued, has not been spent; one
\* that has yet to be issued is not pending.
SpendInv ==
    /\ pending \in SUBSET Logins
    /\ at \in [Logins -> Places] /\ spent \in [Logins -> {0, 1}]
    /\ \A l \in pending : spent[l] = 0
    /\ \A l \in Logins : at[l] \in {"idle", "start"} => spent[l] = 0 /\ l \notin pending

LEMMA SpendInit == Init => SpendInv
BY DEF Init, SpendInv, Places

\* A browser that goes from l's place to one past the start disturbs nothing.
LEMMA SpendGoto ==
    ASSUME SpendInv, NEW l \in Logins, NEW place \in Places, Goto(l, place),
           place \in {"idle", "start"} => at[l] \in {"idle", "start"},
           UNCHANGED <<pending, spent>>
    PROVE  SpendInv'
BY DEF SpendInv, Goto

\* What is kept of the pending states was pending.
LEMMA SpendIssue ==
    ASSUME SpendInv, NEW l \in Logins, LoginURL(l)
    PROVE  SpendInv'
<1>1. at[l] = "start" /\ spent' = spent
  BY DEF LoginURL, Settled
<1>2. at' = [at EXCEPT ![l] = "dialog"] /\ "dialog" \in Places
  BY DEF LoginURL, Goto, Places
<1>3. PICK ps \in SUBSET pending : pending' = ps \cup {l}
  BY DEF LoginURL
<1> QED BY <1>1, <1>2, <1>3 DEF SpendInv

LEMMA SpendComplete ==
    ASSUME SpendInv, NEW l \in Logins, Complete(l)
    PROVE  SpendInv'
<1>1. Unexpired \subseteq pending /\ pending' = Unexpired \ {l} /\ at[l] = "granted"
  BY DEF Complete, Consume, Unexpired
<1>2. CASE l \in Unexpired
  <2>1. at' = [at EXCEPT ![l] = "exchange"] /\ "exchange" \in Places
    BY <1>2 DEF Complete, Goto, Places
  <2>2. spent' = [spent EXCEPT ![l] = Least(spent[l] + 1, 2)]
    BY <1>2 DEF Complete
  <2>3. spent[l] = 0
    BY <1>1, <1>2 DEF SpendInv
  <2>4. Least(spent[l] + 1, 2) = 1
    BY <2>3 DEF Least
  <2>5. spent' = [spent EXCEPT ![l] = 1]
    BY <2>2, <2>4
  <2> QED BY <1>1, <2>1, <2>5 DEF SpendInv
<1>3. CASE l \notin Unexpired
  <2>1. at' = [at EXCEPT ![l] = "unknown"] /\ "unknown" \in Places /\ spent' = spent
    BY <1>3 DEF Complete, Goto, Places
  <2> QED BY <1>1, <2>1 DEF SpendInv
<1> QED BY <1>2, <1>3

\* Every other step of a browser or of a handler leaves both alone.
LEMMA SpendMove ==
    ASSUME SpendInv, NEW l \in Logins,
           \/ \E u \in Addresses : Begin(l, u)
           \/ BarStart(l) \/ Redirect(l) \/ Limit(l) \/ BarCallback(l) \/ Busy(l)
           \/ Cancelled(l) \/ Exchanged(l) \/ Answer(l) \/ Reload(l)
    PROVE  SpendInv'
<1> USE DEF Places
<1>1. CASE \E u \in Addresses : Begin(l, u)
  BY <1>1, SpendGoto DEF Begin
<1>2. CASE BarStart(l)
  BY <1>2, SpendGoto DEF BarStart
<1>3. CASE Redirect(l)
  <2>1. UNCHANGED <<pending, spent>> /\ at[l] = "start"
    BY <1>3 DEF Redirect
  <2>2. CASE UNCHANGED at
    BY <2>1, <2>2 DEF SpendInv
  <2>3. CASE Goto(l, "unreachable")
    BY <2>1, <2>3, SpendGoto
  <2> QED BY <1>3, <2>2, <2>3 DEF Redirect
<1>4. CASE Limit(l)
  BY <1>4, SpendGoto DEF Limit, Settled
<1>5. CASE BarCallback(l)
  BY <1>5, SpendGoto DEF BarCallback
<1>6. CASE Busy(l)
  BY <1>6, SpendGoto DEF Busy
<1>7. CASE Cancelled(l)
  BY <1>7, SpendGoto DEF Cancelled
<1>8. CASE Exchanged(l)
  BY <1>8, SpendGoto DEF Exchanged
<1>9. CASE Answer(l)
  BY <1>9, SpendGoto DEF Answer
<1>10. CASE Reload(l)
  BY <1>10, SpendGoto DEF Reload
<1> QED BY <1>1, <1>2, <1>3, <1>4, <1>5, <1>6, <1>7, <1>8, <1>9, <1>10

LEMMA SpendStep == SpendInv /\ [Next]_vars => SpendInv'
<1> SUFFICES ASSUME SpendInv, [Next]_vars PROVE SpendInv'
  OBVIOUS
<1>1. CASE UNCHANGED vars \/ Tick
  BY <1>1 DEF vars, Tick, SpendInv
<1>2. ASSUME NEW l \in Logins,
             (\E u \in Addresses : Begin(l, u)) \/ Served(l) \/ Answer(l) \/ Reload(l)
      PROVE  SpendInv'
  BY <1>2, SpendMove, SpendIssue, SpendComplete DEF Served
<1> QED BY <1>1, <1>2 DEF Next

\* A state parameter is good for one exchange, however often its callback is
\* loaded again, however many authorizations compete and whatever expires or is
\* evicted (restream.go Complete).
THEOREM Spent == Spec => []SpentOnce
<1>1. SpendInv => SpentOnce
  BY DEF SpendInv, SpentOnce
<1> QED BY <1>1, SpendInit, SpendStep, PTL DEF Spec

-----------------------------------------------------------------------------
(* The round trip *)

\* Nobody's site is named by the browser at the first address.
Unnamed == \A us \in UrlLists : ~Trustworthy(us[1])

\* A redirected browser is at the first address, and so is every one that is
\* not about to be.
TripInv ==
    /\ urls \in UrlLists
    /\ at \in [Logins -> Places] /\ addr \in [Logins -> Addresses]
    /\ hops \in [Logins -> {0, 1}]
    /\ \A l \in Logins :
         /\ hops[l] = 1 => addr[l] = Primary /\ at[l] = "start"
         /\ at[l] # "start" => addr[l] = Primary
         /\ at[l] \notin {"lost", "barred"}

LEMMA PrimaryIsAnAddress ==
    ASSUME urls \in UrlLists
    PROVE  Primary \in Addresses
BY LoginAssumption DEF LoginAssumption, Primary, Addresses

\* chatAuthPublicRedirect sends on every address but the first.
LEMMA RedirectTells ==
    ASSUME Recognised, urls \in UrlLists, NEW u \in Addresses
    PROVE  chatAuthPublicRedirect(u) <=> u # Primary
BY DEF Recognised, Reaching, chatAuthPublicRedirect, Addresses, Primary

\* chatGuard accepts the host that the redirect URI brings.
LEMMA PrimaryAllowed ==
    ASSUME Recognised, urls \in UrlLists
    PROVE  chatHostAllowed(Primary)
<1>1. Header(Primary) = Host(Primary)
  BY PrimaryIsAnAddress, RedirectTells DEF chatAuthPublicRedirect
<1>2. Host(Primary) \in Hosts
  BY LoginAssumption DEF LoginAssumption, Primary, Hosts
<1> QED BY <1>1, <1>2 DEF chatHostAllowed

LEMMA TripInit == Init => TripInv
<1> SUFFICES ASSUME Init PROVE TripInv
  OBVIOUS
<1>1. urls \in UrlLists
  BY DEF Init
<1>2. Primary \in Addresses
  BY <1>1, PrimaryIsAnAddress
<1> QED BY <1>1, <1>2 DEF Init, TripInv, Places

\* The browser of l moves on where it is, not to the dialog and not past it.
LEMMA TripGoto ==
    ASSUME TripInv, NEW l \in Logins, NEW place \in Places, Goto(l, place),
           UNCHANGED <<urls, addr, hops>>,
           place \notin {"start", "lost", "barred"}, hops[l] = 0, addr[l] = Primary
    PROVE  TripInv'
<1>1. Primary' = Primary /\ Addresses' = Addresses
  BY DEF Primary, Addresses
<1> QED BY <1>1 DEF TripInv, Goto

\* The browser of l shows another page, or the dialog.
LEMMA TripLeft ==
    ASSUME TripInv, NEW l \in Logins, NEW place \in Places, Goto(l, place),
           Left(l), UNCHANGED urls,
           place \notin {"lost", "barred"}
    PROVE  TripInv'
<1>1. Primary' = Primary /\ Addresses' = Addresses /\ Primary \in Addresses
  BY PrimaryIsAnAddress DEF Primary, Addresses, TripInv
<1> QED BY <1>1 DEF TripInv, Goto, Left

LEMMA TripRedirect ==
    ASSUME Recognised, TripInv, NEW l \in Logins, Redirect(l)
    PROVE  TripInv'
<1>1. addr[l] # Primary /\ hops[l] = 0 /\ UNCHANGED urls
  BY RedirectTells DEF Redirect, TripInv, limits
<1>2. CASE Goto(l, "unreachable") /\ Left(l)
  BY <1>1, <1>2, TripLeft DEF Places
<1>3. CASE /\ addr' = [addr EXCEPT ![l] = Primary]
           /\ hops' = [hops EXCEPT ![l] = hops[l] + 1] /\ UNCHANGED at
  <2>1. hops' = [hops EXCEPT ![l] = 1] /\ at[l] = "start"
    BY <1>1, <1>3 DEF Redirect
  <2>2. Primary' = Primary /\ Addresses' = Addresses /\ Primary \in Addresses
    BY <1>1, PrimaryIsAnAddress DEF Primary, Addresses, TripInv
  <2> QED BY <1>3, <2>1, <2>2, <1>1 DEF TripInv
<1> QED BY <1>2, <1>3 DEF Redirect

\* A start that comes after the redirect is at the first address.
LEMMA TripLoginURL ==
    ASSUME Recognised, TripInv, NEW l \in Logins, LoginURL(l)
    PROVE  TripInv'
<1>1. addr[l] = Primary /\ UNCHANGED <<urls, addr>>
  BY RedirectTells DEF LoginURL, Settled, TripInv
<1>2. at' = [at EXCEPT ![l] = "dialog"] /\ hops' = [hops EXCEPT ![l] = 0]
  BY DEF LoginURL, Goto
<1>3. Primary' = Primary /\ Addresses' = Addresses
  BY <1>1 DEF Primary, Addresses
<1> QED BY <1>1, <1>2, <1>3 DEF TripInv, Places

LEMMA TripBegin ==
    ASSUME TripInv, NEW l \in Logins, NEW u \in Addresses, Begin(l, u)
    PROVE  TripInv'
<1>1. /\ at[l] = "idle" /\ at' = [at EXCEPT ![l] = "start"]
      /\ addr' = [addr EXCEPT ![l] = u] /\ UNCHANGED <<urls, hops>>
  BY DEF Begin, Goto, limits
<1>2. Primary' = Primary /\ Addresses' = Addresses
  BY <1>1 DEF Primary, Addresses
<1> QED BY <1>1, <1>2 DEF TripInv, Places

\* Nobody is barred: neither by the redirect nor by the platform does a browser come
\* from a site that it names.
LEMMA TripNotBarred ==
    ASSUME Recognised, Unnamed, TripInv, NEW l \in Logins
    PROVE  ~BarStart(l) /\ ~BarCallback(l)
<1>1. ~Trustworthy(Primary)
  BY DEF TripInv, Unnamed, Primary
<1>2. ~BarStart(l)
  BY <1>1 DEF BarStart, FromElsewhere, TripInv
<1>3. ~BarCallback(l)
  BY <1>1, PrimaryAllowed DEF BarCallback, Guarded, TripInv
<1> QED BY <1>2, <1>3

\* The callback's handler and the browser that waits for it.
LEMMA TripAnswered ==
    ASSUME TripInv, NEW l \in Logins,
           Busy(l) \/ Cancelled(l) \/ Complete(l) \/ Exchanged(l) \/ Answer(l) \/ Reload(l)
    PROVE  TripInv'
<1> USE DEF Places
<1>1. CASE Busy(l)
  BY <1>1, TripGoto DEF Busy, Guarded, TripInv, browser, limits
<1>2. CASE Cancelled(l)
  BY <1>2, TripGoto DEF Cancelled, TripInv, browser, limits
<1>3. CASE Complete(l)
  <2>1. hops[l] = 0 /\ addr[l] = Primary /\ UNCHANGED <<urls, addr, hops>>
    BY <1>3 DEF Complete, TripInv, browser, limits
  <2>2. Goto(l, "exchange") \/ Goto(l, "unknown")
    BY <1>3 DEF Complete
  <2> QED BY <2>1, <2>2, TripGoto
<1>4. CASE Exchanged(l)
  <2>1. hops[l] = 0 /\ addr[l] = Primary /\ UNCHANGED <<urls, addr, hops>>
    BY <1>4 DEF Exchanged, TripInv, browser, limits
  <2>2. Goto(l, "done") \/ Goto(l, "failed")
    BY <1>4 DEF Exchanged
  <2> QED BY <2>1, <2>2, TripGoto
<1>5. CASE Answer(l)
  <2>1. addr[l] = Primary /\ Left(l) /\ UNCHANGED urls
    BY <1>5 DEF Answer, TripInv, limits
  <2>2. Goto(l, "granted") \/ Goto(l, "declined")
    BY <1>5, <2>1 DEF Answer
  <2> QED BY <2>1, <2>2, TripLeft
<1>6. CASE Reload(l)
  <2>1. Goto(l, "granted") /\ UNCHANGED <<urls, addr, hops>>
    BY <1>6 DEF Reload, browser, limits
  <2>2. hops[l] = 0 /\ addr[l] = Primary
    BY <1>6 DEF Reload, TripInv
  <2> QED BY <2>1, <2>2, TripGoto
<1> QED BY <1>1, <1>2, <1>3, <1>4, <1>5, <1>6

LEMMA TripStep == Recognised /\ Unnamed /\ TripInv /\ [Next]_vars => TripInv'
<1> SUFFICES ASSUME Recognised, Unnamed, TripInv, [Next]_vars PROVE TripInv'
  OBVIOUS
<1>1. CASE UNCHANGED vars \/ Tick
  <2>1. UNCHANGED <<urls, at, addr, hops>>
    BY <1>1 DEF vars, Tick, browser
  <2> QED BY <2>1 DEF TripInv, Primary, Addresses
<1>2. ASSUME NEW l \in Logins,
             (\E u \in Addresses : Begin(l, u)) \/ Served(l) \/ Answer(l) \/ Reload(l)
      PROVE  TripInv'
  <2>1. CASE Limit(l)
    BY <2>1, TripLeft DEF Limit, Places
  <2> QED BY <1>2, <2>1, TripBegin, TripRedirect, TripLoginURL, TripNotBarred, TripAnswered
          DEF Served
<1> QED BY <1>1, <1>2 DEF Next

\* The handshake goes through, for every list of addresses whose first one is told by
\* its Host header and is plain http on a name other than localhost; the next two
\* theorems say what becomes of it otherwise (chat.go chatAuthPublicRedirect,
\* chatGuard).
THEOREM Trip == ASSUME Recognised, Unnamed PROVE Spec => []RoundTrip
<1>1. TripInv => RoundTrip
  BY DEF TripInv, RoundTrip
<1> QED BY <1>1, TripInit, TripStep, PTL DEF Spec

\* The first address is one at which a browser names the site it comes from.
AllNamed == \A us \in UrlLists : Trustworthy(us[1])

\* Where the callback's handler takes a browser that chatGuard lets in.
LetIn == {"exchange", "done", "failed", "cancelled", "busy", "unknown"}

\* Nobody's callback has been let in.
Shut ==
    /\ urls \in UrlLists
    /\ at \in [Logins -> Places \ LetIn]

LEMMA ShutGoto ==
    ASSUME Shut, UNCHANGED urls, NEW l \in Logins,
           NEW place \in {"idle", "start", "unreachable", "barred", "dialog", "granted",
                          "declined", "lost"},
           Goto(l, place)
    PROVE  Shut'
BY DEF Shut, Goto, Places, LetIn

LEMMA ShutStep == AllNamed /\ Shut /\ [Next]_vars => Shut'
<1> SUFFICES ASSUME AllNamed, Shut, [Next]_vars PROVE Shut'
  OBVIOUS
<1>1. CASE UNCHANGED vars \/ Tick
  BY <1>1 DEF vars, Tick, Shut
<1>2. ASSUME NEW l \in Logins,
             (\E u \in Addresses : Begin(l, u)) \/ Served(l) \/ Answer(l) \/ Reload(l)
      PROVE  Shut'
  <2>1. ~Guarded(l)
    BY DEF AllNamed, Shut, Guarded, Primary
  <2>2. ~Busy(l) /\ ~Cancelled(l) /\ ~Complete(l)
    BY <2>1 DEF Busy, Cancelled, Complete, Admitted
  <2>3. ~Exchanged(l) /\ ~Reload(l)
    BY DEF Shut, Places, LetIn, Exchanged, Reload
  <2>4. CASE \E u \in Addresses : Begin(l, u)
    BY <2>4, ShutGoto DEF Begin, limits
  <2>5. CASE BarStart(l) \/ BarCallback(l)
    BY <2>5, ShutGoto DEF BarStart, BarCallback, limits
  <2>6. CASE Redirect(l)
    <3>1. UNCHANGED urls /\ (UNCHANGED at \/ Goto(l, "unreachable"))
      BY <2>6 DEF Redirect, limits
    <3> QED BY <3>1, ShutGoto DEF Shut
  <2>7. CASE Limit(l)
    BY <2>7, ShutGoto DEF Limit
  <2>8. CASE LoginURL(l)
    BY <2>8, ShutGoto DEF LoginURL
  <2>9. CASE Answer(l)
    <3>1. UNCHANGED urls /\ (Goto(l, "granted") \/ Goto(l, "declined") \/ Goto(l, "lost"))
      BY <2>9 DEF Answer, limits
    <3> QED BY <3>1, ShutGoto
  <2> QED BY <1>2, <2>2, <2>3, <2>4, <2>5, <2>6, <2>7, <2>8, <2>9 DEF Served
<1> QED BY <1>1, <1>2 DEF Next

\* With a TLS address first, as docs/development.md:106 has it, or with localhost, no
\* operator ever connects the account: chatSiteAllowed refuses every callback, since
\* the platform's page is another site, and no code reaches Complete (chat.go:79).
THEOREM NeverConnects ==
    ASSUME AllNamed
    PROVE  Spec => [](\A l \in Logins : at[l] \notin LetIn)
<1>1. Init => Shut
  BY DEF Init, Shut, Places, LetIn
<1>2. Shut => \A l \in Logins : at[l] \notin LetIn
  BY DEF Shut
<1> QED BY <1>1, <1>2, ShutStep, PTL DEF Spec

\* Nobody's address has been settled.
Unsettled ==
    /\ urls \in UrlLists
    /\ at \in [Logins -> {"idle", "start", "unreachable", "barred"}]
    /\ addr \in [Logins -> Addresses]

LEMMA UnsettledGoto ==
    ASSUME Unsettled, UNCHANGED urls, NEW l \in Logins,
           NEW place \in {"idle", "start", "unreachable", "barred"}, NEW u \in Addresses,
           UNCHANGED at \/ Goto(l, place), UNCHANGED addr \/ addr' = [addr EXCEPT ![l] = u]
    PROVE  Unsettled'
<1>1. Addresses' = Addresses
  BY DEF Addresses
<1> QED BY <1>1 DEF Unsettled, Goto

LEMMA UnsettledStep == Unrecognised /\ Unsettled /\ [Next]_vars => Unsettled'
<1> SUFFICES ASSUME Unrecognised, Unsettled, [Next]_vars PROVE Unsettled'
  OBVIOUS
<1>1. CASE UNCHANGED vars \/ Tick
  BY <1>1 DEF vars, Tick, browser, Unsettled, Addresses
<1>2. ASSUME NEW l \in Logins,
             (\E u \in Addresses : Begin(l, u)) \/ Served(l) \/ Answer(l) \/ Reload(l)
      PROVE  Unsettled'
  <2>1. chatAuthPublicRedirect(addr[l]) /\ Primary \in Addresses
    BY PrimaryIsAnAddress
       DEF Unrecognised, Unsettled, Reaching, chatAuthPublicRedirect, Addresses, Primary
  <2>2. ~Limit(l) /\ ~LoginURL(l)
    BY <2>1 DEF Limit, LoginURL, Settled
  <2>3. ~BarCallback(l) /\ ~Busy(l) /\ ~Cancelled(l) /\ ~Complete(l) /\ ~Exchanged(l)
        /\ ~Answer(l) /\ ~Reload(l)
    BY DEF Unsettled, BarCallback, Busy, Cancelled, Complete, Admitted, Guarded, Exchanged,
           Answer, Reload
  <2>4. ASSUME NEW u \in Addresses, Begin(l, u) PROVE Unsettled'
    BY <2>4, UnsettledGoto DEF Begin, limits
  <2>5. CASE BarStart(l)
    BY <2>1, <2>5, UnsettledGoto DEF BarStart, limits, browser
  <2>6. CASE Redirect(l)
    <3>1. /\ UNCHANGED urls /\ addr' = [addr EXCEPT ![l] = Primary]
          /\ UNCHANGED at \/ Goto(l, "unreachable")
      BY <2>6 DEF Redirect, Left, limits
    <3> QED BY <3>1, <2>1, UnsettledGoto
  <2> QED BY <1>2, <2>2, <2>3, <2>4, <2>5, <2>6 DEF Served
<1> QED BY <1>1, <1>2 DEF Next

\* "After the redirect the Host matches, so this cannot loop" (chat.go:153) does not
\* hold of a first URL that names its scheme's own port: the Host never matches, the
\* first address itself is redirected, and no start ever reaches the platform.
THEOREM NeverSettles ==
    ASSUME Unrecognised
    PROVE  Spec => [](/\ chatAuthPublicRedirect(Primary)
                      /\ \A l \in Logins : at[l] \in {"idle", "start", "unreachable", "barred"})
<1>1. Init => Unsettled
  BY PrimaryIsAnAddress DEF Init, Unsettled
<1>2. Unsettled => /\ chatAuthPublicRedirect(Primary)
                   /\ \A l \in Logins : at[l] \in {"idle", "start", "unreachable", "barred"}
  BY PrimaryIsAnAddress
     DEF Unsettled, Unrecognised, Reaching, chatAuthPublicRedirect, Addresses, Primary
<1> QED BY <1>1, <1>2, UnsettledStep, PTL DEF Spec

-----------------------------------------------------------------------------
(* Division *)

LEMMA Division ==
    ASSUME NEW e \in Nat, NEW d \in Nat \ {0}
    PROVE  /\ e \div d \in Nat /\ e % d \in 0 .. d - 1 /\ e = d * (e \div d) + (e % d)
           /\ e < d => e \div d = 0 /\ e % d = e
           /\ e >= d => e \div d >= 1
OBVIOUS

LEMMA Quotient ==
    ASSUME NEW e \in Nat, NEW d \in Nat \ {0}, NEW q \in Nat, NEW r \in 0 .. d - 1,
           e = d * q + r
    PROVE  e \div d = q /\ e % d = r
OBVIOUS

LEMMA Multiples ==
    ASSUME NEW d \in Nat, NEW x \in Nat, NEW y \in Nat, x <= y
    PROVE  d * x <= d * y
OBVIOUS

LEMMA DivisionNext ==
    ASSUME NEW e \in Nat, NEW d \in Nat \ {0}
    PROVE  \/ (e + 1) \div d = e \div d /\ (e + 1) % d = (e % d) + 1
           \/ (e + 1) \div d = (e \div d) + 1 /\ (e + 1) % d = 0 /\ (e % d) + 1 = d
<1> DEFINE q == e \div d
<1> DEFINE r == e % d
<1>1. q \in Nat /\ r \in 0 .. d - 1 /\ e = d * q + r
  BY Division
<1> HIDE DEF q, r
<1>2. CASE r + 1 < d
  <2>1. e + 1 = d * q + (r + 1) /\ r + 1 \in 0 .. d - 1 /\ e + 1 \in Nat
    BY <1>1, <1>2
  <2>2. (e + 1) \div d = q /\ (e + 1) % d = r + 1
    BY <1>1, <2>1, Quotient
  <2> QED BY <2>2 DEF q, r
<1>3. CASE r + 1 = d
  <2>1. d * (q + 1) = d * q + d
    BY <1>1
  <2>2. e + 1 = d * (q + 1) + 0 /\ q + 1 \in Nat /\ 0 \in 0 .. d - 1 /\ e + 1 \in Nat
    BY <1>1, <1>3, <2>1
  <2>3. (e + 1) \div d = q + 1 /\ (e + 1) % d = 0
    BY <2>2, Quotient
  <2> QED BY <1>3, <2>3 DEF q, r
<1> QED BY <1>1, <1>2, <1>3

LEMMA Successor ==
    ASSUME NEW d \in Nat, NEW x \in Nat
    PROVE  d * (x + 1) = d * x + d /\ d * x \in Nat
OBVIOUS

LEMMA DivisionLarge ==
    ASSUME NEW e \in Nat, NEW d \in Nat \ {0}, NEW b \in Nat, e >= d * b
    PROVE  e \div d >= b
<1> DEFINE q == e \div d
<1> DEFINE r == e % d
<1>1. q \in Nat /\ r \in 0 .. d - 1 /\ e = d * q + r
  BY Division
<1> HIDE DEF q, r
<1>2. CASE q + 1 <= b
  <2>1. d * (q + 1) <= d * b
    BY <1>1, <1>2, Multiples
  <2>2. d * (q + 1) = d * q + d /\ d * q \in Nat /\ d * b \in Nat
    BY <1>1, Successor
  <2> QED BY <1>1, <2>1, <2>2
<1>3. q >= b
  BY <1>1, <1>2
<1> QED BY <1>3 DEF q

-----------------------------------------------------------------------------
(* The bucket *)

Constants ==
    Burst \in Nat \ {0} /\ Every \in Nat \ {0} /\ TTL \in Nat \ {0} /\ MaxPending \in Nat

LEMMA ConstantTypes == Constants
BY LoginAssumption DEF LoginAssumption, Constants

\* The permits that t tokens and a time e are worth, in ticks.
Worth(t, e) == Every * Least(t + (e \div Every), Burst) + (e % Every)

LEMMA WorthType ==
    ASSUME NEW t \in 0 .. Burst, NEW e \in Nat
    PROVE  Worth(t, e) \in Nat /\ Worth(t, e) <= Every * Burst + Every - 1
<1> DEFINE f == Least(t + (e \div Every), Burst)
<1>1. e \div Every \in Nat /\ e % Every \in 0 .. Every - 1
  BY ConstantTypes, Division DEF Constants
<1>2. f \in Nat /\ f <= Burst
  BY <1>1, ConstantTypes DEF Least, Constants
<1>3. Worth(t, e) = Every * f + (e % Every)
  BY DEF Worth
<1> HIDE DEF f
<1>4. Every * f <= Every * Burst
  BY <1>2, ConstantTypes, Multiples DEF Constants
<1>5. Every * f \in Nat /\ Every * Burst \in Nat
  BY <1>2, ConstantTypes, Successor DEF Constants
<1> DEFINE a == Every * f
<1> DEFINE b == Every * Burst
<1>6. a \in Nat /\ b \in Nat /\ a <= b /\ Worth(t, e) = a + (e % Every)
  BY <1>3, <1>4, <1>5
<1> HIDE DEF a, b
<1>7. Worth(t, e) \in Nat /\ Worth(t, e) <= b + Every - 1
  BY <1>1, <1>6, ConstantTypes DEF Constants
<1> QED BY <1>7 DEF b

\* Another tick is worth one at most: less, in a full bucket.
LEMMA WorthTick ==
    ASSUME NEW t \in 0 .. Burst, NEW e \in Nat
    PROVE  Worth(t, e + 1) <= Worth(t, e) + 1
<1> DEFINE q == e \div Every
<1> DEFINE r == e % Every
<1>1. q \in Nat /\ r \in 0 .. Every - 1
  BY ConstantTypes, Division DEF Constants
<1>2. \/ (e + 1) \div Every = q /\ (e + 1) % Every = r + 1
      \/ (e + 1) \div Every = q + 1 /\ (e + 1) % Every = 0 /\ r + 1 = Every
  BY ConstantTypes, DivisionNext DEF Constants
<1>3. Worth(t, e) = Every * Least(t + q, Burst) + r
  BY DEF Worth
<1>4. Worth(t, e + 1) = Every * Least(t + ((e + 1) \div Every), Burst) + ((e + 1) % Every)
  BY DEF Worth
<1> HIDE DEF q, r
<1> DEFINE x == Least(t + q, Burst)
<1> DEFINE y == Least(t + (q + 1), Burst)
<1>5. x \in Nat /\ y \in Nat /\ y <= x + 1
  BY <1>1, ConstantTypes DEF Least, Constants
<1>6. CASE (e + 1) \div Every = q /\ (e + 1) % Every = r + 1
  <2>1. Worth(t, e + 1) = Every * x + (r + 1) /\ Worth(t, e) = Every * x + r
    BY <1>3, <1>4, <1>6
  <2> HIDE DEF x
  <2>2. Every * x \in Nat
    BY <1>5, ConstantTypes DEF Constants
  <2> QED BY <1>1, <2>1, <2>2
<1>7. CASE (e + 1) \div Every = q + 1 /\ (e + 1) % Every = 0 /\ r + 1 = Every
  <2>1. Worth(t, e + 1) = Every * y + 0 /\ Worth(t, e) = Every * x + r
    BY <1>3, <1>4, <1>7
  <2> HIDE DEF x, y
  <2>2. Every * y <= Every * (x + 1)
    BY <1>5, ConstantTypes, Multiples DEF Constants
  <2>3. Every * (x + 1) = Every * x + Every /\ Every * x \in Nat /\ Every * y \in Nat
    BY <1>5, ConstantTypes, Successor DEF Constants
  <2> QED BY <1>1, <1>7, <2>1, <2>2, <2>3, ConstantTypes DEF Constants
<1> QED BY <1>2, <1>6, <1>7

\* Beyond a full bucket, an interval more or less is worth nothing.
LEMMA WorthFull ==
    ASSUME NEW t \in 0 .. Burst, NEW e \in Nat, e >= (Burst + 2) * Every
    PROVE  e - Every \in Nat /\ Worth(t, e - Every) = Worth(t, e)
<1>1. Burst \in Nat /\ Every \in Nat \ {0}
  BY ConstantTypes DEF Constants
<1> DEFINE b == Every * Burst
<1>2. b \in Nat /\ (Burst + 2) * Every = b + Every + Every
  BY <1>1
<1> HIDE DEF b
<1> DEFINE k == e - Every
<1>3. k \in Nat /\ k >= b /\ e >= b /\ e = k + Every
  BY <1>1, <1>2
<1> HIDE DEF k
<1> DEFINE q == k \div Every
<1> DEFINE r == k % Every
<1>4. q \in Nat /\ r \in 0 .. Every - 1 /\ k = Every * q + r
  BY <1>1, <1>3, Division
<1>5. q >= Burst /\ e \div Every >= Burst
  BY <1>1, <1>3, DivisionLarge DEF b
<1>6. Worth(t, k) = Every * Least(t + q, Burst) + r
  BY DEF Worth
<1> HIDE DEF q, r
<1>7. e = Every * (q + 1) + r
  BY <1>1, <1>3, <1>4, Successor
<1>8. e \div Every = q + 1 /\ e % Every = r
  BY <1>1, <1>4, <1>7, Quotient
<1>9. Least(t + q, Burst) = Burst /\ Least(t + (q + 1), Burst) = Burst
  BY <1>1, <1>4, <1>5 DEF Least
<1>10. Worth(t, e) = Every * Burst + r /\ Worth(t, k) = Every * Burst + r
  BY <1>6, <1>8, <1>9 DEF Worth
<1> QED BY <1>3, <1>10 DEF k

\* Nothing was taken from a bucket that was never asked.
BucketType ==
    /\ tokens \in 0 .. Burst /\ elapsed \in {Never} \cup Nat
    /\ elapsed = Never => tokens = Burst

Elapsed == IF elapsed = Never THEN 0 ELSE elapsed
Level   == Worth(tokens, Elapsed)

LEMMA NoTime == 0 \div Every = 0 /\ 0 % Every = 0
BY ConstantTypes, Quotient DEF Constants

\* allow and deny read the level off the two variables.
LEMMA LevelIs ==
    ASSUME BucketType
    PROVE  /\ Elapsed \in Nat /\ Refilled \in 0 .. Burst /\ Remainder \in 0 .. Every - 1
           /\ Level = Every * Refilled + Remainder
           /\ Level \in Nat /\ Level <= Every * Burst + Every - 1
<1>1. Elapsed \in Nat
  BY DEF BucketType, Elapsed
<1>2. Elapsed \div Every \in Nat /\ Elapsed % Every \in 0 .. Every - 1
  BY <1>1, ConstantTypes, Division DEF Constants
<1>3. Refilled = Least(tokens + (Elapsed \div Every), Burst) /\ Remainder = Elapsed % Every
  BY NoTime DEF Refilled, Remainder, Elapsed
<1>4. Refilled \in 0 .. Burst
  BY <1>2, <1>3, ConstantTypes DEF BucketType, Least, Constants
<1>5. Level = Every * Refilled + Remainder
  BY <1>3 DEF Level, Worth
<1> QED BY <1>1, <1>2, <1>3, <1>4, <1>5, WorthType DEF Level, BucketType

\* A tick adds one at most.
LEMMA LevelTick ==
    ASSUME BucketType, tokens' = tokens,
           elapsed' = IF elapsed = Never THEN Never
                      ELSE IF elapsed + 1 < (Burst + 2) * Every THEN elapsed + 1
                      ELSE elapsed + 1 - Every
    PROVE  BucketType' /\ Level' <= Level + 1
<1>1. CASE elapsed = Never
  <2>1. elapsed' = elapsed /\ Level' = Level
    BY <1>1 DEF Level, Elapsed
  <2> QED BY <2>1, LevelIs DEF BucketType
<1>2. CASE elapsed # Never
  <2>1. elapsed \in Nat /\ Level = Worth(tokens, elapsed) /\ tokens \in 0 .. Burst
    BY <1>2 DEF BucketType, Level, Elapsed
  <2>2. (Burst + 2) * Every \in Nat /\ Every \in Nat
    BY ConstantTypes DEF Constants
  <2>3. PICK e \in Nat : e = elapsed' /\ Worth(tokens, e) = Worth(tokens, elapsed + 1)
    <3>1. CASE elapsed + 1 < (Burst + 2) * Every
      BY <1>2, <2>1, <3>1
    <3>2. CASE elapsed + 1 >= (Burst + 2) * Every
      <4>1. elapsed' = (elapsed + 1) - Every
        BY <1>2, <2>1, <2>2, <3>2
      <4>2. elapsed + 1 \in Nat
        BY <2>1
      <4> QED BY <2>1, <3>2, <4>1, <4>2, WorthFull
    <3> QED BY <2>1, <2>2, <3>1, <3>2
  <2>4. elapsed' # Never /\ BucketType'
    BY <2>1, <2>3 DEF BucketType, Never
  <2>5. Level' = Worth(tokens, elapsed + 1)
    BY <2>3, <2>4 DEF Level, Elapsed, Worth
  <2> QED BY <2>1, <2>4, <2>5, WorthTick
<1> QED BY <1>1, <1>2

\* An admitted start takes one permit, a refused one nothing.
LEMMA LevelCall ==
    ASSUME BucketType, allow \/ deny
    PROVE  /\ BucketType'
           /\ allow => Level' + Every = Level /\ Level' \in Nat
           /\ deny => /\ Level' = Level /\ tokens = 0 /\ tokens' = 0
                      /\ elapsed \in Nat /\ elapsed < Every /\ elapsed' = elapsed
<1>1. /\ Elapsed \in Nat /\ Refilled \in 0 .. Burst /\ Remainder \in 0 .. Every - 1
      /\ Level = Every * Refilled + Remainder /\ Level \in Nat
  BY LevelIs
<1>2. Burst \in Nat \ {0} /\ Every \in Nat \ {0}
  BY ConstantTypes DEF Constants
<1>3. PICK r \in 0 .. Every - 1 : r = Remainder
  BY <1>1
<1>4. PICK f \in 0 .. Burst : f = Refilled
  BY <1>1
<1>5. r \div Every = 0 /\ r % Every = r
  BY <1>2, <1>3, Division
<1>6. elapsed' = r /\ elapsed' # Never /\ r \in Nat
  BY <1>2, <1>3 DEF allow, deny, Never
<1>7. PICK t \in 0 .. Burst : t = tokens' /\ t = IF f > 0 THEN f - 1 ELSE 0
  BY <1>2, <1>4 DEF allow, deny
<1>8. BucketType'
  BY <1>6, <1>7 DEF BucketType
<1>9. Level' = Worth(t, r)
  BY <1>6, <1>7 DEF Level, Elapsed, Worth
<1>10. Worth(t, r) = Every * t + r
  <2>1. Least(t + 0, Burst) = t
    BY <1>2, <1>7 DEF Least
  <2> QED BY <1>5, <2>1 DEF Worth
<1>11. Level = Every * f + r
  BY <1>1, <1>3, <1>4
<1>12. ASSUME allow PROVE Level' + Every = Level /\ Level' \in Nat
  <2>1. f > 0 /\ t \in Nat /\ f = t + 1
    BY <1>2, <1>4, <1>7, <1>12 DEF allow
  <2>2. Every * f = Every * t + Every /\ Every * t \in Nat
    BY <1>2, <2>1, Successor
  <2> QED BY <1>2, <1>6, <1>9, <1>10, <1>11, <2>2
<1>13. ASSUME deny PROVE /\ Level' = Level /\ tokens = 0 /\ tokens' = 0
                         /\ elapsed \in Nat /\ elapsed < Every /\ elapsed' = elapsed
  <2>1. f = 0 /\ t = 0
    BY <1>4, <1>7, <1>13 DEF deny
  <2>2. elapsed # Never
    <3>1. SUFFICES ASSUME elapsed = Never PROVE FALSE
      OBVIOUS
    <3>2. tokens = Burst
      BY <3>1 DEF BucketType
    <3>3. Refilled = Least(Burst + 0, Burst)
      BY <3>1, <3>2 DEF Refilled
    <3>4. Least(Burst + 0, Burst) = Burst
      BY <1>2 DEF Least
    <3> QED BY <1>2, <1>4, <2>1, <3>3, <3>4
  <2>3. PICK e \in Nat : e = elapsed
    BY <2>2 DEF BucketType
  <2>4. e \div Every \in Nat /\ r = e % Every /\ 0 = Least(tokens + (e \div Every), Burst)
    BY <1>2, <1>3, <1>4, <2>1, <2>2, <2>3, Division DEF Remainder, Refilled
  <2>5. tokens = 0 /\ e \div Every = 0
    <3>1. PICK q \in Nat : q = e \div Every
      BY <2>4
    <3>2. 0 = Least(tokens + q, Burst) /\ tokens \in Nat
      BY <1>2, <2>4, <3>1 DEF BucketType
    <3> QED BY <1>2, <3>1, <3>2 DEF Least
  <2>6. e < Every
    BY <1>2, <2>5, Division
  <2>7. r = e
    BY <1>2, <2>4, <2>6, Division
  <2>8. Level' = Level
    BY <1>9, <1>10, <1>11, <2>1
  <2> QED BY <1>6, <1>7, <2>1, <2>3, <2>5, <2>6, <2>7, <2>8
<1> QED BY <1>8, <1>12, <1>13

-----------------------------------------------------------------------------
(* The room for pending authorizations *)

\* The pending authorizations of the last t ticks.
Recent(t) == {l \in pending : age[l] <= t}

\* n authorizations of the last t ticks, and a bucket worth v now, are no more
\* than a full bucket and what t ticks have added.
Paid(n, v, t) == Every * n + v <= Every * Burst + Every - 1 + t

\* Whoever is pending has paid for it.
RoomInv ==
    /\ BucketType /\ IsFiniteSet(pending) /\ age \in [Logins -> 0 .. TTL + 1]
    /\ \A t \in 0 .. TTL : Paid(Cardinality(Recent(t)), Level, t)

LEMMA RecentFinite ==
    ASSUME RoomInv, NEW t \in 0 .. TTL
    PROVE  IsFiniteSet(Recent(t)) /\ Cardinality(Recent(t)) \in Nat
<1>1. Recent(t) \in SUBSET pending /\ IsFiniteSet(pending)
  BY DEF Recent, RoomInv
<1> QED BY <1>1, FS_Subset, FS_CardinalityType

LEMMA PaidFewer ==
    ASSUME NEW n \in Nat, NEW m \in Nat, m <= n, NEW v \in Nat, NEW t \in Nat, Paid(n, v, t)
    PROVE  Paid(m, v, t)
<1>1. Every * m <= Every * n /\ Every * m \in Nat /\ Every * n \in Nat /\ Every * Burst \in Nat
  BY ConstantTypes, Multiples, Successor DEF Constants
<1> QED BY <1>1, ConstantTypes DEF Paid, Constants

LEMMA PaidOne ==
    ASSUME NEW n \in Nat, NEW m \in Nat, m <= n + 1, NEW v \in Nat, NEW w \in Nat,
           w + Every = v, NEW t \in Nat, Paid(n, v, t)
    PROVE  Paid(m, w, t)
<1>1. Every * m <= Every * (n + 1) /\ Every * m \in Nat
  BY ConstantTypes, Multiples, Successor DEF Constants
<1>2. Every * (n + 1) = Every * n + Every /\ Every * n \in Nat /\ Every * Burst \in Nat
  BY ConstantTypes, Successor DEF Constants
<1> QED BY <1>1, <1>2, ConstantTypes DEF Paid, Constants

LEMMA PaidTick ==
    ASSUME NEW n \in Nat, NEW v \in Nat, NEW w \in Nat, w <= v + 1, NEW t \in Nat, Paid(n, v, t)
    PROVE  Paid(n, w, t + 1)
<1>1. Every * n \in Nat /\ Every * Burst \in Nat
  BY ConstantTypes, Successor DEF Constants
<1> QED BY <1>1, ConstantTypes DEF Paid, Constants

LEMMA PaidFull ==
    ASSUME NEW v \in Nat, v <= Every * Burst + Every - 1, NEW t \in Nat
    PROVE  Paid(0, v, t)
<1>1. Every * Burst \in Nat
  BY ConstantTypes, Successor DEF Constants
<1> QED BY <1>1, ConstantTypes DEF Paid, Constants

LEMMA RoomInit == Init => RoomInv
<1> SUFFICES ASSUME Init PROVE RoomInv
  OBVIOUS
<1>1. BucketType
  BY ConstantTypes DEF Init, BucketType, Constants
<1>2. pending = {} /\ IsFiniteSet(pending)
  BY FS_EmptySet DEF Init
<1>3. age \in [Logins -> 0 .. TTL + 1]
  BY ConstantTypes DEF Init, Constants
<1>4. \A t \in 0 .. TTL : Cardinality(Recent(t)) = 0
  BY <1>2, FS_EmptySet DEF Recent
<1> QED BY <1>1, <1>2, <1>3, <1>4, LevelIs, PaidFull, ConstantTypes DEF RoomInv, Constants

\* The authorizations that are left cost no more, as long as the bucket holds
\* what it held.
LEMMA RoomFewer ==
    ASSUME RoomInv, pending' \in SUBSET pending, age' = age, BucketType', Level' = Level
    PROVE  RoomInv'
<1>1. IsFiniteSet(pending')
  BY FS_Subset DEF RoomInv
<1>2. ASSUME NEW t \in 0 .. TTL PROVE Paid(Cardinality(Recent(t)'), Level', t)
  <2>1. Recent(t)' \in SUBSET Recent(t)
    BY DEF Recent
  <2>2. /\ Cardinality(Recent(t)') <= Cardinality(Recent(t)) /\ IsFiniteSet(Recent(t)')
        /\ Cardinality(Recent(t)) \in Nat
    BY <2>1, RecentFinite, FS_Subset
  <2>3. Cardinality(Recent(t)') \in Nat
    BY <2>2, FS_CardinalityType
  <2>4. Paid(Cardinality(Recent(t)), Level, t) /\ Level \in Nat /\ t \in Nat
    BY LevelIs, ConstantTypes DEF RoomInv, Constants
  <2> QED BY <2>2, <2>3, <2>4, PaidFewer
<1>3. \A t \in 0 .. TTL : Paid(Cardinality(Recent(t)), Level, t)'
  BY <1>2 DEF Paid
<1> QED BY <1>1, <1>3 DEF RoomInv

\* The start that is admitted pays for its authorization.
LEMMA RoomLoginURL ==
    ASSUME RoomInv, NEW l \in Logins, LoginURL(l)
    PROVE  RoomInv'
<1>1. allow /\ age' = [age EXCEPT ![l] = 0]
  BY DEF LoginURL
<1>2. BucketType' /\ Level' + Every = Level /\ Level' \in Nat
  BY <1>1, LevelCall DEF RoomInv
<1>3. PICK ps \in SUBSET pending : pending' = ps \cup {l}
  BY DEF LoginURL
<1>4. IsFiniteSet(pending')
  BY <1>3, FS_Subset, FS_AddElement DEF RoomInv
<1>5. age' \in [Logins -> 0 .. TTL + 1]
  BY <1>1, ConstantTypes DEF RoomInv, Constants
<1>6. ASSUME NEW t \in 0 .. TTL PROVE Paid(Cardinality(Recent(t)'), Level', t)
  <2>1. Recent(t)' \in SUBSET (Recent(t) \cup {l})
    BY <1>1, <1>3 DEF Recent, RoomInv
  <2>2. /\ IsFiniteSet(Recent(t) \cup {l}) /\ Cardinality(Recent(t)) \in Nat
        /\ Cardinality(Recent(t) \cup {l}) <= Cardinality(Recent(t)) + 1
    <3>1. IsFiniteSet(Recent(t)) /\ Cardinality(Recent(t)) \in Nat
      BY RecentFinite
    <3>2. /\ IsFiniteSet(Recent(t) \cup {l})
          /\ Cardinality(Recent(t) \cup {l})
               = IF l \in Recent(t) THEN Cardinality(Recent(t)) ELSE Cardinality(Recent(t)) + 1
      BY <3>1, FS_AddElement
    <3> QED BY <3>1, <3>2
  <2>3. Cardinality(Recent(t) \cup {l}) \in Nat
    BY <2>2, FS_CardinalityType
  <2>4. /\ Cardinality(Recent(t)') <= Cardinality(Recent(t) \cup {l})
        /\ IsFiniteSet(Recent(t)')
    BY <2>1, <2>2, FS_Subset
  <2>5. Cardinality(Recent(t)') \in Nat
    BY <2>4, FS_CardinalityType
  <2>6. Cardinality(Recent(t)') <= Cardinality(Recent(t)) + 1
    BY <2>2, <2>3, <2>4, <2>5
  <2>7. Paid(Cardinality(Recent(t)), Level, t) /\ Level \in Nat /\ t \in Nat
    BY LevelIs, ConstantTypes DEF RoomInv, Constants
  <2> QED BY <1>2, <2>2, <2>5, <2>6, <2>7, PaidOne
<1>7. \A t \in 0 .. TTL : Paid(Cardinality(Recent(t)), Level, t)'
  BY <1>6 DEF Paid
<1> QED BY <1>2, <1>4, <1>5, <1>7 DEF RoomInv

\* What a tick adds to the bucket, it takes from the age the count looks back to.
LEMMA RoomTick ==
    ASSUME SpendInv, RoomInv, Tick
    PROVE  RoomInv'
<1>1. BucketType' /\ Level' <= Level + 1
  BY LevelTick DEF Tick, RoomInv
<1>2. pending' = pending /\ IsFiniteSet(pending')
  BY DEF Tick, RoomInv
<1>3. age' \in [Logins -> 0 .. TTL + 1]
  BY ConstantTypes DEF Tick, RoomInv, Least, Constants
<1>4. \A l \in pending : l \in Logins /\ age'[l] = Least(age[l] + 1, TTL + 1)
  BY DEF Tick, SpendInv
<1>5. Level \in Nat /\ Level' \in Nat /\ Level' <= Every * Burst + Every - 1
  <2>1. Level' = Worth(tokens', Elapsed')
    BY DEF Level, Worth
  <2>2. tokens' \in 0 .. Burst /\ Elapsed' \in Nat
    BY <1>1 DEF BucketType, Elapsed
  <2> QED BY <2>1, <2>2, WorthType, LevelIs DEF RoomInv
<1>6. ASSUME NEW t \in 0 .. TTL PROVE Paid(Cardinality(Recent(t)'), Level', t)
  <2>1. CASE t = 0
    <3>1. Recent(t)' = {}
      BY <1>2, <1>4, <2>1, ConstantTypes DEF Recent, RoomInv, Least, Constants
    <3>2. Cardinality(Recent(t)') = 0
      BY <3>1, FS_EmptySet
    <3>3. Paid(0, Level', t)
      BY <1>5, <2>1, PaidFull
    <3> QED BY <3>2, <3>3
  <2>2. CASE t > 0
    <3>1. PICK s \in 0 .. TTL : t = s + 1
      BY <2>2, ConstantTypes DEF Constants
    <3>2. Recent(t)' = Recent(s)
      BY <1>2, <1>4, <3>1, ConstantTypes DEF Recent, RoomInv, Least, Constants
    <3>3. Paid(Cardinality(Recent(s)), Level, s) /\ Cardinality(Recent(s)) \in Nat
      BY RecentFinite DEF RoomInv
    <3>4. s \in Nat
      BY ConstantTypes DEF Constants
    <3> QED BY <1>1, <1>5, <3>1, <3>2, <3>3, <3>4, PaidTick
  <2> QED BY <2>1, <2>2, ConstantTypes DEF Constants
<1>7. \A t \in 0 .. TTL : Paid(Cardinality(Recent(t)), Level, t)'
  BY <1>6 DEF Paid
<1> QED BY <1>1, <1>2, <1>3, <1>7 DEF RoomInv

\* Every step but those three leaves the bucket, the pending states and their
\* ages alone.
Quiet(l) ==
    \/ \E u \in Addresses : Begin(l, u)
    \/ BarStart(l) \/ Redirect(l) \/ BarCallback(l) \/ Busy(l)
    \/ Cancelled(l) \/ Exchanged(l) \/ Answer(l) \/ Reload(l)

LEMMA QuietStep ==
    ASSUME NEW l \in Logins, Quiet(l)
    PROVE  UNCHANGED <<tokens, elapsed, pending, age, spent>>
BY DEF Quiet, Begin, BarStart, Redirect, BarCallback, Busy, Cancelled, Exchanged, Answer,
       Reload, limits

LEMMA RoomStep == SpendInv /\ RoomInv /\ [Next]_vars => RoomInv'
<1> SUFFICES ASSUME SpendInv, RoomInv, [Next]_vars PROVE RoomInv'
  OBVIOUS
<1>1. ASSUME UNCHANGED <<tokens, elapsed, pending, age>> PROVE RoomInv'
  <2>1. BucketType' /\ Level' = Level /\ pending' \in SUBSET pending
    BY <1>1 DEF RoomInv, BucketType, Level, Elapsed, Worth
  <2> QED BY <1>1, <2>1, RoomFewer
<1>2. CASE UNCHANGED vars
  BY <1>1, <1>2 DEF vars
<1>3. CASE Tick
  BY <1>3, RoomTick
<1>4. ASSUME NEW l \in Logins, Quiet(l) PROVE RoomInv'
  BY <1>1, <1>4, QuietStep
<1>5. ASSUME NEW l \in Logins, Limit(l) PROVE RoomInv'
  <2>1. deny /\ UNCHANGED <<pending, age>>
    BY <1>5 DEF Limit
  <2>2. BucketType' /\ Level' = Level /\ pending' \in SUBSET pending
    BY <2>1, LevelCall DEF RoomInv
  <2> QED BY <2>1, <2>2, RoomFewer
<1>6. ASSUME NEW l \in Logins, Complete(l) PROVE RoomInv'
  <2>1. pending' \in SUBSET pending /\ UNCHANGED <<tokens, elapsed, age>>
    BY <1>6 DEF Complete, Consume, Unexpired, limits
  <2>2. BucketType' /\ Level' = Level
    BY <2>1 DEF RoomInv, BucketType, Level, Elapsed, Worth
  <2> QED BY <2>1, <2>2, RoomFewer
<1> QED BY <1>2, <1>3, <1>4, <1>5, <1>6, RoomLoginURL DEF Next, Served, Quiet

\* There is room for the authorization of every start that is admitted.
LEMMA NoEviction ==
    ASSUME SpendInv, RoomInv, NEW l \in Logins, LoginURL(l)
    PROVE  pending' = Unexpired \cup {l}
<1>1. Unexpired = Recent(TTL)
  BY ConstantTypes DEF Unexpired, Expired, Recent, RoomInv, SpendInv, Constants
<1>2. Level' + Every = Level /\ Level' \in Nat /\ Level \in Nat
  BY LevelCall, LevelIs DEF RoomInv, LoginURL
<1>3. TTL \in 0 .. TTL /\ TTL \in Nat
  BY ConstantTypes DEF Constants
<1>4. PICK n \in Nat : n = Cardinality(Recent(TTL)) /\ Paid(n, Level, TTL)
  BY <1>3, RecentFinite DEF RoomInv
<1>5. PICK k \in Nat : TTL = Every * k /\ MaxPending >= Burst + k
  <2>1. TTL % Every = 0 /\ MaxPending >= Burst + (TTL \div Every)
    BY LoginAssumption DEF LoginAssumption
  <2>2. TTL = Every * (TTL \div Every) + (TTL % Every) /\ TTL \div Every \in Nat
    BY <1>3, ConstantTypes, Division DEF Constants
  <2>3. PICK k \in Nat : k = TTL \div Every
    BY <2>2
  <2>4. TTL = Every * k /\ MaxPending >= Burst + k
    BY <2>1, <2>2, <2>3, ConstantTypes DEF Constants
  <2> QED BY <2>4
<1>6. n < Burst + k
  <2>1. SUFFICES ASSUME Burst + k <= n PROVE FALSE
    BY <1>4, <1>5, ConstantTypes DEF Constants
  <2>2. Every * (Burst + k) <= Every * n /\ Every * n \in Nat
    BY <1>4, <1>5, <2>1, ConstantTypes, Multiples, Successor DEF Constants
  <2>3. Every * (Burst + k) = Every * Burst + TTL /\ Every * Burst \in Nat
    BY <1>5, ConstantTypes DEF Constants
  <2>4. Every * n + Level <= Every * Burst + Every - 1 + TTL
    BY <1>4 DEF Paid
  <2> DEFINE a == Every * n
  <2> DEFINE b == Every * Burst
  <2>5. a \in Nat /\ b \in Nat /\ b + TTL <= a /\ a + Level <= b + Every - 1 + TTL
    BY <2>2, <2>3, <2>4
  <2> HIDE DEF a, b
  <2>6. PICK w \in Nat : w = Level'
    BY <1>2
  <2>7. PICK v \in Nat : v = Level
    BY <1>2
  <2>8. Every \in Nat /\ w + Every = v
    BY <1>2, <2>6, <2>7, ConstantTypes DEF Constants
  <2>9. a + v <= b + Every - 1 + TTL
    BY <2>5, <2>7
  <2> QED BY <1>3, <2>5, <2>8, <2>9
<1>7. Cardinality(Unexpired) < MaxPending
  BY <1>1, <1>4, <1>5, <1>6, ConstantTypes DEF Constants
<1> QED BY <1>7 DEF LoginURL, Kept

-----------------------------------------------------------------------------
(* An operator who comes back in time *)

Issued(l) == at[l] \notin {"idle", "start", "unreachable", "barred"}

\* A state that was issued is pending until it is spent or has expired.
KnownInv ==
    \A l \in Logins : /\ Issued(l) => l \in pending \/ spent[l] > 0 \/ Expired(l)
                      /\ at[l] = "unknown" => l \notin pending

\* A browser that goes on with an authorization it has.
LEMMA KnownQuiet ==
    ASSUME SpendInv, KnownInv, NEW l \in Logins, Quiet(l)
    PROVE  KnownInv'
<1>1. UNCHANGED <<pending, age, spent>>
  BY QuietStep
<1>2. \A k \in Logins : (Issued(k)' => Issued(k)) /\ (at'[k] = "unknown" => at[k] = "unknown")
  BY DEF Quiet, Begin, BarStart, Redirect, BarCallback, Busy, Cancelled, Exchanged, Answer,
         Reload, Goto, Issued, SpendInv, Guarded, Admitted
<1> QED BY <1>1, <1>2 DEF KnownInv, Expired

LEMMA KnownStep == SpendInv /\ RoomInv /\ KnownInv /\ [Next]_vars => KnownInv'
<1> SUFFICES ASSUME SpendInv, RoomInv, KnownInv, [Next]_vars PROVE KnownInv'
  OBVIOUS
<1>1. CASE UNCHANGED vars
  BY <1>1 DEF vars, KnownInv, Issued, Expired
<1>2. CASE Tick
  <2>1. UNCHANGED <<pending, at, spent>>
    BY <1>2 DEF Tick
  <2>2. \A l \in Logins : Issued(l) /\ Expired(l) => Expired(l)'
    BY <1>2, ConstantTypes DEF Tick, Issued, Expired, Least, RoomInv, Constants
  <2> QED BY <2>1, <2>2 DEF KnownInv, Issued
<1>3. ASSUME NEW l \in Logins, Limit(l) PROVE KnownInv'
  <2>1. UNCHANGED <<pending, age, spent>> /\ Goto(l, "idle")
    BY <1>3 DEF Limit
  <2> QED BY <2>1 DEF KnownInv, Issued, Expired, Goto, SpendInv
<1>4. ASSUME NEW l \in Logins, LoginURL(l) PROVE KnownInv'
  <2>1. pending' = Unexpired \cup {l}
    BY <1>4, NoEviction
  <2>2. Goto(l, "dialog") /\ age' = [age EXCEPT ![l] = 0] /\ UNCHANGED spent
    BY <1>4 DEF LoginURL
  <2>3. \A k \in Logins \ {l} : at'[k] = at[k] /\ (Expired(k)' <=> Expired(k))
    BY <2>2 DEF Goto, Expired, SpendInv, RoomInv
  <2>4. at'[l] = "dialog"
    BY <2>2 DEF Goto, SpendInv
  <2> QED BY <2>1, <2>2, <2>3, <2>4 DEF KnownInv, Unexpired, Issued
<1>5. ASSUME NEW l \in Logins, Complete(l) PROVE KnownInv'
  <2>1. pending' = Unexpired \ {l} /\ UNCHANGED age /\ at[l] = "granted"
    BY <1>5 DEF Complete, Consume
  <2>2. \A k \in Logins \ {l} : at'[k] = at[k]
    BY <1>5 DEF Complete, Goto, SpendInv
  <2>3. CASE l \in Unexpired
    <3>1. spent' = [spent EXCEPT ![l] = Least(spent[l] + 1, 2)]
      BY <1>5, <2>3 DEF Complete
    <3>2. spent[l] \in {0, 1}
      BY DEF SpendInv
    <3>3. spent'[l] > 0
      BY <3>1, <3>2 DEF Least, SpendInv
    <3>4. \A k \in Logins \ {l} : spent'[k] = spent[k]
      BY <3>1 DEF SpendInv
    <3> QED BY <2>1, <2>2, <3>3, <3>4 DEF KnownInv, Unexpired, Expired, Issued
  <2>4. CASE l \notin Unexpired
    <3>1. UNCHANGED spent
      BY <1>5, <2>4 DEF Complete
    <3>2. spent[l] > 0 \/ Expired(l)
      BY <2>1, <2>4 DEF KnownInv, Issued, Unexpired
    <3> QED BY <2>1, <2>2, <3>1, <3>2 DEF KnownInv, Unexpired, Expired, Issued
  <2> QED BY <2>3, <2>4
<1> QED BY <1>1, <1>2, <1>3, <1>4, <1>5, KnownQuiet DEF Next, Served, Quiet

\* An operator who comes back in time is known, for every rate, lifetime and
\* room in which the rate limit admits no more starts in a lifetime than there
\* is room for (ratelimit.go allow, restream.go evictOldestPendingLocked).
THEOREM Remembered == Spec => []NotForgotten
<1>1. Init => KnownInv
  BY DEF Init, KnownInv, Issued
<1>2. KnownInv => NotForgotten
  BY DEF KnownInv, NotForgotten, Issued
<1> QED BY <1>1, <1>2, SpendInit, SpendStep, RoomInit, RoomStep, KnownStep, PTL DEF Spec

-----------------------------------------------------------------------------
(* A refused start *)

Started(k) == at[k] \notin {"idle", "start"}

\* An empty bucket was emptied by a start, no longer ago than its clock says.
EmptyInv == tokens = 0 /\ elapsed < Every => \E k \in Logins : Started(k) /\ age[k] <= elapsed

LEMMA EmptyStep == SpendInv /\ RoomInv /\ EmptyInv /\ [Next]_vars => EmptyInv'
<1> SUFFICES ASSUME SpendInv, RoomInv, EmptyInv, [Next]_vars, tokens' = 0, elapsed' < Every
             PROVE  \E k \in Logins : Started(k)' /\ age'[k] <= elapsed'
  BY DEF EmptyInv, Started
<1>1. CASE UNCHANGED vars
  BY <1>1 DEF vars, EmptyInv, Started
<1>2. CASE Tick
  <2>1. tokens = 0 /\ elapsed \in Nat
    BY <1>2, ConstantTypes DEF Tick, RoomInv, BucketType, Constants
  <2>2. elapsed' = elapsed + 1 /\ elapsed < Every
    <3>1. (Burst + 2) * Every = Burst * Every + Every + Every /\ Burst * Every \in Nat
      BY ConstantTypes DEF Constants
    <3>2. CASE elapsed + 1 < (Burst + 2) * Every
      BY <1>2, <2>1, <3>2, ConstantTypes DEF Tick, Never, Constants
    <3>3. CASE elapsed + 1 >= (Burst + 2) * Every
      BY <1>2, <2>1, <3>1, <3>3, ConstantTypes DEF Tick, Never, Constants
    <3> QED BY <2>1, <3>1, <3>2, <3>3, ConstantTypes DEF Constants
  <2>3. PICK k \in Logins : Started(k) /\ age[k] <= elapsed
    BY <2>1, <2>2 DEF EmptyInv
  <2>4. Started(k)' /\ age'[k] = Least(age[k] + 1, TTL + 1) /\ age[k] \in Nat
    BY <1>2, <2>3, ConstantTypes DEF Tick, Started, RoomInv, Constants
  <2> QED BY <2>1, <2>2, <2>3, <2>4, ConstantTypes DEF Least, Constants
<1>3. ASSUME UNCHANGED <<tokens, elapsed, age>>, \A k \in Logins : Started(k) => Started(k)'
      PROVE  \E k \in Logins : Started(k)' /\ age'[k] <= elapsed'
  BY <1>3 DEF EmptyInv
<1>4. ASSUME NEW l \in Logins, Quiet(l)
      PROVE  \E k \in Logins : Started(k)' /\ age'[k] <= elapsed'
  <2>1. \A k \in Logins : Started(k) => Started(k)'
    BY <1>4 DEF Quiet, Begin, BarStart, Redirect, BarCallback, Busy, Cancelled, Exchanged,
                Answer, Reload, Goto, Started, SpendInv
  <2> QED BY <1>3, <1>4, <2>1, QuietStep
<1>5. ASSUME NEW l \in Logins, Complete(l)
      PROVE  \E k \in Logins : Started(k)' /\ age'[k] <= elapsed'
  <2>1. UNCHANGED <<tokens, elapsed, age>> /\ \A k \in Logins : Started(k) => Started(k)'
    BY <1>5 DEF Complete, Goto, Started, SpendInv, limits
  <2> QED BY <1>3, <2>1
<1>6. ASSUME NEW l \in Logins, Limit(l)
      PROVE  \E k \in Logins : Started(k)' /\ age'[k] <= elapsed'
  <2>1. tokens = 0 /\ elapsed < Every /\ elapsed' = elapsed /\ age' = age
    BY <1>6, LevelCall DEF Limit, RoomInv
  <2>2. \A k \in Logins : Started(k) => Started(k)'
    BY <1>6 DEF Limit, Settled, Goto, Started, SpendInv
  <2> QED BY <2>1, <2>2 DEF EmptyInv
<1>7. ASSUME NEW l \in Logins, LoginURL(l)
      PROVE  \E k \in Logins : Started(k)' /\ age'[k] <= elapsed'
  <2>1. age'[l] = 0 /\ Started(l)'
    BY <1>7 DEF LoginURL, Goto, Started, SpendInv, RoomInv
  <2>2. elapsed' = Remainder /\ Remainder \in Nat
    BY <1>7, LevelIs, ConstantTypes DEF LoginURL, allow, RoomInv, Constants
  <2> QED BY <2>1, <2>2
<1> QED BY <1>1, <1>2, <1>4, <1>5, <1>6, <1>7 DEF Next, Served, Quiet

\* Who is sent back from the start was refused there.
LEMMA OnlyLimit ==
    ASSUME SpendInv, [Next]_vars, NEW l \in Logins, at[l] = "start", at'[l] = "idle"
    PROVE  Limit(l)
<1>1. at' # at
  OBVIOUS
<1>2. PICK k \in Logins :
          (\E u \in Addresses : Begin(k, u)) \/ Served(k) \/ Answer(k) \/ Reload(k)
  BY <1>1 DEF Next, vars, Tick
<1>3. PICK place : at' = [at EXCEPT ![k] = place] /\ (place = "idle" => Limit(k))
  BY <1>1, <1>2 DEF Served, Begin, BarStart, Redirect, Limit, LoginURL, BarCallback, Busy,
                    Cancelled, Complete, Exchanged, Answer, Reload, Goto
<1> QED BY <1>3 DEF SpendInv

\* A start is refused only for one admitted within the last interval, for every
\* rate and however the calls fall (ratelimit.go allow).
THEOREM Refused == Spec => RefusedForARecentOne
<1> DEFINE Recently == \A l \in Logins : at[l] = "start" /\ at'[l] = "idle"
                         => \E k \in Logins : at[k] \notin {"idle", "start"} /\ age[k] < Every
<1>1. Init => EmptyInv
  BY ConstantTypes DEF Init, EmptyInv, Constants
<1>2. SpendInv /\ RoomInv /\ EmptyInv /\ [Next]_vars => [Recently]_vars
  <2> SUFFICES ASSUME SpendInv, RoomInv, EmptyInv, [Next]_vars,
                      NEW l \in Logins, at[l] = "start", at'[l] = "idle"
               PROVE  \E k \in Logins : at[k] \notin {"idle", "start"} /\ age[k] < Every
    OBVIOUS
  <2>1. deny
    BY OnlyLimit DEF Limit
  <2>2. tokens = 0 /\ elapsed \in Nat /\ elapsed < Every
    BY <2>1, LevelCall DEF RoomInv
  <2>3. PICK k \in Logins : Started(k) /\ age[k] <= elapsed
    BY <2>2 DEF EmptyInv
  <2>4. age[k] \in Nat
    BY ConstantTypes DEF RoomInv, Constants
  <2> QED BY <2>2, <2>3, <2>4, ConstantTypes DEF Started, Constants
<1> QED BY <1>1, <1>2, SpendInit, SpendStep, RoomInit, RoomStep, EmptyStep, PTL
        DEF Spec, RefusedForARecentOne

-----------------------------------------------------------------------------
(* The panels *)

\* What is due to a panel that shows a ready status: a result of a fetch that
\* began under it, or such a fetch, or the repetition of an older one.
Due(p) ==
    /\ fetch[p] = "idle" => result[p] # None /\ stale[p].result = FALSE
    /\ fetch[p] # "idle" /\ again[p] = FALSE => stale[p].fetch = FALSE

PanelInv ==
    /\ fetch \in [Panels -> {"idle", "asked", "minted", "refused", "answered"}]
    /\ panel \in [Panels -> {"unopened", "open", "closed"}]
    /\ stale \in [Panels -> [fetch : BOOLEAN, result : BOOLEAN]]
    /\ again \in [Panels -> BOOLEAN]
    /\ seen \in [Panels -> Statuses \cup {None}]
    /\ answer \in [Panels -> Answers \cup {None}]
    /\ result \in [Panels -> Answers \cup {None}]
    /\ published \in Statuses /\ usable \in BOOLEAN
    /\ pipe \in [Panels -> Seq(Statuses)]
    /\ \A p \in Panels :
         /\ fetch[p] = "answered" => answer[p] # None
         /\ panel[p] = "unopened" => fetch[p] = "idle"
         /\ panel[p] = "open" /\ seen[p] = "ready" => Due(p)

LEMMA PanelBegins == PInit => PanelInv
BY DEF PInit, PanelInv, Due, Statuses, StatusOf

-----------------------------------------------------------------------------
(* The server and the network leave the panels alone *)

LEMMA PanelPublish ==
    ASSUME PanelInv, NEW u \in BOOLEAN, Publish(u)
    PROVE  published' \in Statuses /\ pipe' \in [Panels -> Seq(Statuses)]
<1>1. published' \in Statuses
  BY DEF Publish, StatusOf, Statuses
<1>2. \A p \in Panels : Append(pipe[p], published') \in Seq(Statuses) /\ <<>> \in Seq(Statuses)
  BY <1>1 DEF PanelInv
<1> QED BY <1>1, <1>2 DEF Publish, PanelInv

LEMMA PanelServer ==
    ASSUME PanelInv,
           Connected \/ Turns \/ \E p \in Panels : Mint(p) \/ Respond(p) \/ FetchFails(p)
    PROVE  PanelInv'
<1>1. CASE Connected
  <2>1. published' \in Statuses /\ pipe' \in [Panels -> Seq(Statuses)] /\ usable' \in BOOLEAN
    BY <1>1, PanelPublish DEF Connected
  <2> QED BY <1>1, <2>1 DEF Connected, PanelInv, Due
<1>2. CASE Turns
  BY <1>2 DEF Turns, PanelInv, Due
<1>3. ASSUME NEW p \in Panels, Mint(p)
      PROVE  PanelInv'
  BY <1>3 DEF Mint, PanelInv, Due, server
<1>4. ASSUME NEW p \in Panels, Respond(p)
      PROVE  PanelInv'
  <2>1. published' \in Statuses /\ pipe' \in [Panels -> Seq(Statuses)] /\ usable' \in BOOLEAN
    BY <1>4, PanelPublish DEF Respond, PanelInv
  <2>2. PICK a \in Answers : answer' = [answer EXCEPT ![p] = a]
    BY <1>4 DEF Respond, Answers
  <2>3. a # None
    BY PanelAssumption DEF PanelAssumption
  <2>4. /\ fetch' = [fetch EXCEPT ![p] = "answered"] /\ fetch[p] \in {"minted", "refused"}
        /\ UNCHANGED <<seen, panel, result, again, stale>>
    BY <1>4 DEF Respond
  <2> QED BY <2>1, <2>2, <2>3, <2>4 DEF PanelInv, Due
<1>5. ASSUME NEW p \in Panels, FetchFails(p)
      PROVE  PanelInv'
  BY <1>5, PanelAssumption DEF FetchFails, PanelInv, PanelAssumption, Answers, Due, server
<1> QED BY <1>1, <1>2, <1>3, <1>4, <1>5

-----------------------------------------------------------------------------
(* The panel's own steps *)

\* A fetch that begins now predates no status the panel has seen.
LEMMA PanelLoad ==
    ASSUME PanelInv, NEW p \in Panels, Load(p), panel'[p] # "unopened",
           panel' \in [Panels -> {"unopened", "open", "closed"}],
           \A q \in Panels \ {p} : panel'[q] = panel[q] /\ seen'[q] = seen[q],
           seen' \in [Panels -> Statuses \cup {None}], pipe' \in [Panels -> Seq(Statuses)],
           UNCHANGED <<usable, published, answer, result, again>>
    PROVE  PanelInv'
<1>1. /\ fetch' \in [Panels -> {"idle", "asked", "minted", "refused", "answered"}]
      /\ fetch'[p] = "asked" /\ \A q \in Panels \ {p} : fetch'[q] = fetch[q]
  BY DEF Load, PanelInv
<1>2. /\ stale' \in [Panels -> [fetch : BOOLEAN, result : BOOLEAN]]
      /\ stale'[p].fetch = FALSE /\ \A q \in Panels \ {p} : stale'[q] = stale[q]
  <2> DEFINE r == [stale[p] EXCEPT !.fetch = FALSE]
  <2>1. stale[p] \in [fetch : BOOLEAN, result : BOOLEAN]
    BY DEF PanelInv
  <2>2. r \in [fetch : BOOLEAN, result : BOOLEAN] /\ r.fetch = FALSE
    BY <2>1
  <2>3. stale' = [stale EXCEPT ![p] = r]
    BY DEF Load
  <2> HIDE DEF r
  <2> QED BY <2>2, <2>3 DEF PanelInv
<1>3. ASSUME NEW q \in Panels \ {p}
      PROVE  /\ fetch'[q] = "answered" => answer'[q] # None
             /\ panel'[q] = "unopened" => fetch'[q] = "idle"
             /\ panel'[q] = "open" /\ seen'[q] = "ready" => Due(q)'
  BY <1>1, <1>2 DEF PanelInv, Due
<1>4. Due(p)'
  BY <1>1, <1>2 DEF Due
<1>5. \A q \in Panels :
        /\ fetch'[q] = "answered" => answer'[q] # None
        /\ panel'[q] = "unopened" => fetch'[q] = "idle"
        /\ panel'[q] = "open" /\ seen'[q] = "ready" => Due(q)'
  BY <1>1, <1>3, <1>4
<1> QED BY <1>1, <1>2, <1>5 DEF PanelInv

LEMMA PanelOpen ==
    ASSUME PanelInv, NEW p \in Panels, Open(p)
    PROVE  PanelInv'
<1>1. CASE seen[p] = "ready"
  BY <1>1, PanelLoad DEF Open, PanelInv, server
<1>2. CASE seen[p] # "ready"
  BY <1>2 DEF Open, PanelInv, Due, server
<1> QED BY <1>1, <1>2

LEMMA PanelCloseTap ==
    ASSUME PanelInv, NEW p \in Panels, Close(p) \/ Tap(p)
    PROVE  PanelInv'
<1>1. CASE Close(p)
  BY <1>1 DEF Close, PanelInv, Due, server
<1>2. CASE Tap(p)
  BY <1>2, PanelLoad DEF Tap, PanelInv, server, Loading
<1> QED BY <1>1, <1>2

LEMMA PanelBecomes ==
    ASSUME PanelInv, NEW p \in Panels, NEW status \in Statuses \cup {None},
           Becomes(p, status), pipe' \in [Panels -> Seq(Statuses)],
           UNCHANGED <<usable, published, panel, answer, result>>
    PROVE  PanelInv'
<1>1. /\ seen' = [seen EXCEPT ![p] = status]
      /\ seen' \in [Panels -> Statuses \cup {None}]
  BY DEF Becomes, PanelInv
<1> DEFINE Turned == panel[p] = "open" /\ status = "ready" /\ seen[p] # "ready"
<1>2. CASE Turned /\ Loading(p)
  <2>1. /\ again' = [again EXCEPT ![p] = TRUE] /\ UNCHANGED fetch
        /\ stale' = [stale EXCEPT ![p] = [fetch |-> TRUE, result |-> TRUE]]
    BY <1>2 DEF Becomes
  <2> QED BY <1>1, <1>2, <2>1 DEF PanelInv, Due, Loading
<1>3. CASE Turned /\ ~Loading(p)
  BY <1>1, <1>3, PanelLoad DEF Becomes, PanelInv
<1>4. CASE ~Turned
  <2>1. UNCHANGED <<fetch, again, stale>>
    BY <1>4 DEF Becomes
  <2> QED BY <1>1, <1>4, <2>1 DEF PanelInv, Due
<1> QED BY <1>2, <1>3, <1>4

LEMMA PanelNews ==
    ASSUME PanelInv, NEW p \in Panels, Deliver(p) \/ Notify(p) \/ Drop(p) \/ Snapshot(p)
    PROVE  PanelInv'
<1>1. CASE Deliver(p)
  <2>1. Head(pipe[p]) \in Statuses /\ Tail(pipe[p]) \in Seq(Statuses)
    BY <1>1 DEF Deliver, PanelInv
  <2> QED BY <1>1, <2>1, PanelBecomes DEF Deliver, PanelInv
<1>2. CASE Notify(p)
  BY <1>2, PanelBecomes DEF Notify, PanelInv, server
<1>3. CASE Drop(p)
  BY <1>3, PanelBecomes DEF Drop, PanelInv
<1>4. CASE Snapshot(p)
  BY <1>4, PanelBecomes DEF Snapshot, PanelInv, server
<1> QED BY <1>1, <1>2, <1>3, <1>4

\* What lands while the status is ready was asked for under it, unless it is
\* to be asked for again.
LEMMA PanelLand ==
    ASSUME PanelInv, NEW p \in Panels, Land(p)
    PROVE  PanelInv'
<1>1. answer' = [answer EXCEPT ![p] = None] /\ fetch[p] = "answered" /\ answer[p] # None
  BY DEF Land, PanelInv
<1>2. CASE panel[p] # "open"
  <2>1. /\ fetch' = [fetch EXCEPT ![p] = "idle"]
        /\ UNCHANGED <<usable, published, pipe, seen, panel, result, again, stale>>
    BY <1>2 DEF Land, server
  <2>2. answer' \in [Panels -> Answers \cup {None}]
    BY <1>1 DEF PanelInv
  <2>3. fetch' \in [Panels -> {"idle", "asked", "minted", "refused", "answered"}]
    BY <2>1 DEF PanelInv
  <2>4. \A q \in Panels :
          /\ fetch'[q] = "answered" => answer'[q] # None
          /\ panel'[q] = "unopened" => fetch'[q] = "idle"
          /\ panel'[q] = "open" /\ seen'[q] = "ready" => Due(q)'
    BY <1>1, <1>2, <2>1 DEF PanelInv, Due
  <2> QED BY <2>1, <2>2, <2>3, <2>4 DEF PanelInv
<1>3. CASE panel[p] = "open"
  <2>1. /\ result' = [result EXCEPT ![p] = answer[p]] /\ again' = [again EXCEPT ![p] = FALSE]
        /\ stale' = [stale EXCEPT ![p] = [fetch |-> FALSE, result |-> stale[p].fetch]]
        /\ fetch' = [fetch EXCEPT ![p] = IF again[p] THEN "asked" ELSE "idle"]
        /\ UNCHANGED <<usable, published, pipe, seen, panel>>
    BY <1>3 DEF Land, server
  <2>2. CASE again[p] = TRUE
    BY <1>1, <1>3, <2>1, <2>2 DEF PanelInv, Due
  <2>3. CASE again[p] = FALSE
    BY <1>1, <1>3, <2>1, <2>3 DEF PanelInv, Due
  <2> QED BY <2>2, <2>3 DEF PanelInv
<1> QED BY <1>2, <1>3

-----------------------------------------------------------------------------
LEMMA PanelStep == PanelInv /\ [PNext]_pvars => PanelInv'
<1> SUFFICES ASSUME PanelInv, [PNext]_pvars PROVE PanelInv'
  OBVIOUS
<1>1. CASE UNCHANGED pvars
  BY <1>1 DEF pvars, PanelInv, Due
<1>2. CASE PNext
  BY <1>2, PanelServer, PanelOpen, PanelCloseTap, PanelNews, PanelLand DEF PNext, Runs
<1> QED BY <1>1, <1>2

\* When a panel has nothing under way while the status is ready, what it holds
\* was asked for after the status became so, in whatever order answers, deltas,
\* disconnections and taps come (chat_screen.dart _onStateChanged, _load).
THEOREM NeverPinned == PSpec => []NotPinned
<1>1. PanelInv => NotPinned
  BY DEF PanelInv, NotPinned, Due, Loading
<1> QED BY <1>1, PanelBegins, PanelStep, PTL DEF PSpec

=============================================================================
