----------------------------- MODULE ChatPanel ------------------------------
(***************************************************************************)
(* The chat panels of the clients and the status they follow               *)
(* (screens/chat_screen.dart, services/chat_service.dart; api/chat.go      *)
(* serveChatURL): a panel asks for a chat URL when the published status    *)
(* becomes ready, every such request is a mint, and every mint publishes   *)
(* the status anew.                                                        *)
(*                                                                         *)
(* A panel is rebuilt between two taps, so the buttons of a panel that is  *)
(* loading cannot be pressed.  The mint itself is ChatAuth's: here it      *)
(* finds the credential usable or not when it answers.                     *)
(*                                                                         *)
(* PInit, PNext and PSpec are named so that ChatOperator_proofs can hold   *)
(* this module and ChatLogin.                                              *)
(***************************************************************************)
EXTENDS Integers, Sequences

CONSTANTS Panels,    \* open ChatScreens, each with its client's connection
          None,      \* no status, no answer
          MaxEvents  \* bound: what operators, the platform and the network do

Statuses == {"ready", "needs_auth"}
Answers  == {"url", "needs_auth", "unreachable"}

ASSUME PanelAssumption == None \notin Statuses \cup Answers /\ MaxEvents \in Nat

VARIABLES
    usable,     \* Authorized: a credential is held and not refused
    published,  \* stream.chat.status in the Store
    pipe,       \* statuses on their way to each client
    seen,       \* the client's mirror of it; None while disconnected
    panel,      \* "unopened", "open", "closed"
    fetch,      \* fetchUrl: "idle", "asked", "minted", "refused" or "answered"
    answer,     \* what a fetch is to return
    result,     \* _result
    again,      \* _reloadWhenIdle
    stale,      \* history: the fetch under way, the result held, began before
                \* the status last became ready
    events

pvars == <<usable, published, pipe, seen, panel, fetch, answer, result, again, stale, events>>
server == <<usable, published, pipe>>

StatusOf(u) == IF u THEN "ready" ELSE "needs_auth"

\* _loading: one fetch at a time, since nothing starts another.
Loading(p) == fetch[p] # "idle"

Happens == events < MaxEvents /\ events' = events + 1

PInit ==
    /\ usable \in BOOLEAN /\ published = StatusOf(usable)
    /\ pipe = [p \in Panels |-> <<>>] /\ seen = [p \in Panels |-> published]
    /\ panel = [p \in Panels |-> "unopened"]
    /\ fetch = [p \in Panels |-> "idle"] /\ answer = [p \in Panels |-> None]
    /\ result = [p \in Panels |-> None] /\ again = [p \in Panels |-> FALSE]
    /\ stale = [p \in Panels |-> [fetch |-> FALSE, result |-> FALSE]]
    /\ events = 0

-----------------------------------------------------------------------------
(* publishChatStatus *)

Publish(u) ==
    /\ published' = StatusOf(u)
    /\ pipe' = IF published' = published THEN pipe
               ELSE [p \in Panels |-> IF seen[p] = None THEN <<>>
                                      ELSE Append(pipe[p], published')]

\* The operator has authorized the application.
Connected ==
    /\ Happens
    /\ usable' = TRUE /\ Publish(TRUE)
    /\ UNCHANGED <<seen, panel, fetch, answer, result, again, stale>>

\* The credential is refused or lapses, or a refusal's cooldown is over: nobody
\* publishes that by itself.
Turns ==
    /\ Happens
    /\ usable' = ~usable
    /\ UNCHANGED <<published, pipe, seen, panel, fetch, answer, result, again, stale>>

-----------------------------------------------------------------------------
(* serveChatURL *)

Mint(p) ==
    /\ fetch[p] = "asked"
    /\ fetch' = [fetch EXCEPT ![p] = IF usable THEN "minted" ELSE "refused"]
    /\ UNCHANGED <<server, seen, panel, answer, result, again, stale, events>>

\* The status is published on either outcome, as it is by now.
Respond(p) ==
    /\ fetch[p] \in {"minted", "refused"}
    /\ Publish(usable)
    /\ fetch' = [fetch EXCEPT ![p] = "answered"]
    /\ answer' = [answer EXCEPT ![p] = IF fetch[p] = "minted" THEN "url" ELSE "needs_auth"]
    /\ UNCHANGED <<usable, seen, panel, result, again, stale, events>>

\* The platform or the server does not answer; nothing is published.
FetchFails(p) ==
    /\ fetch[p] = "asked" /\ Happens
    /\ fetch' = [fetch EXCEPT ![p] = "answered"]
    /\ answer' = [answer EXCEPT ![p] = "unreachable"]
    /\ UNCHANGED <<server, seen, panel, result, again, stale>>

-----------------------------------------------------------------------------
(* The panel *)

\* _load, up to the request.
Load(p) ==
    /\ fetch' = [fetch EXCEPT ![p] = "asked"]
    /\ stale' = [stale EXCEPT ![p].fetch = FALSE]

\* initState.
Open(p) ==
    /\ panel[p] = "unopened" /\ Happens
    /\ panel' = [panel EXCEPT ![p] = "open"]
    /\ IF seen[p] = "ready" THEN Load(p) ELSE UNCHANGED <<fetch, stale>>
    /\ UNCHANGED <<server, seen, answer, result, again>>

\* dispose; the answer of a fetch under way is dropped.
Close(p) ==
    /\ panel[p] = "open" /\ Happens
    /\ panel' = [panel EXCEPT ![p] = "closed"] /\ again' = [again EXCEPT ![p] = FALSE]
    /\ UNCHANGED <<server, seen, fetch, answer, result, stale>>

\* Try again, under a status; or the reload icon beside a URL, which stays there
\* while the connection is down.
Tap(p) ==
    /\ panel[p] = "open" /\ ~Loading(p) /\ Happens
    /\ seen[p] # None \/ result[p] = "url"
    /\ Load(p)
    /\ UNCHANGED <<server, seen, panel, answer, result, again>>

\* Fault: a request under way is taken for the one that is due.
Becomes_NoReload(p, status) ==
    /\ seen' = [seen EXCEPT ![p] = status]
    /\ IF panel[p] = "open" /\ status = "ready" /\ seen[p] # "ready"
       THEN IF Loading(p)
            THEN stale' = [stale EXCEPT ![p] = [fetch |-> TRUE, result |-> TRUE]]
                 /\ UNCHANGED fetch
            ELSE Load(p)
       ELSE UNCHANGED <<fetch, stale>>
    /\ UNCHANGED again

\* Fault: every notification of a ready status mints.
Becomes_Always(p, status) ==
    /\ seen' = [seen EXCEPT ![p] = status]
    /\ IF panel[p] = "open" /\ status = "ready"
       THEN IF Loading(p)
            THEN /\ again' = [again EXCEPT ![p] = TRUE]
                 /\ stale' = [stale EXCEPT ![p] = [fetch |-> TRUE, result |-> TRUE]]
                 /\ UNCHANGED fetch
            ELSE Load(p) /\ UNCHANGED again
       ELSE UNCHANGED <<fetch, again, stale>>

\* _onStateChanged: only a transition into ready mints; what is under way then
\* predates the status.
Becomes(p, status) ==
    /\ seen' = [seen EXCEPT ![p] = status]
    /\ IF panel[p] = "open" /\ status = "ready" /\ seen[p] # "ready"
       THEN IF Loading(p)
            THEN /\ again' = [again EXCEPT ![p] = TRUE]
                 /\ stale' = [stale EXCEPT ![p] = [fetch |-> TRUE, result |-> TRUE]]
                 /\ UNCHANGED fetch
            ELSE Load(p) /\ UNCHANGED again
       ELSE UNCHANGED <<fetch, again, stale>>

\* A delta that carries the status.
Deliver(p) ==
    /\ pipe[p] # <<>>
    /\ Becomes(p, Head(pipe[p])) /\ pipe' = [pipe EXCEPT ![p] = Tail(@)]
    /\ UNCHANGED <<usable, published, panel, answer, result, events>>

\* Any other change of the state: a viewer count, a scene.
Notify(p) ==
    /\ seen[p] # None
    /\ Becomes(p, seen[p])
    /\ UNCHANGED <<server, panel, answer, result, events>>

\* The mirror is cleared on a disconnect ...
Drop(p) ==
    /\ seen[p] # None /\ Happens
    /\ Becomes(p, None) /\ pipe' = [pipe EXCEPT ![p] = <<>>]
    /\ UNCHANGED <<usable, published, panel, answer, result>>

\* ... and the next session's snapshot fills it.
Snapshot(p) ==
    /\ seen[p] = None
    /\ Becomes(p, published)
    /\ UNCHANGED <<server, panel, answer, result, events>>

\* The rest of _load.
Land(p) ==
    /\ fetch[p] = "answered"
    /\ answer' = [answer EXCEPT ![p] = None]
    /\ IF panel[p] # "open"
       THEN fetch' = [fetch EXCEPT ![p] = "idle"] /\ UNCHANGED <<result, again, stale>>
       ELSE /\ result' = [result EXCEPT ![p] = answer[p]]
            /\ again' = [again EXCEPT ![p] = FALSE]
            /\ fetch' = [fetch EXCEPT ![p] = IF again[p] THEN "asked" ELSE "idle"]
            /\ stale' = [stale EXCEPT ![p] = [fetch |-> FALSE, result |-> stale[p].fetch]]
    /\ UNCHANGED <<server, seen, panel, events>>

-----------------------------------------------------------------------------
Runs(p) == Mint(p) \/ Respond(p) \/ Land(p) \/ Deliver(p) \/ Snapshot(p)

PNext ==
    \/ \E p \in Panels : Runs(p) \/ FetchFails(p) \/ Open(p) \/ Close(p) \/ Tap(p)
                         \/ Notify(p) \/ Drop(p)
    \/ Connected \/ Turns

PSpec == PInit /\ [][PNext]_pvars

\* Requests are answered within their deadlines and deltas arrive.
FairPSpec ==
    PSpec /\ \A p \in Panels : /\ WF_pvars(Mint(p)) /\ WF_pvars(Respond(p)) /\ WF_pvars(Land(p))
                               /\ WF_pvars(Deliver(p)) /\ WF_pvars(Snapshot(p))
-----------------------------------------------------------------------------
\* Every variable has its shape.
PTypeOK ==
    /\ usable \in BOOLEAN /\ published \in Statuses
    /\ pipe \in [Panels -> Seq(Statuses)] /\ seen \in [Panels -> Statuses \cup {None}]
    /\ panel \in [Panels -> {"unopened", "open", "closed"}]
    /\ fetch \in [Panels -> {"idle", "asked", "minted", "refused", "answered"}]
    /\ answer \in [Panels -> Answers \cup {None}] /\ result \in [Panels -> Answers \cup {None}]
    /\ again \in [Panels -> BOOLEAN]
    /\ stale \in [Panels -> [fetch : BOOLEAN, result : BOOLEAN]]
    /\ events \in 0 .. MaxEvents

\* A panel is not pinned to an answer that predates the status it shows: when it
\* has nothing under way while the status is ready, what it holds was asked for
\* after the status became so, however the answer, the delta and the operator's
\* taps were ordered (_onStateChanged, _load's _reloadWhenIdle).
NotPinned ==
    \A p \in Panels :
        panel[p] = "open" /\ seen[p] = "ready" /\ ~Loading(p)
            => result[p] # None /\ ~stale[p].result

\* Minting does not feed on itself: each mint costs a token rotation and
\* publishes a status that other panels follow, yet once operators, platform and
\* network have done what they do, the mints come to an end (_onStateChanged's
\* becameReady, serveChatURL's publishChatStatus).
Quiesces == <>[](\A p \in Panels : ~Loading(p))
=============================================================================
