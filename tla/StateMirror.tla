---------------------------- MODULE StateMirror ----------------------------
(***************************************************************************)
(* What the state stream promises (docs/protocol.md section 4), with no    *)
(* queues, frames or subscriptions handshakes: the server publishes a      *)
(* numbered history of states, and a client's mirror, once it has one, is  *)
(* the part of ONE published state its subscription selects.  A mirror may *)
(* lag and may skip revisions; within a session it never goes back.        *)
(***************************************************************************)
EXTENDS Integers

CONSTANTS Clients,  \* the clients that may connect
          Fields,   \* the leaves of the state object
          Topics,   \* the subscription topics
          TopicOf,  \* the topic each field belongs to
          Vals,     \* the values a field takes
          Absent    \* "the field is not in the object"

VARIABLES published,  \* published[r]: the state at revision r
          last,       \* the newest revision
          view        \* view[c]: what client c shows

States    == [Fields -> Vals]
Blank     == [f \in Fields |-> Absent]
Selected(s, scope) == [f \in Fields |-> IF TopicOf[f] \in scope THEN s[f] ELSE Absent]

Nothing   == [have |-> FALSE, rev |-> 0, scope |-> {}, data |-> Blank]
Showing(r, scope, data) == [have |-> TRUE, rev |-> r, scope |-> scope, data |-> data]

mvars == <<published, last, view>>

MInit == /\ last = 0
         /\ published = [r \in 0..0 |-> Blank]
         /\ view = [c \in Clients |-> Nothing]

Publish == /\ last' = last + 1
           /\ \E s \in States :
                published' = [r \in 0..last + 1 |-> IF r = last + 1 THEN s ELSE published[r]]
           /\ UNCHANGED view

Observe(c) == \E r \in 0..last, scope \in SUBSET Topics :
    /\ view[c].have => r >= view[c].rev
    /\ view' = [view EXCEPT ![c] = Showing(r, scope, Selected(published[r], scope))]
    /\ UNCHANGED <<published, last>>

\* Sessions end: any set of clients (a slow one dropped by a publication, all
\* of them by a restart) loses its view, alone or together with a publication.
Forget(gone) == view' = [c \in Clients |-> IF c \in gone THEN Nothing ELSE view[c]]

End == \E gone \in SUBSET Clients : Forget(gone) /\ UNCHANGED <<published, last>>

PublishAndEnd == /\ last' = last + 1
                 /\ \E s \in States :
                      published' = [r \in 0..last + 1 |-> IF r = last + 1 THEN s ELSE published[r]]
                 /\ \E gone \in SUBSET Clients : Forget(gone)

Restart == /\ last' = 0
           /\ published' = [r \in 0..0 |-> Blank]
           /\ view' = [c \in Clients |-> Nothing]

MNext == Publish \/ PublishAndEnd \/ (\E c \in Clients : Observe(c)) \/ End \/ Restart

MSpec == MInit /\ [][MNext]_mvars
=============================================================================
