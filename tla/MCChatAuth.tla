----------------------------- MODULE MCChatAuth -----------------------------
EXTENDS ChatAuth

CONSTANTS m1, m2, l1

VARIABLE load \* what a behaviour of the run has to do with

\* Bound: either two requests, or a request and a callback, each with its own limit
\* on faults.
Loads == {[handlers |-> {m1, m2}, faults |-> 2], [handlers |-> {m1, l1}, faults |-> 1]}

RunInit == Init /\ load \in Loads
RunNext ==
    /\ Next
    /\ {x \in Handlers : h'[x].pc # "idle"} \subseteq load.handlers
    /\ faults' <= load.faults
    /\ UNCHANGED load

\* No fair action is held back for good: what ends a step with a fault ends without
\* one too.
RunSpec == RunInit /\ [][RunNext]_<<vars, load>> /\ Fairness
=============================================================================
