--------------------------- MODULE MCConnLifecycle --------------------------
(* Small instances of ConnLifecycle. *)
EXTENDS ConnLifecycle

CONSTANTS a, m

MCRequests == [c \in Clients |-> Kinds]
=============================================================================
