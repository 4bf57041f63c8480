----------------------------- MODULE MCDispatch -----------------------------
EXTENDS Dispatch, TLC

CONSTANTS c1, c2

\* One client sends two commands, the other one.
Quota == (c1 :> 2) @@ (c2 :> 1)
=============================================================================
