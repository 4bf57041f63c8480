----------------------------- MODULE MCHeldKeys -----------------------------
(* HeldKeys needs no definition of its own to be checked: the model values are *)
(* in the configurations.                                                       *)
EXTENDS HeldKeysInv
=============================================================================
