------------------------------- MODULE MCSbrk --------------------------------
(* Sbrk for TLC: one growing and one shrinking argument of sbrk, the       *)
(* shrink large enough to reach below zero from the initial size.          *)
EXTENDS Sbrk

MCDeltas == {1, -2}

=============================================================================
