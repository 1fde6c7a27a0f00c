------------------------- MODULE CountingSemaphore -------------------------
(***************************************************************************)
(* What a counting semaphore promises (spec 4.5, 8): once allocated with   *)
(* an initial count it holds a count that is never negative; down lets a  *)
(* caller past only by taking one unit of a positive count, up adds one.  *)
(* So, for a count that the ups and downs leave at C >= 0, at most C more  *)
(* callers can get past down.                                              *)
(***************************************************************************)
EXTENDS Naturals

CONSTANTS InitValues   \* the initial counts programs allocate with

VARIABLES live, count

vars == <<live, count>>

TypeOK == live \in BOOLEAN /\ count \in Nat

Init == live = FALSE /\ count = 0

Alloc(k) == ~live /\ live' = TRUE /\ count' = k

Free == live /\ live' = FALSE /\ count' = 0

Down == live /\ count > 0 /\ count' = count - 1 /\ UNCHANGED live

Up == live /\ count' = count + 1 /\ UNCHANGED live

Next == (\E k \in InitValues : Alloc(k)) \/ Free \/ Down \/ Up

Spec == Init /\ [][Next]_vars

=============================================================================
