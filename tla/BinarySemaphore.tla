-------------------------- MODULE BinarySemaphore --------------------------
(***************************************************************************)
(* What the kernel's binary semaphores promise (proc.c, "SEMAPHORES"):     *)
(* a pool of descriptors, each allocated or not; an allocated semaphore is *)
(* owned by at most one thread; a thread that finds it owned blocks, and   *)
(* a release either frees the semaphore or hands it straight to one of the *)
(* blocked threads, with no promise about which one.                      *)
(***************************************************************************)
EXTENDS FiniteSets

CONSTANTS Threads, Sems, NoThread

ASSUME NoThread \notin Threads

VARIABLES allocated, owner, blocked

vars == <<allocated, owner, blocked>>

TypeOK ==
  /\ allocated \in [Sems -> BOOLEAN]
  /\ owner \in [Sems -> Threads \cup {NoThread}]
  /\ blocked \in [Sems -> SUBSET Threads]

Init ==
  /\ allocated = [s \in Sems |-> FALSE]
  /\ owner = [s \in Sems |-> NoThread]
  /\ blocked = [s \in Sems |-> {}]

Alloc(s) ==
  /\ ~allocated[s]
  /\ allocated' = [allocated EXCEPT ![s] = TRUE]
  /\ owner' = [owner EXCEPT ![s] = NoThread]
  /\ blocked' = [blocked EXCEPT ![s] = {}]

Free(s) ==
  /\ allocated[s]
  /\ owner[s] = NoThread
  /\ blocked[s] = {}
  /\ allocated' = [allocated EXCEPT ![s] = FALSE]
  /\ UNCHANGED <<owner, blocked>>

Acquire(t, s) ==
  /\ allocated[s]
  /\ owner[s] = NoThread
  /\ owner' = [owner EXCEPT ![s] = t]
  /\ UNCHANGED <<allocated, blocked>>

Block(t, s) ==
  /\ allocated[s]
  /\ owner[s] \notin {NoThread, t}
  /\ t \notin blocked[s]
  /\ blocked' = [blocked EXCEPT ![s] = @ \cup {t}]
  /\ UNCHANGED <<allocated, owner>>

Release(t, s) ==
  /\ owner[s] = t
  /\ blocked[s] = {}
  /\ owner' = [owner EXCEPT ![s] = NoThread]
  /\ UNCHANGED <<allocated, blocked>>

HandOff(t, s, u) ==
  /\ owner[s] = t
  /\ u \in blocked[s]
  /\ owner' = [owner EXCEPT ![s] = u]
  /\ blocked' = [blocked EXCEPT ![s] = @ \ {u}]
  /\ UNCHANGED allocated

Next ==
  \/ \E s \in Sems : Alloc(s) \/ Free(s)
  \/ \E t \in Threads, s \in Sems :
       \/ Acquire(t, s) \/ Block(t, s) \/ Release(t, s)
       \/ \E u \in Threads : HandOff(t, s, u)

Spec == Init /\ [][Next]_vars

=============================================================================
