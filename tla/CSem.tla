-------------------------------- MODULE CSem --------------------------------
(***************************************************************************)
(* The user-level counting semaphore of user/Csemaphore.c (Barz's          *)
(* construction): value guarded by binary semaphore S1, entry gated by S2, *)
(* over the kernel's binary semaphores (proc.c bsem_alloc, bsem_free,      *)
(* bsem_down, bsem_up) in a pool shared with other code of the process.   *)
(*                                                                         *)
(* Workers loop csem_down, critical section, csem_up; Signalers only call  *)
(* csem_up, at most MaxUps times in all.  A thread is its index, as in the *)
(* kernel's waiter array, so bsem_up's first-found waiter is Min.          *)
(***************************************************************************)
EXTENDS Naturals, FiniteSets, FiniteSetsExt

CONSTANTS
  Workers,     \* threads that take and release the semaphore
  Signalers,   \* threads that only release it
  PoolSize,    \* binary semaphores in the pool (MAX_BSEM)
  InitValues,  \* initial values passed to csem_alloc
  MaxUps       \* bound on Signalers' csem_up calls per allocation

Threads == Workers \cup Signalers
Desc == 0 .. PoolSize - 1
NoDesc == -1

ASSUME Workers \cap Signalers = {} /\ Threads \subseteq Nat
ASSUME InitValues \subseteq Int /\ MaxUps \in Nat

\* Where a thread is: a line of csem_down (D1 bsem_down(S2), D2
\* bsem_down(S1), D3 value--, D4 bsem_up(S2), D5 bsem_up(S1)), asleep in
\* one of its bsem_downs (D1w, D2w), in the critical section, or a line of
\* csem_up (U1 bsem_down(S1), U1w, U2 value++, U3 bsem_up(S2), U4 bsem_up(S1)).
PCs == {"idle", "D1", "D1w", "D2", "D2w", "D3", "D4", "D5", "cs",
        "U1", "U1w", "U2", "U3", "U4"}

VARIABLES
  balloc,    \* descriptor != -1 (allocated)
  bfree,     \* binary_semaphores[d].free
  bwait,     \* threads recorded in binary_semaphores[d].threasd_array
  held,      \* descriptors allocated by other code of the process
  live,      \* a csem_alloc has succeeded and csem_free has not followed
  value,     \* sem->value
  S1, S2,    \* sem->S1, sem->S2
  pc,
  ups        \* csem_up calls made by Signalers since csem_alloc

vars == <<balloc, bfree, bwait, held, live, value, S1, S2, pc, ups>>
poolVars == <<balloc, bfree, bwait, held>>

\* procinit: every descriptor -1; the counting semaphore not yet allocated.
Init ==
  /\ balloc = [d \in Desc |-> FALSE]
  /\ bfree = [d \in Desc |-> FALSE]
  /\ bwait = [d \in Desc |-> {}]
  /\ held = {}
  /\ live = FALSE /\ value = 0 /\ S1 = NoDesc /\ S2 = NoDesc
  /\ pc = [t \in Threads |-> "idle"]
  /\ ups = 0

-----------------------------------------------------------------------------
(***************************************************************************)
(* The kernel's binary semaphores, as the counting semaphore uses them.    *)
(***************************************************************************)

\* bsem_alloc: the lowest descriptor still -1, or none.
FirstFree(a) == IF \E d \in Desc : ~a[d] THEN Min({d \in Desc : ~a[d]}) ELSE NoDesc

\* bsem_down(d) at line `from` of thread t: take a free semaphore and go on
\* to `to`, or record t as a waiter and sleep at `wt`.
BDown(t, d, from, wt, to) ==
  /\ pc[t] = from
  /\ IF bfree[d]
     THEN /\ bfree' = [bfree EXCEPT ![d] = FALSE]
          /\ pc' = [pc EXCEPT ![t] = to]
          /\ UNCHANGED bwait
     ELSE /\ bwait' = [bwait EXCEPT ![d] = @ \cup {t}]
          /\ pc' = [pc EXCEPT ![t] = wt]
          /\ UNCHANGED bfree

\* Back from sched() in bsem_down once bsem_up has cleared t's entry.
BResume(t, d, wt, to) ==
  /\ pc[t] = wt
  /\ t \notin bwait[d]
  /\ pc' = [pc EXCEPT ![t] = to]
  /\ UNCHANGED <<bfree, bwait>>

\* bsem_up(d): wake the first recorded waiter and hand d over, or mark it free.
BUp(d) ==
  IF bwait[d] # {}
  THEN /\ bwait' = [bwait EXCEPT ![d] = @ \ {Min(@)}]
       /\ UNCHANGED bfree
  ELSE /\ bfree' = [bfree EXCEPT ![d] = TRUE]
       /\ UNCHANGED bwait

-----------------------------------------------------------------------------
(***************************************************************************)
(* csem_down, csem_up.                                                     *)
(***************************************************************************)

CallDown(t) ==
  /\ t \in Workers /\ live /\ pc[t] = "idle"
  /\ pc' = [pc EXCEPT ![t] = "D1"]
  /\ UNCHANGED <<poolVars, live, value, S1, S2, ups>>

CallUp(t) ==
  /\ live
  /\ \/ t \in Workers /\ pc[t] = "cs"
     \/ t \in Signalers /\ pc[t] = "idle" /\ ups < MaxUps /\ ups' = ups + 1
  /\ pc' = [pc EXCEPT ![t] = "U1"]
  /\ UNCHANGED <<poolVars, live, value, S1, S2>>
  /\ t \in Workers => UNCHANGED ups

DownGate(t) ==
  /\ \/ BDown(t, S2, "D1", "D1w", "D2")
     \/ BResume(t, S2, "D1w", "D2")
  /\ UNCHANGED <<balloc, held, live, value, S1, S2, ups>>

DownLock(t) ==
  /\ \/ BDown(t, S1, "D2", "D2w", "D3")
     \/ BResume(t, S1, "D2w", "D3")
  /\ UNCHANGED <<balloc, held, live, value, S1, S2, ups>>

DownDecrement_keeps_gate_at_zero(t) ==
  /\ pc[t] = "D3"
  /\ value' = value - 1
  /\ pc' = [pc EXCEPT ![t] = IF value - 1 >= 0 THEN "D4" ELSE "D5"]
  /\ UNCHANGED <<poolVars, live, S1, S2, ups>>

\* value--; reopen the gate only while value stays positive.
DownDecrement(t) ==
  /\ pc[t] = "D3"
  /\ value' = value - 1
  /\ pc' = [pc EXCEPT ![t] = IF value - 1 > 0 THEN "D4" ELSE "D5"]
  /\ UNCHANGED <<poolVars, live, S1, S2, ups>>

DownRelease(t) ==
  /\ \/ pc[t] = "D4" /\ BUp(S2) /\ pc' = [pc EXCEPT ![t] = "D5"]
     \/ pc[t] = "D5" /\ BUp(S1) /\ pc' = [pc EXCEPT ![t] = "cs"]
  /\ UNCHANGED <<balloc, held, live, value, S1, S2, ups>>

UpLock(t) ==
  /\ \/ BDown(t, S1, "U1", "U1w", "U2")
     \/ BResume(t, S1, "U1w", "U2")
  /\ UNCHANGED <<balloc, held, live, value, S1, S2, ups>>

UpIncrement_opens_above_one(t) ==
  /\ pc[t] = "U2"
  /\ value' = value + 1
  /\ pc' = [pc EXCEPT ![t] = IF value + 1 > 1 THEN "U3" ELSE "U4"]
  /\ UNCHANGED <<poolVars, live, S1, S2, ups>>

\* value++; open the gate when value has just become 1.
UpIncrement(t) ==
  /\ pc[t] = "U2"
  /\ value' = value + 1
  /\ pc' = [pc EXCEPT ![t] = IF value + 1 = 1 THEN "U3" ELSE "U4"]
  /\ UNCHANGED <<poolVars, live, S1, S2, ups>>

UpRelease(t) ==
  /\ \/ pc[t] = "U3" /\ BUp(S2) /\ pc' = [pc EXCEPT ![t] = "U4"]
     \/ pc[t] = "U4" /\ BUp(S1) /\ pc' = [pc EXCEPT ![t] = "idle"]
  /\ UNCHANGED <<balloc, held, live, value, S1, S2, ups>>

-----------------------------------------------------------------------------
(***************************************************************************)
(* csem_alloc, csem_free, and the rest of the process using the pool.      *)
(***************************************************************************)
AllIdle == \A t \in Threads : pc[t] = "idle"

\* csem_alloc(sem, k), made before the threads share sem: value = k, then
\* two bsem_allocs, each returning -1 at once when the pool is empty; with
\* k = 0, bsem_down(S2) on the fresh, free S2 closes the gate.
csem_alloc(k) ==
  /\ ~live /\ AllIdle
  /\ LET d1 == FirstFree(balloc)
         d2 == IF d1 = NoDesc THEN NoDesc
               ELSE FirstFree([balloc EXCEPT ![d1] = TRUE])
     IN
     /\ value' = k
     /\ S1' = d1
     /\ S2' = IF d1 = NoDesc THEN S2 ELSE d2
     /\ live' = (d1 # NoDesc /\ d2 # NoDesc)
     /\ ups' = 0
     /\ balloc' = [d \in Desc |-> balloc[d] \/ d \in {d1, d2} \ {NoDesc}]
     /\ bwait' = [d \in Desc |-> IF d \in {d1, d2} THEN {} ELSE bwait[d]]
     /\ bfree' = [d \in Desc |-> CASE d = d2 /\ d1 # NoDesc -> k # 0
                                   [] d = d1 -> TRUE
                                   [] OTHER -> bfree[d]]
  /\ UNCHANGED <<held, pc>>

\* csem_free: value = -1 and both descriptors back to -1; only with no
\* thread inside csem_down or csem_up (freeing a semaphore with blocked
\* threads is undefined).
csem_free ==
  /\ live /\ AllIdle
  /\ value' = -1
  /\ balloc' = [balloc EXCEPT ![S1] = FALSE, ![S2] = FALSE]
  /\ live' = FALSE
  /\ UNCHANGED <<bfree, bwait, held, S1, S2, pc, ups>>

\* Other code of the process allocates or frees binary semaphores.
OtherAlloc ==
  /\ FirstFree(balloc) # NoDesc
  /\ LET d == FirstFree(balloc) IN
       /\ balloc' = [balloc EXCEPT ![d] = TRUE]
       /\ bfree' = [bfree EXCEPT ![d] = TRUE]
       /\ bwait' = [bwait EXCEPT ![d] = {}]
       /\ held' = held \cup {d}
  /\ UNCHANGED <<live, value, S1, S2, pc, ups>>

OtherFree(d) ==
  /\ d \in held
  /\ balloc' = [balloc EXCEPT ![d] = FALSE]
  /\ held' = held \ {d}
  /\ UNCHANGED <<bfree, bwait, live, value, S1, S2, pc, ups>>

\* The steps a thread takes once inside csem_down or csem_up, or to leave
\* its critical section.
Step(t) ==
  \/ DownGate(t) \/ DownLock(t) \/ DownDecrement(t) \/ DownRelease(t)
  \/ UpLock(t) \/ UpIncrement(t) \/ UpRelease(t)
  \/ t \in Workers /\ CallUp(t)

Next ==
  \/ \E t \in Threads : CallDown(t) \/ CallUp(t) \/ Step(t)
  \/ \E k \in InitValues : csem_alloc(k)
  \/ csem_free \/ OtherAlloc \/ \E d \in Desc : OtherFree(d)

Spec == Init /\ [][Next]_vars

\* The scheduler runs every RUNNABLE thread and a critical section ends, so
\* a thread inside csem_down or csem_up keeps taking its steps; nothing
\* forces a program to call csem_down, csem_up, alloc or free.
FairSpec == Spec /\ \A t \in Threads : WF_vars(Step(t))

-----------------------------------------------------------------------------
(***************************************************************************)
(* Properties.                                                             *)
(***************************************************************************)

\* The refinement mapping: the abstract count is value while allocated.
Abs == INSTANCE CountingSemaphore WITH count <- IF live THEN value ELSE 0

\* csem_alloc/down/up/free implement the abstract counting semaphore: the
\* gate S2 lets a thread reach value-- only while value is positive, so
\* at most C threads get past down for a count C.
AbstractCounting == Abs!Spec

\* While the count is positive and a worker is inside csem_down, some
\* worker eventually gets past the gate to value-- (S2 is never left
\* closed with a positive count, and S1 is never held while waiting on S2).
DownProgress ==
  (live /\ value > 0 /\ \E t \in Workers : pc[t] \in {"D1", "D1w", "D2", "D2w"})
    ~> \E t \in Workers : pc[t] = "D3"

\* Every allocated binary semaphore belongs to someone: the other code, or
\* the live counting semaphore (spec 7: a failed allocation is rolled back).
NoLeakedSemaphore ==
  \A d \in Desc : balloc[d] => d \in held \/ (live /\ d \in {S1, S2})

=============================================================================
