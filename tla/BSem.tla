-------------------------------- MODULE BSem --------------------------------
(***************************************************************************)
(* The binary semaphores of kernel/proc.c (bsem_alloc, bsem_free,          *)
(* bsem_down, bsem_up) together with the thread and process life cycle     *)
(* they interact with: thread slots that block in bsem_down, threads and   *)
(* processes that are killed (handle_SIGKILL, kill_all_threads_...), that  *)
(* exit (kthread_exit, exit), are reaped (wait/freeproc) and whose slots  *)
(* are reused (fork, kthread_create).                                      *)
(*                                                                         *)
(* A thread slot is its index in a waiter array,                           *)
(*   (p - proc) * NTHREAD + (t - p->threads),                              *)
(* so the slot of process p, thread i is p * NTHREAD + i, and bsem_up's    *)
(* "first waiter found" is the least index.  T_RUNNING is folded into      *)
(* T_RUNNABLE: a RUNNABLE thread takes its next step when a scheduler      *)
(* picks it, and every step below is one p->lock / sem->lock critical      *)
(* section of the code.                                                    *)
(***************************************************************************)
EXTENDS Naturals, FiniteSets, FiniteSetsExt

CONSTANTS
  NPROC,     \* process slots (proc[NPROC])
  NTHREAD,   \* thread slots per process (p->threads[NTHREAD])
  NSEM,      \* semaphore slots (binary_semaphores[MAX_BSEM])
  Kills      \* whether kill() of a process and exit() with live siblings happen

ASSUME NPROC \in Nat \ {0} /\ NTHREAD \in Nat \ {0} /\ NSEM \in Nat \ {0}
ASSUME Kills \in BOOLEAN

Procs == 0 .. NPROC - 1
Slots == 0 .. NPROC * NTHREAD - 1
Sems  == 0 .. NSEM - 1
NoSem == -1
ProcOf(t) == t \div NTHREAD
ThreadsOf(p) == {t \in Slots : ProcOf(t) = p}
Primary(p) == p * NTHREAD

\* pc values: running user code; inside the bsem_down / bsem_up system call
\* after usertrap's p->killed / t->killed checks; asleep in bsem_down's
\* sched(); back in usertrap after the system call; in exit()'s join phase;
\* not executing.
PCs == {"user", "sys_down", "sys_up", "down_sleep", "ret", "exit_join", "dead"}

VARIABLES
  tstate,    \* t->state: "UNUSED", "RUNNABLE", "SLEEPING", "ZOMBIE"
  tkilled,   \* t->killed
  pstate,    \* p->state: "UNUSED", "RUNNABLE", "ZOMBIE"
  killed,    \* p->killed
  pc,        \* where each thread is executing
  sarg,      \* the descriptor argument of the bsem call in progress
  holds,     \* semaphores a thread's program has acquired and not released
  sdesc,     \* binary_semaphores[s].descriptor /= -1
  sfree,     \* binary_semaphores[s].free
  waiters    \* binary_semaphores[s].threasd_array, as the set of non-null indices

vars == <<tstate, tkilled, pstate, killed, pc, sarg, holds, sdesc, sfree, waiters>>
semVars == <<sdesc, sfree, waiters>>

TypeOK ==
  /\ tstate \in [Slots -> {"UNUSED", "RUNNABLE", "SLEEPING", "ZOMBIE"}]
  /\ tkilled \in [Slots -> BOOLEAN]
  /\ pstate \in [Procs -> {"UNUSED", "RUNNABLE", "ZOMBIE"}]
  /\ killed \in [Procs -> BOOLEAN]
  /\ pc \in [Slots -> PCs]
  /\ sarg \in [Slots -> Sems \cup {NoSem}]
  /\ holds \in [Slots -> SUBSET Sems]
  /\ sdesc \in [Sems -> BOOLEAN]
  /\ sfree \in [Sems -> BOOLEAN]
  /\ waiters \in [Sems -> SUBSET Slots]

\* procinit: every descriptor is -1; each process runs its first thread.
Init ==
  /\ tstate = [t \in Slots |-> IF t = Primary(ProcOf(t)) THEN "RUNNABLE" ELSE "UNUSED"]
  /\ tkilled = [t \in Slots |-> FALSE]
  /\ pstate = [p \in Procs |-> "RUNNABLE"]
  /\ killed = [p \in Procs |-> FALSE]
  /\ pc = [t \in Slots |-> IF t = Primary(ProcOf(t)) THEN "user" ELSE "dead"]
  /\ sarg = [t \in Slots |-> NoSem]
  /\ holds = [t \in Slots |-> {}]
  /\ sdesc = [s \in Sems |-> FALSE]
  /\ sfree = [s \in Sems |-> FALSE]
  /\ waiters = [s \in Sems |-> {}]

Runs(t, where) == tstate[t] = "RUNNABLE" /\ pc[t] = where

\* usertrap's checks on system-call entry: a killed thread never enters one.
EntersSyscall(t) ==
  /\ Runs(t, "user")
  /\ ~killed[ProcOf(t)]
  /\ ~tkilled[t]

\* A semaphore that no thread holds, waits on or is about to call with;
\* the only ones a correct program frees.
Unused(s) == \A u \in Slots : s \notin holds[u] /\ sarg[u] # s

(***************************************************************************)
(* bsem_alloc: the first descriptor equal to -1 is claimed, marked free    *)
(* and its waiter array cleared.                                           *)
(***************************************************************************)
bsem_alloc(t) ==
  /\ EntersSyscall(t)
  /\ \E s \in Sems : ~sdesc[s]
  /\ LET s == Min({x \in Sems : ~sdesc[x]}) IN
       /\ sdesc' = [sdesc EXCEPT ![s] = TRUE]
       /\ sfree' = [sfree EXCEPT ![s] = TRUE]
       /\ waiters' = [waiters EXCEPT ![s] = {}]
  /\ pc' = [pc EXCEPT ![t] = "ret"]
  /\ UNCHANGED <<tstate, tkilled, pstate, killed, sarg, holds>>

\* bsem_free: the descriptor goes back to -1, whatever the waiter array holds.
bsem_free(t, s) ==
  /\ EntersSyscall(t)
  /\ sdesc[s]
  /\ Unused(s)
  /\ sdesc' = [sdesc EXCEPT ![s] = FALSE]
  /\ pc' = [pc EXCEPT ![t] = "ret"]
  /\ UNCHANGED <<tstate, tkilled, pstate, killed, sarg, holds, sfree, waiters>>

\* sys_bsem_down / sys_bsem_up entered from user code.  The programs
\* acquire semaphores in increasing descriptor order, so that they do not
\* deadlock among themselves.
CallDown(t, s) ==
  /\ EntersSyscall(t)
  /\ sdesc[s]
  /\ \A x \in holds[t] : x < s
  /\ pc' = [pc EXCEPT ![t] = "sys_down"]
  /\ sarg' = [sarg EXCEPT ![t] = s]
  /\ UNCHANGED <<tstate, tkilled, pstate, killed, holds, semVars>>

CallUp(t, s) ==
  /\ EntersSyscall(t)
  /\ s \in holds[t]
  /\ pc' = [pc EXCEPT ![t] = "sys_up"]
  /\ sarg' = [sarg EXCEPT ![t] = s]
  /\ UNCHANGED <<tstate, tkilled, pstate, killed, holds, semVars>>

\* Mutant: bsem_down that takes a free semaphore without clearing free.
DownAcquire_keeps_free(t) ==
  /\ Runs(t, "sys_down")
  /\ sfree[sarg[t]]
  /\ holds' = [holds EXCEPT ![t] = @ \cup {sarg[t]}]
  /\ pc' = [pc EXCEPT ![t] = "ret"]
  /\ sarg' = [sarg EXCEPT ![t] = NoSem]
  /\ UNCHANGED <<tstate, tkilled, pstate, killed, semVars>>

\* bsem_down, semaphore unlocked: take it and return.
DownAcquire(t) ==
  /\ Runs(t, "sys_down")
  /\ sfree[sarg[t]]
  /\ sfree' = [sfree EXCEPT ![sarg[t]] = FALSE]
  /\ holds' = [holds EXCEPT ![t] = @ \cup {sarg[t]}]
  /\ pc' = [pc EXCEPT ![t] = "ret"]
  /\ sarg' = [sarg EXCEPT ![t] = NoSem]
  /\ UNCHANGED <<tstate, tkilled, pstate, killed, sdesc, waiters>>

\* Mutant: the waiter index computed one past the thread's own slot.
DownBlock_index_off_by_one(t) ==
  /\ Runs(t, "sys_down")
  /\ ~sfree[sarg[t]]
  /\ waiters' = [waiters EXCEPT ![sarg[t]] = @ \cup {t + 1}]
  /\ tstate' = [tstate EXCEPT ![t] = "SLEEPING"]
  /\ pc' = [pc EXCEPT ![t] = "down_sleep"]
  /\ UNCHANGED <<tkilled, pstate, killed, sarg, holds, sdesc, sfree>>

\* bsem_down, semaphore locked: record the caller in the waiter array, mark
\* it T_SLEEPING under p->lock, release sem->lock and sched().
DownBlock(t) ==
  /\ Runs(t, "sys_down")
  /\ ~sfree[sarg[t]]
  /\ waiters' = [waiters EXCEPT ![sarg[t]] = @ \cup {t}]
  /\ tstate' = [tstate EXCEPT ![t] = "SLEEPING"]
  /\ pc' = [pc EXCEPT ![t] = "down_sleep"]
  /\ UNCHANGED <<tkilled, pstate, killed, sarg, holds, sdesc, sfree>>

\* Back from sched() in bsem_down: release p->lock and return, as the owner.
DownResume(t) ==
  /\ Runs(t, "down_sleep")
  /\ holds' = [holds EXCEPT ![t] = @ \cup {sarg[t]}]
  /\ pc' = [pc EXCEPT ![t] = "ret"]
  /\ sarg' = [sarg EXCEPT ![t] = NoSem]
  /\ UNCHANGED <<tstate, tkilled, pstate, killed, semVars>>

\* Mutant: bsem_up that wakes a waiter and also marks the semaphore free.
bsem_up_always_frees(t) ==
  /\ Runs(t, "sys_up")
  /\ LET s == sarg[t] IN
       /\ IF waiters[s] # {}
          THEN /\ tstate' = [tstate EXCEPT ![Min(waiters[s])] = "RUNNABLE"]
               /\ waiters' = [waiters EXCEPT ![s] = @ \ {Min(@)}]
          ELSE UNCHANGED <<tstate, waiters>>
       /\ sfree' = [sfree EXCEPT ![s] = TRUE]
  /\ holds' = [holds EXCEPT ![t] = @ \ {sarg[t]}]
  /\ pc' = [pc EXCEPT ![t] = "ret"]
  /\ sarg' = [sarg EXCEPT ![t] = NoSem]
  /\ UNCHANGED <<tkilled, pstate, killed, sdesc>>

\* Mutant: bsem_up that wakes the first waiter but leaves its entry.
bsem_up_keeps_entry(t) ==
  /\ Runs(t, "sys_up")
  /\ LET s == sarg[t] IN
       IF waiters[s] # {}
       THEN /\ tstate' = [tstate EXCEPT ![Min(waiters[s])] = "RUNNABLE"]
            /\ UNCHANGED <<sfree, waiters>>
       ELSE /\ sfree' = [sfree EXCEPT ![s] = TRUE]
            /\ UNCHANGED <<tstate, waiters>>
  /\ holds' = [holds EXCEPT ![t] = @ \ {sarg[t]}]
  /\ pc' = [pc EXCEPT ![t] = "ret"]
  /\ sarg' = [sarg EXCEPT ![t] = NoSem]
  /\ UNCHANGED <<tkilled, pstate, killed, sdesc>>

bsem_up(t) ==
  /\ Runs(t, "sys_up")
  /\ LET s == sarg[t] IN
       IF waiters[s] # {}
       THEN LET j == Min(waiters[s]) IN
              /\ tstate' = [tstate EXCEPT ![j] = "RUNNABLE"]
              /\ waiters' = [waiters EXCEPT ![s] = @ \ {j}]
              /\ UNCHANGED sfree
       ELSE /\ sfree' = [sfree EXCEPT ![s] = TRUE]
            /\ UNCHANGED <<tstate, waiters>>
  /\ holds' = [holds EXCEPT ![t] = @ \ {sarg[t]}]
  /\ pc' = [pc EXCEPT ![t] = "ret"]
  /\ sarg' = [sarg EXCEPT ![t] = NoSem]
  /\ UNCHANGED <<tkilled, pstate, killed, sdesc>>

\* usertrap after syscall(): neither p->killed nor t->killed, back to user.
TrapReturn(t) ==
  /\ Runs(t, "ret")
  /\ ~killed[ProcOf(t)]
  /\ ~tkilled[t]
  /\ pc' = [pc EXCEPT ![t] = "user"]
  /\ UNCHANGED <<tstate, tkilled, pstate, killed, sarg, holds, semVars>>

(***************************************************************************)
(* Thread and process life cycle.                                          *)
(***************************************************************************)
Live(t) == tstate[t] \in {"RUNNABLE", "SLEEPING"}
Others(t) == ThreadsOf(ProcOf(t)) \ {t}

\* kill_all_threads_besides_myself_and_wait, first loop: every other live
\* thread is flagged killed and a sleeping one made runnable; then the
\* thread joins the others.
ExitBegins(t) ==
  /\ tkilled' = [u \in Slots |-> IF u \in Others(t) /\ Live(u) THEN TRUE ELSE tkilled[u]]
  /\ tstate' = [u \in Slots |-> IF u \in Others(t) /\ tstate[u] = "SLEEPING"
                                THEN "RUNNABLE" ELSE tstate[u]]
  /\ pc' = [pc EXCEPT ![t] = "exit_join"]

\* exit(): called by usertrap when p->killed is seen at system-call entry,
\* after the system call or at a timer trap in user code, or by the exit
\* system call, which a correct program makes from its last live thread.
exit(t) ==
  /\ tstate[t] = "RUNNABLE"
  /\ \/ pc[t] \in {"user", "ret"} /\ killed[ProcOf(t)]
     \/ /\ EntersSyscall(t)
        /\ holds[t] = {}
        /\ Kills \/ \A u \in Others(t) : ~Live(u)
  /\ ExitBegins(t)
  /\ UNCHANGED <<pstate, killed, sarg, holds, semVars>>

\* Threads of t's process asleep in join() are woken by wakeup(t).
WakeJoiners(t) ==
  [u \in Slots |-> IF u \in Others(t) /\ pc[u] = "exit_join" /\ tstate[u] = "SLEEPING"
                   THEN "RUNNABLE" ELSE tstate[u]]

\* join() finds a sibling that is not yet ZOMBIE and, not being killed
\* itself, sleeps until that sibling exits.
JoinSleeps(t) ==
  /\ Runs(t, "exit_join")
  /\ ~tkilled[t]
  /\ \E u \in Others(t) : Live(u)
  /\ tstate' = [tstate EXCEPT ![t] = "SLEEPING"]
  /\ UNCHANGED <<tkilled, pstate, killed, pc, sarg, holds, semVars>>

\* The second loop of kill_all_threads_besides_myself_and_wait and the rest
\* of exit(): join() frees every ZOMBIE sibling, and the others have become
\* ZOMBIE or the caller has itself been flagged killed, when join returns
\* at once; then exit() wakes the joiners of t and the process and the
\* thread become ZOMBIE.
ExitEnds(t) ==
  /\ Runs(t, "exit_join")
  /\ tkilled[t] \/ \A u \in Others(t) : tstate[u] \in {"UNUSED", "ZOMBIE"}
  /\ tstate' = [u \in Slots |-> CASE u = t -> "ZOMBIE"
                                  [] u \in Others(t) /\ tstate[u] = "ZOMBIE" -> "UNUSED"
                                  [] OTHER -> WakeJoiners(t)[u]]
  /\ pstate' = [pstate EXCEPT ![ProcOf(t)] = "ZOMBIE"]
  /\ pc' = [pc EXCEPT ![t] = "dead"]
  /\ holds' = [holds EXCEPT ![t] = {}]
  /\ UNCHANGED <<tkilled, killed, sarg, semVars>>

\* kthread_exit: called by usertrap when t->killed (and not p->killed) is
\* seen, or by the system call.  check_if_last: with no other live thread
\* the thread runs exit(); otherwise it becomes ZOMBIE.
kthread_exit(t) ==
  /\ tstate[t] = "RUNNABLE"
  /\ \/ pc[t] \in {"user", "ret"} /\ tkilled[t] /\ ~killed[ProcOf(t)]
     \/ EntersSyscall(t) /\ holds[t] = {}
  /\ IF \A u \in Others(t) : ~Live(u)
     THEN /\ ExitBegins(t)
          /\ UNCHANGED holds
     ELSE /\ tstate' = [WakeJoiners(t) EXCEPT ![t] = "ZOMBIE"]
          /\ pc' = [pc EXCEPT ![t] = "dead"]
          /\ holds' = [holds EXCEPT ![t] = {}]
          /\ UNCHANGED tkilled
  /\ UNCHANGED <<pstate, killed, sarg, semVars>>

\* kthread_create / allocthread: the first slot that is UNUSED, or ZOMBIE
\* and then freed, becomes a new runnable thread.
kthread_create(t) ==
  /\ EntersSyscall(t)
  /\ \E u \in Others(t) : tstate[u] \in {"UNUSED", "ZOMBIE"}
  /\ LET nt == Min({u \in ThreadsOf(ProcOf(t)) : tstate[u] \in {"UNUSED", "ZOMBIE"}}) IN
       /\ tstate' = [tstate EXCEPT ![nt] = "RUNNABLE"]
       /\ tkilled' = [tkilled EXCEPT ![nt] = FALSE]
       /\ pc' = [pc EXCEPT ![nt] = "user", ![t] = "ret"]
       /\ holds' = [holds EXCEPT ![nt] = {}]
  /\ UNCHANGED <<pstate, killed, sarg, semVars>>

\* kill() of a process whose handler for the signal is the default or
\* SIGKILL action: handle_SIGKILL sets p->killed and makes the first
\* T_SLEEPING thread, and only that one, runnable.
handle_SIGKILL(p) ==
  /\ Kills
  /\ pstate[p] # "UNUSED"
  /\ killed' = [killed EXCEPT ![p] = TRUE]
  /\ tstate' = IF \E t \in ThreadsOf(p) : tstate[t] = "SLEEPING"
               THEN [tstate EXCEPT ![Min({t \in ThreadsOf(p) : tstate[t] = "SLEEPING"})] = "RUNNABLE"]
               ELSE tstate
  /\ UNCHANGED <<tkilled, pstate, pc, sarg, holds, semVars>>

\* wait() in the parent finds the ZOMBIE child and freeproc() frees every
\* thread slot that is not UNUSED and resets the process.
freeproc(p) ==
  /\ pstate[p] = "ZOMBIE"
  /\ pstate' = [pstate EXCEPT ![p] = "UNUSED"]
  /\ killed' = [killed EXCEPT ![p] = FALSE]
  /\ tstate' = [t \in Slots |-> IF ProcOf(t) = p THEN "UNUSED" ELSE tstate[t]]
  /\ tkilled' = [t \in Slots |-> IF ProcOf(t) = p THEN FALSE ELSE tkilled[t]]
  /\ pc' = [t \in Slots |-> IF ProcOf(t) = p THEN "dead" ELSE pc[t]]
  /\ holds' = [t \in Slots |-> IF ProcOf(t) = p THEN {} ELSE holds[t]]
  /\ sarg' = [t \in Slots |-> IF ProcOf(t) = p THEN NoSem ELSE sarg[t]]
  /\ UNCHANGED semVars

\* fork (by a process outside the model, e.g. init): allocproc takes the
\* UNUSED process slot, allocthread its first thread slot.
fork(p) ==
  /\ pstate[p] = "UNUSED"
  /\ pstate' = [pstate EXCEPT ![p] = "RUNNABLE"]
  /\ tstate' = [tstate EXCEPT ![Primary(p)] = "RUNNABLE"]
  /\ pc' = [pc EXCEPT ![Primary(p)] = "user"]
  /\ UNCHANGED <<tkilled, killed, sarg, holds, semVars>>

Next ==
  \/ \E t \in Slots :
       \/ bsem_alloc(t) \/ DownAcquire(t) \/ DownBlock(t)
       \/ DownResume(t) \/ bsem_up(t) \/ TrapReturn(t)
       \/ exit(t) \/ JoinSleeps(t) \/ ExitEnds(t) \/ kthread_exit(t) \/ kthread_create(t)
       \/ \E s \in Sems : bsem_free(t, s) \/ CallDown(t, s) \/ CallUp(t, s)
  \/ \E p \in Procs : handle_SIGKILL(p) \/ freeproc(p) \/ fork(p)

Spec == Init /\ [][Next]_vars

\* Fairness: scheduler() runs every RUNNABLE thread in turn, so a thread's
\* next step inside the kernel is eventually taken, and the timer traps
\* user code, so a killed thread eventually reaches usertrap's exit().
\* System calls a program chooses to make, and kills, get no fairness.
KernelStep(t) ==
  \/ DownAcquire(t) \/ DownBlock(t) \/ DownResume(t) \/ bsem_up(t)
  \/ TrapReturn(t) \/ JoinSleeps(t) \/ ExitEnds(t)
KilledExit(t) == (exit(t) \/ kthread_exit(t)) /\ (killed[ProcOf(t)] \/ tkilled[t])

FairSpec == Spec /\ \A t \in Slots : WF_vars(KernelStep(t)) /\ WF_vars(KilledExit(t))

-----------------------------------------------------------------------------
(***************************************************************************)
(* Properties.                                                             *)
(***************************************************************************)

\* A thread is in the critical section of s when its user code runs having
\* acquired s and not released it.
InCS(t, s) == s \in holds[t] /\ Runs(t, "user")

\* Mutual exclusion (spec 4.4, 8): for every interleaving of down/up,
\* kills, exits and slot reuse, at most one thread runs user code inside
\* the critical section of a semaphore.
MutualExclusion ==
  \A s \in Sems : \A t, u \in Slots : InCS(t, s) /\ InCS(u, s) => t = u

\* Every entry of a waiter array is a thread asleep in bsem_down on that
\* very semaphore: bsem_up never hands a semaphore to a slot that is not
\* waiting for it.
WaitersAreBlocked ==
  \A s \in Sems : \A j \in waiters[s] :
    tstate[j] = "SLEEPING" /\ pc[j] = "down_sleep" /\ sarg[j] = s

ZombieHasNoLiveThread ==
  \A p \in Procs : pstate[p] = "ZOMBIE" => \A t \in ThreadsOf(p) : ~Live(t)

\* A thread that has begun exit() (kill_all_threads_besides_myself_and_wait)
\* eventually sees its process ZOMBIE: every sibling it joins, including one
\* inside bsem_down, eventually exits.
ExitCompletes ==
  \A t \in Slots : pc[t] = "exit_join" ~> pstate[ProcOf(t)] = "ZOMBIE"

NoThread == -1

\* The refinement mapping: the owner of s is the thread that acquired it,
\* or the one bsem_up handed it to and that has not yet returned.
Owner(s) ==
  IF \E t \in Slots : s \in holds[t] \/ (Runs(t, "down_sleep") /\ sarg[t] = s)
  THEN CHOOSE t \in Slots : s \in holds[t] \/ (Runs(t, "down_sleep") /\ sarg[t] = s)
  ELSE NoThread

Blocked(s) == {t \in Slots : tstate[t] = "SLEEPING" /\ pc[t] = "down_sleep" /\ sarg[t] = s}

Abs == INSTANCE BinarySemaphore WITH
         Threads <- Slots, Sems <- Sems, NoThread <- NoThread,
         allocated <- sdesc, owner <- [s \in Sems |-> Owner(s)],
         blocked <- [s \in Sems |-> Blocked(s)]

\* bsem_alloc/free/down/up implement the abstract binary semaphore.
AbstractSemaphore == Abs!Spec

=============================================================================
