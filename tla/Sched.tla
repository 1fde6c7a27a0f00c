------------------------------- MODULE Sched -------------------------------
(***************************************************************************)
(* The per-CPU scheduler of kernel/proc.c, and the kernel paths that hand  *)
(* a thread to it: yield, sleep/wakeup (through join and kthread_exit),    *)
(* and bsem_down/bsem_up, at the granularity of their spinlocks.           *)
(*                                                                         *)
(* A spinlock is held by a CPU (holder variables plock, wlock, slock).     *)
(* scheduler() keeps p->lock across swtch; the resumed thread releases it  *)
(* and re-takes it before calling sched().  Each acquire is its own step,  *)
(* since it is where a CPU can wait; the stores done under a lock up to    *)
(* the next acquire or sched() are one step.  Threads are numbered by the  *)
(* waiter-array index (p - proc) * NTHREAD + (t - p->threads).             *)
(***************************************************************************)
EXTENDS Naturals, FiniteSets, FiniteSetsExt

CONSTANTS NPROC,      \* processes
          NTHREAD,    \* thread slots per process
          NCPU,       \* CPUs running scheduler()
          MaxKills    \* kill(pid, SIGKILL) calls by processes outside the model

Procs == 0 .. NPROC - 1
Thr == 0 .. NPROC * NTHREAD - 1
CPUs == 1 .. NCPU
NoCPU == 0            \* a free spinlock
NoThread == -1        \* c->thread = 0, t->chan = 0

ProcOf(t) == t \div NTHREAD
Siblings(t) == {u \in Thr : ProcOf(u) = ProcOf(t) /\ u # t}

VARIABLES tstate,    \* t->state
          pc,        \* where each thread is in the kernel code
          tchan,     \* t->chan
          arg,       \* the thread id join waits for
          wi,        \* the process index of wakeup()'s loop
          cur,       \* c->thread
          spos,      \* scheduler()'s loop position: process p, thread index i
          plock, wlock, slock,   \* holders of p->lock, wait_lock, sem->lock
          sfree,     \* sem->free
          waiters,   \* the non-zero entries of sem->threasd_array
          pstate,    \* p->state
          pkilled,   \* p->killed
          kills,     \* kill() calls made
          panicked   \* a panic() in sched() halted the machine

vars == <<tstate, pc, tchan, arg, wi, cur, spos, plock, wlock, slock,
          sfree, waiters, pstate, pkilled, kills, panicked>>

Init ==
  /\ tstate = [t \in Thr |-> "RUNNABLE"]
  /\ pc = [t \in Thr |-> "start"]
  /\ tchan = [t \in Thr |-> NoThread]
  /\ arg = [t \in Thr |-> NoThread]
  /\ wi = [t \in Thr |-> 0]
  /\ cur = [c \in CPUs |-> NoThread]
  /\ spos = [c \in CPUs |-> [p |-> 0, i |-> -1]]
  /\ plock = [p \in Procs |-> NoCPU]
  /\ wlock = NoCPU /\ slock = NoCPU
  /\ sfree = 1 /\ waiters = {}
  /\ pstate = [p \in Procs |-> "RUNNABLE"]
  /\ pkilled = [p \in Procs |-> FALSE]
  /\ kills = 0
  /\ panicked = FALSE

\* The locks CPU c holds after the step (mycpu()->noff).
Noff(c) == Cardinality({p \in Procs : plock'[p] = c})
             + (IF wlock' = c THEN 1 ELSE 0) + (IF slock' = c THEN 1 ELSE 0)

\* sched(): its four panic checks, then swtch back to scheduler(), which
\* continues its loop after this thread (c->thread = 0).
GoSched(c, t) ==
  /\ panicked' = ~(plock'[ProcOf(t)] = c /\ Noff(c) = 1
                   /\ tstate'[t] # "RUNNING")
  /\ cur' = [cur EXCEPT ![c] = NoThread]
  /\ spos' = [spos EXCEPT ![c].i = @ + 1]

\* The step of the thread running on CPU c, at program point l.
Running(c, l) == ~panicked /\ cur[c] # NoThread /\ pc[cur[c]] = l

Goto(t, l) == pc' = [pc EXCEPT ![t] = l]

SetP(t, h) == plock' = [plock EXCEPT ![ProcOf(t)] = h]

----------------------------------------------------------------------------
(* scheduler()                                                             *)

SchedLock(c) ==
  LET p == spos[c].p IN
  /\ ~panicked /\ cur[c] = NoThread /\ spos[c].i = -1 /\ plock[p] = NoCPU
  /\ IF pstate[p] = "RUNNABLE"
       THEN plock' = [plock EXCEPT ![p] = c] /\ spos' = [spos EXCEPT ![c].i = 0]
       ELSE UNCHANGED plock
            /\ spos' = [spos EXCEPT ![c] = [p |-> (p + 1) % NPROC, i |-> -1]]
  /\ UNCHANGED <<tstate, pc, tchan, arg, wi, cur, wlock, slock, sfree,
                 waiters, pstate, pkilled, kills, panicked>>

SchedRun(c) ==
  LET t == spos[c].p * NTHREAD + spos[c].i IN
  /\ ~panicked /\ cur[c] = NoThread /\ spos[c].i \in 0 .. NTHREAD - 1
  /\ tstate[t] = "RUNNABLE"
  /\ tstate' = [tstate EXCEPT ![t] = "RUNNING"]
  /\ cur' = [cur EXCEPT ![c] = t]
  /\ UNCHANGED <<pc, tchan, arg, wi, spos, plock, wlock, slock, sfree,
                 waiters, pstate, pkilled, kills, panicked>>

SchedSkip(c) ==
  LET t == spos[c].p * NTHREAD + spos[c].i IN
  /\ ~panicked /\ cur[c] = NoThread /\ spos[c].i \in 0 .. NTHREAD - 1
  /\ tstate[t] # "RUNNABLE"
  /\ spos' = [spos EXCEPT ![c].i = @ + 1]
  /\ UNCHANGED <<tstate, pc, tchan, arg, wi, cur, plock, wlock, slock, sfree,
                 waiters, pstate, pkilled, kills, panicked>>

SchedUnlock(c) ==
  LET p == spos[c].p IN
  /\ ~panicked /\ cur[c] = NoThread /\ spos[c].i = NTHREAD
  /\ plock' = [plock EXCEPT ![p] = NoCPU]
  /\ spos' = [spos EXCEPT ![c] = [p |-> (p + 1) % NPROC, i |-> -1]]
  /\ UNCHANGED <<tstate, pc, tchan, arg, wi, cur, wlock, slock, sfree,
                 waiters, pstate, pkilled, kills, panicked>>

----------------------------------------------------------------------------
(* The thread on CPU c.  t == cur[c] throughout.                           *)

schedVars == <<cur, spos, panicked>>
semVars == <<slock, sfree, waiters>>
procVars == <<pstate, pkilled, kills>>

\* forkret(), and the tail of yield() and bsem_down() after sched()
\* returns: release the p->lock scheduler() took.
Resume(c) ==
  LET t == cur[c] IN
  /\ \E l \in {"start", "yret", "D5"} : Running(c, l)
  /\ SetP(t, NoCPU) /\ Goto(t, "user")
  /\ UNCHANGED <<tstate, tchan, arg, wi, wlock, semVars, procVars, schedVars>>

\* usertrap(): the p->killed check (exit(-1) is modelled in Threads), then
\* the next trap: a timer interrupt, or one of the system calls.
UserTrap(c) ==
  LET t == cur[c] IN
  /\ Running(c, "user")
  /\ \/ pkilled[ProcOf(t)] /\ Goto(t, "killed") /\ UNCHANGED arg
     \/ ~pkilled[ProcOf(t)]
        /\ \/ \E l \in {"yield", "down", "up", "kexit"} :
                 Goto(t, l) /\ UNCHANGED arg
           \/ \E x \in Siblings(t) :
                 Goto(t, "join") /\ arg' = [arg EXCEPT ![t] = x]
  /\ UNCHANGED <<tstate, tchan, wi, plock, wlock, semVars, procVars,
                 schedVars>>

yield(c) ==
  LET t == cur[c] IN
  /\ Running(c, "yield") /\ plock[ProcOf(t)] = NoCPU
  /\ SetP(t, c)
  /\ tstate' = [tstate EXCEPT ![t] = "RUNNABLE"]
  /\ Goto(t, "yret")
  /\ UNCHANGED <<tchan, arg, wi, wlock, semVars, procVars>>
  /\ GoSched(c, t)

----------------------------------------------------------------------------
(* bsem_down / bsem_up on one allocated semaphore                          *)

\* acquire(&sem->lock); take a free semaphore, or record the caller as a
\* waiter and keep sem->lock.
DownLock(c) ==
  LET t == cur[c] IN
  /\ Running(c, "down") /\ slock = NoCPU
  /\ IF sfree = 1
       THEN sfree' = 0 /\ Goto(t, "user") /\ UNCHANGED <<slock, waiters>>
       ELSE /\ slock' = c /\ waiters' = waiters \cup {t}
            /\ Goto(t, "D3") /\ UNCHANGED sfree
  /\ UNCHANGED <<tstate, tchan, arg, wi, plock, wlock, procVars, schedVars>>

\* Mutant: sem->lock released only after sched() returns.
DownSleep_keeps_sem_lock(c) ==
  LET t == cur[c] IN
  /\ Running(c, "D3") /\ plock[ProcOf(t)] = NoCPU
  /\ SetP(t, c)
  /\ tstate' = [tstate EXCEPT ![t] = "SLEEPING"]
  /\ Goto(t, "D4")
  /\ UNCHANGED <<tchan, arg, wi, wlock, slock, sfree, waiters, procVars,
                 schedVars>>

\* acquire(&p->lock); t->state = T_SLEEPING; release(&sem->lock).
DownSleep(c) ==
  LET t == cur[c] IN
  /\ Running(c, "D3") /\ plock[ProcOf(t)] = NoCPU
  /\ SetP(t, c)
  /\ tstate' = [tstate EXCEPT ![t] = "SLEEPING"]
  /\ slock' = NoCPU
  /\ Goto(t, "D4")
  /\ UNCHANGED <<tchan, arg, wi, wlock, sfree, waiters, procVars, schedVars>>

DownSched(c) ==
  LET t == cur[c] IN
  /\ Running(c, "D4")
  /\ Goto(t, "D5")
  /\ UNCHANGED <<tstate, plock>>
  /\ UNCHANGED <<tchan, arg, wi, wlock, semVars, procVars>>
  /\ GoSched(c, t)

\* acquire(&sem->lock); with no waiter, free the semaphore.
UpLock(c) ==
  LET t == cur[c] IN
  /\ Running(c, "up") /\ slock = NoCPU
  /\ IF waiters # {}
       THEN slock' = c /\ Goto(t, "U2") /\ UNCHANGED sfree
       ELSE sfree' = 1 /\ Goto(t, "user") /\ UNCHANGED slock
  /\ UNCHANGED <<tstate, tchan, arg, wi, plock, wlock, waiters, procVars,
                 schedVars>>

\* Mutant: the woken waiter's entry is left in the array.
UpWake_keeps_entry(c) ==
  LET t == cur[c]
      j == Min(waiters)
  IN
  /\ Running(c, "U2") /\ plock[ProcOf(t)] = NoCPU
  /\ tstate' = [tstate EXCEPT ![j] = "RUNNABLE"]
  /\ slock' = NoCPU
  /\ Goto(t, "user")
  /\ UNCHANGED <<tchan, arg, wi, plock, wlock, sfree, waiters, procVars,
                 schedVars>>

\* acquire(&myproc()->lock): the CALLER's process lock, not the waiter's;
\* t->state = T_RUNNABLE for the first waiter; clear its entry.
UpWake(c) ==
  LET t == cur[c]
      j == Min(waiters)
  IN
  /\ Running(c, "U2") /\ plock[ProcOf(t)] = NoCPU
  /\ tstate' = [tstate EXCEPT ![j] = "RUNNABLE"]
  /\ waiters' = waiters \ {j}
  /\ slock' = NoCPU
  /\ Goto(t, "user")
  /\ UNCHANGED <<tchan, arg, wi, plock, wlock, sfree, procVars, schedVars>>

----------------------------------------------------------------------------
(* join() and the sleep() it calls                                         *)

JoinLockWait(c) ==
  LET t == cur[c] IN
  /\ Running(c, "join") /\ wlock = NoCPU
  /\ wlock' = c /\ Goto(t, "J2")
  /\ UNCHANGED <<tstate, tchan, arg, wi, plock, semVars, procVars, schedVars>>

JoinLockProc(c) ==
  LET t == cur[c] IN
  /\ Running(c, "J2") /\ plock[ProcOf(t)] = NoCPU
  /\ SetP(t, c) /\ Goto(t, "J3")
  /\ UNCHANGED <<tstate, tchan, arg, wi, wlock, semVars, procVars, schedVars>>

\* With both locks held: reap a ZOMBIE target (freethread), return when it
\* is gone, or release p->lock and go to sleep on it.  t->killed is only
\* set by exit's sweep, which this module leaves to Threads.
JoinScan(c) ==
  LET t == cur[c]
      x == arg[t]
  IN
  /\ Running(c, "J3")
  /\ SetP(t, NoCPU)
  /\ \/ /\ tstate[x] = "ZOMBIE"
        /\ tstate' = [tstate EXCEPT ![x] = "UNUSED"]
        /\ tchan' = [tchan EXCEPT ![x] = NoThread]
        /\ wlock' = NoCPU /\ Goto(t, "user")
     \/ /\ tstate[x] = "UNUSED"
        /\ wlock' = NoCPU /\ Goto(t, "user") /\ UNCHANGED <<tstate, tchan>>
     \/ /\ tstate[x] \notin {"ZOMBIE", "UNUSED"}
        /\ Goto(t, "J4") /\ UNCHANGED <<tstate, tchan, wlock>>
  /\ UNCHANGED <<arg, wi, semVars, procVars, schedVars>>

\* sleep(chan, &wait_lock): acquire(&p->lock); release(lk); t->chan = chan;
\* t->state = T_SLEEPING.
Sleep(c) ==
  LET t == cur[c] IN
  /\ Running(c, "J4") /\ plock[ProcOf(t)] = NoCPU
  /\ SetP(t, c)
  /\ wlock' = NoCPU
  /\ tchan' = [tchan EXCEPT ![t] = arg[t]]
  /\ tstate' = [tstate EXCEPT ![t] = "SLEEPING"]
  /\ Goto(t, "J5")
  /\ UNCHANGED <<arg, wi, semVars, procVars, schedVars>>

SleepSched(c) ==
  LET t == cur[c] IN
  /\ Running(c, "J5")
  /\ Goto(t, "J6")
  /\ UNCHANGED <<tstate, plock>>
  /\ UNCHANGED <<tchan, arg, wi, wlock, semVars, procVars>>
  /\ GoSched(c, t)

\* After sched() returns: t->chan = 0; release(&p->lock).
SleepWoken(c) ==
  LET t == cur[c] IN
  /\ Running(c, "J6")
  /\ tchan' = [tchan EXCEPT ![t] = NoThread]
  /\ SetP(t, NoCPU) /\ Goto(t, "J7")
  /\ UNCHANGED <<tstate, arg, wi, wlock, semVars, procVars, schedVars>>

\* acquire(lk) at the end of sleep(); join's loop then takes p->lock again.
SleepRelock(c) ==
  LET t == cur[c] IN
  /\ Running(c, "J7") /\ wlock = NoCPU
  /\ wlock' = c /\ Goto(t, "J2")
  /\ UNCHANGED <<tstate, tchan, arg, wi, plock, semVars, procVars, schedVars>>

----------------------------------------------------------------------------
(* kthread_exit() and exit() of the last thread                            *)

\* check_if_last(): no other thread of the process is RUNNABLE, RUNNING or
\* SLEEPING (T_USED does not occur here: nothing is created).
IsLast(t) ==
  \A u \in Siblings(t) : tstate[u] \notin {"RUNNABLE", "RUNNING", "SLEEPING"}

\* Mutant: kthread_exit without its wakeup(t).
ExitLockWait_no_wakeup(c) ==
  LET t == cur[c] IN
  /\ Running(c, "K2") /\ wlock = NoCPU
  /\ wlock' = c /\ wi' = [wi EXCEPT ![t] = 0] /\ Goto(t, "K4")
  /\ UNCHANGED <<tstate, tchan, arg, plock, semVars, procVars, schedVars>>

ExitCheck(c) ==
  LET t == cur[c] IN
  /\ Running(c, "kexit") /\ plock[ProcOf(t)] = NoCPU
  /\ Goto(t, IF IsLast(t) THEN "exit" ELSE "K2")
  /\ UNCHANGED <<tstate, tchan, arg, wi, plock, wlock, semVars, procVars,
                 schedVars>>

ExitLockWait(c) ==
  LET t == cur[c] IN
  /\ Running(c, "K2") /\ wlock = NoCPU
  /\ wlock' = c /\ wi' = [wi EXCEPT ![t] = 0] /\ Goto(t, "K3")
  /\ UNCHANGED <<tstate, tchan, arg, plock, semVars, procVars, schedVars>>

\* One iteration of wakeup(t): take process q's lock and, if q is RUNNABLE,
\* make its threads sleeping on t RUNNABLE.
Wakeup(c) ==
  LET t == cur[c]
      q == wi[t]
      next == IF pc[t] = "K3" THEN "K4" ELSE "X4"
  IN
  /\ \E l \in {"K3", "X3"} : Running(c, l)
  /\ plock[q] = NoCPU
  /\ tstate' = [u \in Thr |->
                  IF ProcOf(u) = q /\ pstate[q] = "RUNNABLE"
                     /\ tstate[u] = "SLEEPING" /\ tchan[u] = t
                  THEN "RUNNABLE" ELSE tstate[u]]
  /\ wi' = [wi EXCEPT ![t] = q + 1]
  /\ IF q + 1 = NPROC THEN Goto(t, next) ELSE UNCHANGED pc
  /\ UNCHANGED <<tchan, arg, plock, wlock, semVars, procVars, schedVars>>

\* acquire(&p->lock); t->state = T_ZOMBIE; then either the second
\* check_if_last() sends the thread to exit(), or release(&wait_lock) and
\* sched() never to return.
ExitZombie(c) ==
  LET t == cur[c] IN
  /\ Running(c, "K4") /\ plock[ProcOf(t)] = NoCPU
  /\ tstate' = [tstate EXCEPT ![t] = "ZOMBIE"]
  /\ wlock' = NoCPU
  /\ UNCHANGED <<tchan, arg, wi, semVars, procVars>>
  /\ IF IsLast(t)
       THEN Goto(t, "exit") /\ UNCHANGED <<plock, schedVars>>
       ELSE Goto(t, "zombie") /\ SetP(t, c) /\ GoSched(c, t)

\* kill_all_threads_besides_myself_and_wait(): no sibling is live, so its
\* loop joins each ZOMBIE sibling, which frees it under wait_lock and
\* p->lock.
ExitReap(c) ==
  LET t == cur[c] IN
  /\ Running(c, "exit") /\ wlock = NoCPU /\ plock[ProcOf(t)] = NoCPU
  /\ tstate' = [u \in Thr |->
                  IF u \in Siblings(t) /\ tstate[u] = "ZOMBIE"
                  THEN "UNUSED" ELSE tstate[u]]
  /\ tchan' = [u \in Thr |->
                 IF u \in Siblings(t) /\ tstate[u] = "ZOMBIE"
                 THEN NoThread ELSE tchan[u]]
  /\ Goto(t, "X2")
  /\ UNCHANGED <<arg, wi, plock, wlock, semVars, procVars, schedVars>>

ExitLockWaitFinal(c) ==
  LET t == cur[c] IN
  /\ Running(c, "X2") /\ wlock = NoCPU
  /\ wlock' = c /\ wi' = [wi EXCEPT ![t] = 0] /\ Goto(t, "X3")
  /\ UNCHANGED <<tstate, tchan, arg, plock, semVars, procVars, schedVars>>

\* acquire(&p->lock); p->state = ZOMBIE; t->state = T_ZOMBIE;
\* release(&wait_lock); sched().
ExitFinal(c) ==
  LET t == cur[c] IN
  /\ Running(c, "X4") /\ plock[ProcOf(t)] = NoCPU
  /\ SetP(t, c)
  /\ pstate' = [pstate EXCEPT ![ProcOf(t)] = "ZOMBIE"]
  /\ tstate' = [tstate EXCEPT ![t] = "ZOMBIE"]
  /\ wlock' = NoCPU
  /\ Goto(t, "dead")
  /\ UNCHANGED <<tchan, arg, wi, semVars, pkilled, kills>>
  /\ GoSched(c, t)

----------------------------------------------------------------------------
(* kill(pid, SIGKILL) from a process outside the model                     *)

\* Under p->lock: p->killed = 1, and handle_SIGKILL makes the first
\* SLEEPING thread RUNNABLE, whatever it sleeps on.
Kill(p) ==
  LET s == {u \in Thr : ProcOf(u) = p /\ tstate[u] = "SLEEPING"} IN
  /\ ~panicked /\ kills < MaxKills /\ plock[p] = NoCPU
  /\ pkilled' = [pkilled EXCEPT ![p] = TRUE]
  /\ kills' = kills + 1
  /\ tstate' = IF s = {} THEN tstate
               ELSE [tstate EXCEPT ![Min(s)] = "RUNNABLE"]
  /\ UNCHANGED <<pc, tchan, arg, wi, plock, wlock, semVars, pstate,
                 schedVars>>

----------------------------------------------------------------------------
Next ==
  \E c \in CPUs :
    \/ SchedLock(c) \/ SchedRun(c) \/ SchedSkip(c) \/ SchedUnlock(c)
    \/ Resume(c) \/ UserTrap(c) \/ yield(c)
    \/ DownLock(c) \/ DownSleep(c) \/ DownSched(c) \/ UpLock(c) \/ UpWake(c)
    \/ JoinLockWait(c) \/ JoinLockProc(c) \/ JoinScan(c) \/ Sleep(c)
    \/ SleepSched(c) \/ SleepWoken(c) \/ SleepRelock(c)
    \/ ExitCheck(c) \/ ExitLockWait(c) \/ Wakeup(c) \/ ExitZombie(c)
    \/ ExitReap(c) \/ ExitLockWaitFinal(c) \/ ExitFinal(c)

Spec == Init /\ [][Next]_vars

\* The same kernel with SIGKILLs from outside.  A killed thread stops at
\* usertrap's check, where exit(-1) begins (modelled in Threads).
NextWithKills ==
  \/ Next
  \/ \E p \in Procs : Kill(p)

SpecWithKills == Init /\ [][NextWithKills]_vars

----------------------------------------------------------------------------
(* Properties                                                              *)

\* A thread's context runs on at most one CPU: scheduler() only picks a
\* RUNNABLE thread, so this fails if some path (bsem_up's store of
\* T_RUNNABLE through a stale waiter entry) makes a running thread RUNNABLE.
OnOneCPU ==
  \A c1, c2 \in CPUs : c1 # c2 /\ cur[c1] # NoThread => cur[c1] # cur[c2]

\* No lost wakeup: a thread asleep in join() on thread x is never left
\* asleep once x is a ZOMBIE or freed; kthread_exit's wakeup(t) under
\* wait_lock must reach every joiner that checked x before it exited.
NoLostWakeup ==
  \A t \in Thr :
    tstate[t] = "SLEEPING" /\ tchan[t] # NoThread
      => tstate[tchan[t]] \notin {"ZOMBIE", "UNUSED"}

\* sched() never panics: every path calls it holding exactly its own
\* p->lock and with t->state already changed from T_RUNNING.
NoPanic == ~panicked

====
